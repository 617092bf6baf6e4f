--------------------------- MODULE DreamojiProofs ---------------------------
(***************************************************************************)
(* The NFT contract, for any number of accounts, types, tokens and calls:  *)
(* ids of tokens are never reused, supplies stay in bounds, the tables     *)
(* keep their types, balances add up to the supply, a locked token keeps   *)
(* its owner, and the fees of a sale add up to its price.                  *)
(***************************************************************************)
EXTENDS Dreamoji, SumTheorems, TLAPS

\* The ids given so far are below the next one.
IdInv ==
  /\ next_nft_id \in Nat
  /\ \A i \in used : i \in Int /\ i < next_nft_id

\* Every step gives ids from next_nft_id upwards and moves it past them.
GivesIds ==
  \E n \in Nat :
    /\ next_nft_id' = next_nft_id + n
    /\ used' = used \cup (next_nft_id .. (next_nft_id + n - 1))
    /\ DOMAIN dreams' \ DOMAIN dreams \subseteq next_nft_id .. (next_nft_id + n - 1)

\* issuenft gives ids from the next one on.
LEMMA IssueGivesIds ==
  ASSUME NEW to, NEW t, NEW q \in Nat \ {0}, next_nft_id \in Nat, Issue(to, t, q)
  PROVE  GivesIds
PROOF
<1> DEFINE minted == IF dreamstats[t].kind.fungible THEN <<>> ELSE Minted(to, t, q)
<1>1. DOMAIN dreams' = DOMAIN dreams \cup DOMAIN minted
  BY DEF Issue
<1>2. used' = used \cup DOMAIN minted
  BY DEF Issue
<1>3. CASE dreamstats[t].kind.fungible
  <2>1. DOMAIN minted = {}
    BY <1>3
  <2>2. next_nft_id' = next_nft_id + 0
    BY <1>3 DEF Issue
  <2>3. next_nft_id .. (next_nft_id + 0 - 1) = {}
    OBVIOUS
  <2> QED
    BY <1>1, <1>2, <2>1, <2>2, <2>3 DEF GivesIds
<1>4. CASE ~ dreamstats[t].kind.fungible
  <2>1. DOMAIN minted = next_nft_id .. (next_nft_id + q - 1)
    BY <1>4 DEF Minted, _nextnftid
  <2>2. next_nft_id' = next_nft_id + q
    BY <1>4 DEF Issue, _nextnftid
  <2> QED
    BY <1>1, <1>2, <2>1, <2>2 DEF GivesIds
<1> QED
  BY <1>3, <1>4

\* No other action gives ids.
LEMMA StepGivesIds ==
  ASSUME IdInv, [Next]_vars
  PROVE  GivesIds
PROOF
<1>0. MaxIssued \in Nat
  BY DreamojiAssumption
<1>1. ASSUME NEW to, NEW t, NEW q \in 1..MaxIssued, Issue(to, t, q)
      PROVE  GivesIds
  BY <1>0, <1>1, IssueGivesIds DEF IdInv
<1>2. ASSUME UNCHANGED <<next_nft_id, used>>, DOMAIN dreams' \subseteq DOMAIN dreams
      PROVE  GivesIds
  <2>1. next_nft_id .. (next_nft_id + 0 - 1) = {}
    BY DEF IdInv
  <2> QED
    BY <1>2, <2>1 DEF GivesIds, IdInv
<1>3. CASE Supply
  <2>1. ASSUME NEW k, Create(k)
        PROVE  GivesIds
    BY <1>2, <2>1 DEF Create
  <2>2. ASSUME NEW t, FreezeMaxSup(t)
        PROVE  GivesIds
    BY <1>2, <2>2 DEF FreezeMaxSup
  <2>3. ASSUME NEW o, NEW i, BurnNft(o, i)
        PROVE  GivesIds
    BY <1>2, <2>3 DEF BurnNft, Erase
  <2>4. ASSUME NEW o, NEW c, NEW q, BurnFt(o, c, q)
        PROVE  GivesIds
    BY <1>2, <2>4 DEF BurnFt
  <2> QED
    BY <1>1, <1>3, <2>1, <2>2, <2>3, <2>4 DEF Supply
<1>4. CASE Transfers
  <2>1. ASSUME NEW from, NEW to, NEW t, NEW q, TransferFt(from, to, t, q)
        PROVE  GivesIds
    BY <1>2, <2>1 DEF TransferFt
  <2>2. ASSUME NEW from, NEW to, NEW i, TransferNft(from, to, i)
        PROVE  GivesIds
    BY <1>2, <2>2 DEF TransferNft, ChangeOwner
  <2>3. ASSUME NEW i, NEW parent, LinkNft(i, parent)
        PROVE  GivesIds
    BY <1>2, <2>3 DEF LinkNft
  <2>4. ASSUME NEW i, NEW parent, UnlinkNft(i, parent)
        PROVE  GivesIds
    BY <1>2, <2>4 DEF UnlinkNft
  <2> QED
    BY <1>4, <2>1, <2>2, <2>3, <2>4 DEF Transfers
<1>5. CASE Sales
  <2>1. ASSUME NEW s, NEW ids, NEW p, NfTokenSale(s, ids, p)
        PROVE  GivesIds
    BY <1>2, <2>1 DEF NfTokenSale
  <2>2. ASSUME NEW s, NEW b, EndNftSale(s, b)
        PROVE  GivesIds
    BY <1>2, <2>2 DEF EndNftSale
  <2>3. ASSUME NEW to, NEW b, PurchaseNft(to, b)
        PROVE  GivesIds
    BY <1>2, <2>3 DEF PurchaseNft, ChangeOwner
  <2> QED
    BY <1>5, <2>1, <2>2, <2>3 DEF Sales
<1>6. CASE Licensing
  <2>1. UNCHANGED <<next_nft_id, used, dreams>>
    BY <1>6 DEF Licensing, LicenceSale, EndLcncSale, PurchaseLicence, License, Extend,
                Revoke
  <2> QED
    BY <1>2, <2>1
<1>7. CASE Expire
  BY <1>2, <1>7 DEF Expire
<1>8. CASE UNCHANGED vars
  BY <1>2, <1>8 DEF vars
<1> QED
  BY <1>3, <1>4, <1>5, <1>6, <1>7, <1>8 DEF Next

\* The ids given so far always are below the next one.
LEMMA IdInvHolds == Spec => []IdInv
PROOF
<1>1. Init => IdInv
  BY DEF Init, IdInv
<1>2. ASSUME IdInv, GivesIds
      PROVE  IdInv'
  BY <1>2 DEF IdInv, GivesIds
<1>3. IdInv /\ [Next]_vars => IdInv'
  BY <1>2, StepGivesIds
<1> QED
  BY <1>1, <1>3, PTL DEF Spec

(***************************************************************************)
(* issue gives a token an id that no token ever had, also when the last    *)
(* tokens were burned: for every number of accounts, types and calls.      *)
(***************************************************************************)
THEOREM IdsAreNeverReused == Spec => IdsNeverReused
PROOF
<1>1. ASSUME IdInv, GivesIds
      PROVE  (DOMAIN dreams' \ DOMAIN dreams) \cap used = {}
  BY <1>1 DEF IdInv, GivesIds
<1>2. IdInv /\ [Next]_vars => [(DOMAIN dreams' \ DOMAIN dreams) \cap used = {}]_vars
  BY <1>1, StepGivesIds
<1> QED
  BY <1>2, IdInvHolds, PTL DEF Spec, IdsNeverReused

-----------------------------------------------------------------------------
StatsRow == [kind : Kinds, cid : Nat, max_supply : Int,
             window : {"none", "open", "closed"},
             current_supply : Int, issued_supply : Int]
RowInBounds(st) ==
  /\ st \in StatsRow
  /\ st.current_supply <= st.issued_supply
  /\ st.max_supply # 0 => st.issued_supply <= st.max_supply
\* SupplyInBounds, with the types of the rows.
SupplyInv == \A t \in DOMAIN dreamstats : RowInBounds(dreamstats[t])

\* Every step writes at most one row, and one in bounds.
LEMMA SetKeepsSupply ==
  ASSUME SupplyInv, NEW t, NEW row, RowInBounds(row),
         dreamstats' = Set(dreamstats, t, row)
  PROVE  SupplyInv'
PROOF
  BY DEF SupplyInv, Set

\* What a row becomes when supplies change.
LEMMA SuppliedRow ==
  ASSUME NEW st \in StatsRow, NEW c \in Int, NEW n \in Int
  PROVE  /\ Supplied(st, c, n) \in StatsRow
         /\ Supplied(st, c, n).current_supply = st.current_supply + c
         /\ Supplied(st, c, n).issued_supply = st.issued_supply + n
         /\ Supplied(st, c, n).max_supply = st.max_supply
PROOF
<1>1. st.current_supply + c \in Int /\ st.issued_supply + n \in Int
  BY DEF StatsRow
<1> DEFINE mid == [st EXCEPT !.current_supply = st.current_supply + c]
<1>2. mid \in StatsRow /\ mid.issued_supply = st.issued_supply
  BY <1>1 DEF StatsRow
<1>3. Supplied(st, c, n) = [mid EXCEPT !.issued_supply = st.issued_supply + n]
  BY <1>2 DEF Supplied, StatsRow
<1>4. Supplied(st, c, n) \in StatsRow
  <2> HIDE DEF mid
  <2> QED
    BY <1>1, <1>2, <1>3 DEF StatsRow
<1>5. /\ Supplied(st, c, n).current_supply = st.current_supply + c
      /\ Supplied(st, c, n).issued_supply = st.issued_supply + n
      /\ Supplied(st, c, n).max_supply = st.max_supply
  BY DEF Supplied, StatsRow
<1> QED
  BY <1>4, <1>5

\* Every step keeps the supplies in bounds.
LEMMA SupplyStep ==
  ASSUME SupplyInv, names \in Seq(Types), [Next]_vars
  PROVE  SupplyInv'
PROOF
<1>0. MaxIssued \in Nat
  BY DreamojiAssumption
<1>1. ASSUME UNCHANGED dreamstats
      PROVE  SupplyInv'
  BY <1>1 DEF SupplyInv
<1>2. ASSUME NEW k \in Kinds, Create(k)
      PROVE  SupplyInv'
  <2> DEFINE row == [kind |-> k, cid |-> Len(names) + 1, max_supply |-> k.max,
                     window |-> IF k.days = 0 THEN "none" ELSE "open",
                     current_supply |-> 0, issued_supply |-> 0]
  <2>1. k.max \in Nat
    BY DreamojiAssumption
  <2>2. row \in StatsRow
    BY <2>1 DEF StatsRow
  <2>3. RowInBounds(row)
    BY <2>1, <2>2 DEF RowInBounds
  <2>4. dreamstats' = Set(dreamstats, k.type, row)
    BY <1>2 DEF Create
  <2> QED
    BY <2>3, <2>4, SetKeepsSupply
<1>3. ASSUME NEW t, FreezeMaxSup(t)
      PROVE  SupplyInv'
  <2> DEFINE row == [dreamstats[t] EXCEPT !.max_supply = dreamstats[t].issued_supply,
                                          !.window = "none"]
  <2>1. RowInBounds(dreamstats[t])
    BY <1>3 DEF FreezeMaxSup, SupplyInv
  <2>2. RowInBounds(row)
    <3> DEFINE mid == [dreamstats[t] EXCEPT !.max_supply = dreamstats[t].issued_supply]
    <3>1. dreamstats[t] \in StatsRow /\ dreamstats[t].issued_supply \in Int
      BY <2>1 DEF RowInBounds, StatsRow
    <3>2. mid \in StatsRow
      BY <3>1 DEF StatsRow
    <3>3. row = [mid EXCEPT !.window = "none"]
      BY <3>1 DEF StatsRow
    <3>4. row \in StatsRow
      <4> HIDE DEF mid, row
      <4> QED
        BY <3>2, <3>3 DEF StatsRow
    <3>5. /\ row.current_supply = dreamstats[t].current_supply
          /\ row.issued_supply = dreamstats[t].issued_supply
          /\ row.max_supply = dreamstats[t].issued_supply
      BY <3>1 DEF StatsRow
    <3> QED
      BY <2>1, <3>1, <3>4, <3>5 DEF RowInBounds
  <2>3. dreamstats' = Set(dreamstats, t, row)
    BY <1>3 DEF FreezeMaxSup
  <2> QED
    BY <2>2, <2>3, SetKeepsSupply
<1>4. ASSUME NEW to, NEW t, NEW q \in 1..MaxIssued, Issue(to, t, q)
      PROVE  SupplyInv'
  <2> DEFINE st == dreamstats[t]
  <2>1. RowInBounds(st) /\ MayIssue(st, q)
    BY <1>4 DEF Issue, SupplyInv
  <2>2. RowInBounds(Supplied(st, q, q))
    <3>1. st \in StatsRow /\ q \in Int
      BY <1>0, <2>1 DEF RowInBounds
    <3>2. /\ st.current_supply \in Int /\ st.issued_supply \in Int
          /\ st.max_supply \in Int
      BY <3>1 DEF StatsRow
    <3>3. st.max_supply # 0 => st.issued_supply + q <= st.max_supply
      BY <2>1, <3>1, <3>2 DEF MayIssue
    <3> QED
      BY <2>1, <3>1, <3>2, <3>3, SuppliedRow DEF RowInBounds
  <2>3. dreamstats' = Set(dreamstats, t, Supplied(st, q, q))
    BY <1>4 DEF Issue
  <2> QED
    BY <2>2, <2>3, SetKeepsSupply
<1>5. ASSUME NEW o, NEW i, BurnNft(o, i)
      PROVE  SupplyInv'
  <2> DEFINE t == dreams[i].type
             st == dreamstats[t]
  <2>1. RowInBounds(st)
    BY <1>5 DEF BurnNft, SupplyInv
  <2>2. CASE dreamstats' = Erase(dreamstats, t)
    BY <2>2 DEF Erase, SupplyInv
  <2>3. CASE dreamstats' = Set(dreamstats, t, Supplied(st, -1, -1))
    <3>1. st \in StatsRow /\ -1 \in Int
      BY <2>1 DEF RowInBounds
    <3>2. /\ st.current_supply \in Int /\ st.issued_supply \in Int
          /\ st.max_supply \in Int
      BY <3>1 DEF StatsRow
    <3>3. /\ Supplied(st, -1, -1) \in StatsRow
          /\ Supplied(st, -1, -1).current_supply = st.current_supply - 1
          /\ Supplied(st, -1, -1).issued_supply = st.issued_supply - 1
          /\ Supplied(st, -1, -1).max_supply = st.max_supply
      <4> DEFINE m == -1
      <4>1. m \in Int
        OBVIOUS
      <4>2. /\ Supplied(st, m, m) \in StatsRow
            /\ Supplied(st, m, m).current_supply = st.current_supply + m
            /\ Supplied(st, m, m).issued_supply = st.issued_supply + m
            /\ Supplied(st, m, m).max_supply = st.max_supply
        <5> HIDE DEF m
        <5> QED
          BY <3>1, <4>1, SuppliedRow
      <4> QED
        BY <3>2, <4>2
    <3>4. RowInBounds(Supplied(st, -1, -1))
      BY <2>1, <3>2, <3>3 DEF RowInBounds
    <3> QED
      BY <2>3, <3>4, SetKeepsSupply
  <2>4. \/ dreamstats' = Erase(dreamstats, t)
        \/ dreamstats' = Set(dreamstats, t, Supplied(st, -1, -1))
    BY <1>5 DEF BurnNft
  <2> QED
    BY <2>2, <2>3, <2>4
<1>6. ASSUME NEW o, NEW c, NEW q \in 1..MaxIssued, BurnFt(o, c, q)
      PROVE  SupplyInv'
  <2> DEFINE st == dreamstats[names[c]]
  <2>1. RowInBounds(st)
    BY <1>6 DEF BurnFt, SupplyInv
  <2>2. st \in StatsRow /\ q \in Nat /\ -q \in Int /\ 0 \in Int
    BY <1>0, <2>1 DEF RowInBounds
  <2>3. /\ st.current_supply \in Int /\ st.issued_supply \in Int
        /\ st.max_supply \in Int
    BY <2>2 DEF StatsRow
  <2>4. RowInBounds(Supplied(st, -q, 0))
    BY <2>1, <2>2, <2>3, SuppliedRow DEF RowInBounds
  <2>5. dreamstats' = Set(dreamstats, names[c], Supplied(st, -q, 0))
    BY <1>6 DEF BurnFt
  <2> QED
    BY <2>4, <2>5, SetKeepsSupply
<1>7. CASE Expire
  <2>1. CASE UNCHANGED dreamstats
    BY <1>1, <2>1
  <2>2. ASSUME NEW t \in DOMAIN dreamstats,
               dreamstats' = Set(dreamstats, t,
                                 [dreamstats[t] EXCEPT !.window = "closed"])
        PROVE  SupplyInv'
    <3>1. RowInBounds([dreamstats[t] EXCEPT !.window = "closed"])
      BY DEF SupplyInv, RowInBounds, StatsRow
    <3> QED
      BY <2>2, <3>1, SetKeepsSupply
  <2> QED
    BY <1>7, <2>1, <2>2 DEF Expire
<1>8. CASE Supply
  BY <1>2, <1>3, <1>4, <1>5, <1>6, <1>8 DEF Supply
<1>9. CASE Transfers
  BY <1>1, <1>9 DEF Transfers, TransferFt, TransferNft, LinkNft, UnlinkNft, supplyVars
<1>10. CASE Sales
  BY <1>1, <1>10 DEF Sales, NfTokenSale, EndNftSale, PurchaseNft, supplyVars
<1>11. CASE Licensing
  BY <1>1, <1>11 DEF Licensing, LicenceSale, EndLcncSale, PurchaseLicence, License,
                     Extend, Revoke, supplyVars
<1>12. CASE UNCHANGED vars
  BY <1>1, <1>12 DEF vars
<1> QED
  BY <1>7, <1>8, <1>9, <1>10, <1>11, <1>12 DEF Next

\* Every step keeps the list of type names.
LEMMA NamesStep ==
  ASSUME names \in Seq(Types), [Next]_vars
  PROVE  names' \in Seq(Types)
PROOF
<1>1. ASSUME NEW k \in Kinds, Create(k)
      PROVE  names' \in Seq(Types)
  <2>1. k.type \in Types
    BY DEF Types
  <2> QED
    BY <1>1, <2>1 DEF Create
<1>2. CASE UNCHANGED names
  BY <1>2
<1>3. CASE Supply
  BY <1>1, <1>2, <1>3 DEF Supply, FreezeMaxSup, Issue, BurnNft, BurnFt
<1>4. CASE Transfers
  BY <1>2, <1>4 DEF Transfers, TransferFt, TransferNft, LinkNft, UnlinkNft, supplyVars
<1>5. CASE Sales
  BY <1>2, <1>5 DEF Sales, NfTokenSale, EndNftSale, PurchaseNft, supplyVars
<1>6. CASE Licensing
  BY <1>2, <1>6 DEF Licensing, LicenceSale, EndLcncSale, PurchaseLicence, License,
                    Extend, Revoke, supplyVars
<1>7. CASE Expire \/ UNCHANGED vars
  BY <1>2, <1>7 DEF Expire, vars
<1> QED
  BY <1>3, <1>4, <1>5, <1>6, <1>7 DEF Next

-----------------------------------------------------------------------------
(* The recursions of the model: FlattenSeq of the community modules, and   *)
(* the walk over children.                                                 *)

\* g[i] is the concatenation of the first i sequences of s.
Flattens(g, s, n) == g = [i \in 1..n |-> IF i = 1 THEN s[i] ELSE g[i - 1] \o s[i]]

\* FlattenSeq is defined by such a function,
LEMMA FlattenIs ==
  ASSUME NEW s, Len(s) # 0
  PROVE  FlattenSeq(s) = (CHOOSE g : Flattens(g, s, Len(s)))[Len(s)]
PROOF
  BY DEF FlattenSeq, Flattens

\* and there is one.
LEMMA FlattensExist ==
  ASSUME NEW s, NEW n \in Nat
  PROVE  \E g : Flattens(g, s, n)
PROOF
<1> DEFINE B == {m \in Nat : ~ \E g : Flattens(g, s, m)}
<1>1. SUFFICES ASSUME B # {} PROVE FALSE
  OBVIOUS
<1>2. PICK m \in B : \A k \in B : m <= k
  <2> HIDE DEF B
  <2>1. B \in SUBSET Nat
    BY DEF B
  <2> QED
    BY <1>1, <2>1, SmallestNumber
<1>3. m \in Nat /\ ~ \E g : Flattens(g, s, m)
  OBVIOUS
<1>4. m # 0
  <2>1. ASSUME m = 0 PROVE FALSE
    <3>1. PICK g : g = [i \in {} |-> 0]
      OBVIOUS
    <3>2. g = [i \in 1..0 |-> IF i = 1 THEN s[i] ELSE g[i - 1] \o s[i]]
      BY <3>1
    <3> QED
      BY <1>3, <2>1, <3>2 DEF Flattens
  <2> QED
    BY <2>1
<1>5. PICK h : Flattens(h, s, m - 1)
  <2>1. m - 1 \in Nat /\ ~ (m <= m - 1)
    BY <1>3, <1>4
  <2>2. m - 1 \notin B
    BY <1>2, <2>1
  <2> QED
    BY <2>1, <2>2
<1>6. PICK last : last = IF m = 1 THEN s[m] ELSE h[m - 1] \o s[m]
  OBVIOUS
<1>7. PICK g : g = [i \in 1..m |-> IF i = m THEN last ELSE h[i]]
  OBVIOUS
<1>8. \A i \in 1..(m - 1) : h[i] = IF i = 1 THEN s[i] ELSE h[i - 1] \o s[i]
  <2>1. PICK e : e = [i \in 1..(m - 1) |-> IF i = 1 THEN s[i] ELSE h[i - 1] \o s[i]]
    OBVIOUS
  <2>2. h = e
    BY <1>5, <2>1 DEF Flattens
  <2>3. \A i \in 1..(m - 1) : e[i] = IF i = 1 THEN s[i] ELSE h[i - 1] \o s[i]
    BY <2>1
  <2> QED
    BY <2>2, <2>3
<1>9. \A i \in 1..m : g[i] = IF i = 1 THEN s[i] ELSE g[i - 1] \o s[i]
  BY <1>3, <1>6, <1>7, <1>8
<1>10. Flattens(g, s, m)
  BY <1>7, <1>9 DEF Flattens
<1> QED
  BY <1>3, <1>10

\* A sequence of sequences is flattened to a sequence.
LEMMA FlattenType ==
  ASSUME NEW S, NEW s \in Seq(Seq(S))
  PROVE  FlattenSeq(s) \in Seq(S)
PROOF
<1>1. CASE Len(s) = 0
  <2>1. FlattenSeq(s) = s /\ s = << >>
    BY <1>1 DEF FlattenSeq
  <2> QED
    BY <2>1
<1>2. CASE Len(s) # 0
  <2>1. PICK n : n = Len(s)
    OBVIOUS
  <2>2. n \in Nat /\ n # 0 /\ \A i \in 1..n : s[i] \in Seq(S)
    BY <1>2, <2>1
  <2>3. PICK g : g = CHOOSE f : Flattens(f, s, n)
    OBVIOUS
  <2>4. Flattens(g, s, n) /\ FlattenSeq(s) = g[n]
    BY <1>2, <2>1, <2>2, <2>3, FlattensExist, FlattenIs
  <2>5. \A i \in 1..n : g[i] = IF i = 1 THEN s[i] ELSE g[i - 1] \o s[i]
    <3>1. PICK e : e = [i \in 1..n |-> IF i = 1 THEN s[i] ELSE g[i - 1] \o s[i]]
      OBVIOUS
    <3>2. g = e
      BY <2>4, <3>1 DEF Flattens
    <3>3. \A i \in 1..n : e[i] = IF i = 1 THEN s[i] ELSE g[i - 1] \o s[i]
      BY <3>1
    <3> QED
      BY <3>2, <3>3
  <2> DEFINE B == {i \in 1..n : g[i] \notin Seq(S)}
  <2>6. ASSUME B # {} PROVE FALSE
    <3>1. PICK m \in B : \A k \in B : m <= k
      <4> HIDE DEF B
      <4>1. B \in SUBSET Nat
        BY <2>2 DEF B
      <4> QED
        BY <2>6, <4>1, SmallestNumber
    <3>2. m \in 1..n /\ g[m] \notin Seq(S) /\ s[m] \in Seq(S)
      BY <2>2
    <3>3. CASE m = 1
      BY <2>5, <3>2, <3>3
    <3>4. CASE m # 1
      <4>1. m - 1 \in 1..n /\ ~ (m <= m - 1)
        BY <2>2, <3>2, <3>4
      <4>2. g[m - 1] \in Seq(S)
        BY <3>1, <4>1
      <4>3. g[m - 1] \o s[m] \in Seq(S)
        BY <3>2, <4>2
      <4> QED
        BY <2>5, <3>2, <3>4, <4>3
    <3> QED
      BY <3>3, <3>4
  <2>7. n \in 1..n
    BY <2>2
  <2> QED
    BY <2>4, <2>6, <2>7
<1> QED
  BY <1>1, <1>2

\* One more level of the walk, after the walks `below` from the children.
Visit(d, below) == [j \in NftIds |->
  IF j \notin DOMAIN dreams THEN <<j>>
  ELSE IF d = 0 THEN <<NoToken>>
  ELSE <<j>> \o FlattenSeq([c \in DOMAIN dreams[j].children |->
                              below[dreams[j].children[c]]])]
Walks(w, n) == w = [d \in 0..n |-> Visit(d, w[d - 1])]

\* Walk is defined by such a function,
LEMMA WalkIs ==
  ASSUME NEW i
  PROVE  Walk(i) = (CHOOSE w : Walks(w, Cardinality(DOMAIN dreams)))[Cardinality(DOMAIN dreams)][i]
PROOF
  BY DEF Walk, Walks, Visit

\* At depth 0 nothing below matters.
LEMMA VisitNone ==
  ASSUME NEW f, NEW g
  PROVE  Visit(0, f) = Visit(0, g)
PROOF
  BY DEF Visit

\* and there is one.
LEMMA WalksExist ==
  ASSUME NEW n \in Nat
  PROVE  \E w : Walks(w, n)
PROOF
<1> DEFINE B == {m \in Nat : ~ \E w : Walks(w, m)}
<1>1. SUFFICES ASSUME B # {} PROVE FALSE
  OBVIOUS
<1>2. PICK m \in B : \A k \in B : m <= k
  <2> HIDE DEF B
  <2>1. B \in SUBSET Nat
    BY DEF B
  <2> QED
    BY <1>1, <2>1, SmallestNumber
<1>3. m \in Nat /\ ~ \E w : Walks(w, m)
  OBVIOUS
<1>4. m # 0
  <2>1. ASSUME m = 0 PROVE FALSE
    <3>1. PICK w : w = [d \in 0..0 |-> Visit(0, 0)]
      OBVIOUS
    <3>2. \A d \in 0..0 : w[d] = Visit(d, w[d - 1])
      BY <3>1, VisitNone
    <3>3. w = [d \in 0..0 |-> Visit(d, w[d - 1])]
      BY <3>1, <3>2
    <3> QED
      BY <1>3, <2>1, <3>3 DEF Walks
  <2> QED
    BY <2>1
<1>5. PICK h : Walks(h, m - 1)
  <2>1. m - 1 \in Nat /\ ~ (m <= m - 1)
    BY <1>3, <1>4
  <2>2. m - 1 \notin B
    BY <1>2, <2>1
  <2> QED
    BY <2>1, <2>2
<1>6. PICK w : w = [d \in 0..m |-> IF d = m THEN Visit(m, h[m - 1]) ELSE h[d]]
  OBVIOUS
<1>7. \A d \in 0..(m - 1) : h[d] = Visit(d, h[d - 1])
  <2>1. PICK e : e = [d \in 0..(m - 1) |-> Visit(d, h[d - 1])]
    OBVIOUS
  <2>2. h = e
    BY <1>5, <2>1 DEF Walks
  <2>3. \A d \in 0..(m - 1) : e[d] = Visit(d, h[d - 1])
    BY <2>1
  <2> QED
    BY <2>2, <2>3
<1>8. ASSUME NEW d \in 0..m PROVE w[d] = Visit(d, w[d - 1])
  <2>1. CASE d = 0
    BY <1>3, <1>4, <1>6, <1>7, <2>1, VisitNone
  <2>2. CASE d # 0
    <3>1. w[d - 1] = h[d - 1]
      BY <1>3, <1>6, <2>2
    <3> QED
      BY <1>3, <1>6, <1>7, <2>2, <3>1
  <2> QED
    BY <2>1, <2>2
<1>9. Walks(w, m)
  BY <1>6, <1>8 DEF Walks
<1> QED
  BY <1>3, <1>9

\* What the walks need of the table.
DreamRow == [serial : Int, owner : Accounts, type : Types, children : Seq(NftIds)]
DreamsOK == DOMAIN dreams \subseteq NftIds /\ \A i \in DOMAIN dreams : dreams[i] \in DreamRow

\* There are finitely many ids,
LEMMA NftIdsFinite == IsFiniteSet(NftIds)
PROOF
  BY DreamojiAssumption, FS_Interval DEF NftIds

\* and so finitely many tokens.
LEMMA DreamsFinite ==
  ASSUME DreamsOK
  PROVE  IsFiniteSet(DOMAIN dreams) /\ Cardinality(DOMAIN dreams) \in Nat
PROOF
  BY NftIdsFinite, FS_Subset, FS_CardinalityType DEF DreamsOK

Visited == NftIds \cup {NoToken}

\* A level of the walk gives lists of tokens.
LEMMA VisitType ==
  ASSUME DreamsOK, NEW d \in Nat, NEW below, d = 0 \/ below \in [NftIds -> Seq(Visited)]
  PROVE  Visit(d, below) \in [NftIds -> Seq(Visited)]
PROOF
<1> SUFFICES ASSUME NEW j \in NftIds
             PROVE  Visit(d, below)[j] \in Seq(Visited)
  BY DEF Visit
<1>1. CASE j \notin DOMAIN dreams \/ d = 0
  <2>1. Visit(d, below)[j] = <<j>> \/ Visit(d, below)[j] = <<NoToken>>
    BY <1>1 DEF Visit
  <2>2. PICK y \in Visited : Visit(d, below)[j] = <<y>>
    BY <2>1 DEF Visited
  <2>3. <<y>> \in Seq(Visited)
    OBVIOUS
  <2> QED
    BY <2>2, <2>3
<1>2. CASE j \in DOMAIN dreams /\ d # 0
  <2>1. PICK kids : kids = dreams[j].children
    OBVIOUS
  <2>2. kids \in Seq(NftIds)
    BY <1>2, <2>1 DEF DreamsOK, DreamRow
  <2>3. PICK s : s = [c \in DOMAIN kids |-> below[kids[c]]]
    OBVIOUS
  <2>4. s \in Seq(Seq(Visited))
    <3>1. DOMAIN kids = 1..Len(kids) /\ Len(kids) \in Nat /\ \A c \in 1..Len(kids) : kids[c] \in NftIds
      BY <2>2
    <3>2. s \in [1..Len(kids) -> Seq(Visited)]
      BY <1>2, <2>3, <3>1
    <3> QED
      BY <3>1, <3>2
  <2>5. FlattenSeq(s) \in Seq(Visited)
    BY <2>4, FlattenType
  <2>6. Visit(d, below)[j] = <<j>> \o FlattenSeq(s)
    BY <1>2, <2>1, <2>3 DEF Visit
  <2>7. <<j>> \in Seq(Visited)
    BY DEF Visited
  <2> QED
    BY <2>5, <2>6, <2>7
<1> QED
  BY <1>1, <1>2

\* A walk is a finite sequence of ids, with NoToken where a cycle would go on.
LEMMA WalkType ==
  ASSUME DreamsOK, NEW i \in NftIds
  PROVE  Walk(i) \in Seq(Visited)
PROOF
<1>1. PICK n : n = Cardinality(DOMAIN dreams)
  OBVIOUS
<1>2. n \in Nat
  BY <1>1, DreamsFinite
<1>3. PICK w : w = CHOOSE v : Walks(v, n)
  OBVIOUS
<1>4. Walks(w, n) /\ Walk(i) = w[n][i]
  BY <1>1, <1>2, <1>3, WalksExist, WalkIs
<1>5. \A d \in 0..n : w[d] = Visit(d, w[d - 1])
  <2>1. PICK e : e = [d \in 0..n |-> Visit(d, w[d - 1])]
    OBVIOUS
  <2>2. w = e
    BY <1>4, <2>1 DEF Walks
  <2>3. \A d \in 0..n : e[d] = Visit(d, w[d - 1])
    BY <2>1
  <2> QED
    BY <2>2, <2>3
<1> DEFINE B == {d \in 0..n : w[d] \notin [NftIds -> Seq(Visited)]}
<1>6. ASSUME B # {} PROVE FALSE
  <2>1. PICK m \in B : \A k \in B : m <= k
    <3> HIDE DEF B
    <3>1. B \in SUBSET Nat
      BY <1>2 DEF B
    <3> QED
      BY <1>6, <3>1, SmallestNumber
  <2>2. m \in 0..n /\ m \in Nat /\ w[m] \notin [NftIds -> Seq(Visited)]
    BY <1>2
  <2>3. m = 0 \/ w[m - 1] \in [NftIds -> Seq(Visited)]
    <3>1. ASSUME m # 0 PROVE m - 1 \in 0..n /\ ~ (m <= m - 1)
      BY <1>2, <2>2, <3>1
    <3> QED
      BY <2>1, <3>1
  <2>4. Visit(m, w[m - 1]) \in [NftIds -> Seq(Visited)]
    BY <2>2, <2>3, VisitType
  <2> QED
    BY <1>5, <2>2, <2>4
<1>7. n \in 0..n
  BY <1>2
<1> QED
  BY <1>4, <1>6, <1>7

\* The tokens of several walks.
LEMMA WalkAllType ==
  ASSUME DreamsOK, NEW ids \in Seq(NftIds)
  PROVE  WalkAll(ids) \in Seq(Visited)
PROOF
<1>1. PICK s : s = [k \in DOMAIN ids |-> Walk(ids[k])]
  OBVIOUS
<1>2. s \in Seq(Seq(Visited))
  <2>1. DOMAIN ids = 1..Len(ids) /\ Len(ids) \in Nat /\ \A k \in 1..Len(ids) : ids[k] \in NftIds
    OBVIOUS
  <2>2. s \in [1..Len(ids) -> Seq(Visited)]
    BY <1>1, <2>1, WalkType
  <2> QED
    BY <2>1, <2>2
<1> QED
  BY <1>1, <1>2, FlattenType DEF WalkAll

-----------------------------------------------------------------------------
(* Types.                                                                  *)

CatalogOK ==
  /\ names \in Seq(Types) /\ Len(names) <= MaxCreated
  /\ DOMAIN dreamstats \subseteq Types
  /\ \A t \in DOMAIN dreamstats :
       dreamstats[t].cid \in 1..Len(names) /\ names[dreamstats[t].cid] = t
Balances == [Accounts -> [1..MaxCreated -> Nat]]
AskRow == [nft_ids : Batches, seller : Accounts, amount : Nat, expired : BOOLEAN]
AsksOK == DOMAIN asks \subseteq NftIds /\ \A b \in DOMAIN asks : asks[b] \in AskRow
OthersOK ==
  /\ next_nft_id \in 0..MaxNft /\ next_licence_id \in 0..MaxLicence
  /\ lockednfts \subseteq NftIds /\ linkednfts \subseteq NftIds
  /\ DOMAIN sales \subseteq NftIds /\ DOMAIN licences \subseteq LicenceIds

\* TypeOK, with the rows that it does not look at.
TypeInv ==
  /\ CatalogOK /\ SupplyInv /\ DreamsOK /\ accounts \in Balances /\ AsksOK /\ OthersOK

\* The category_name_id of a row does not depend on its supplies.
LEMMA SuppliedCid ==
  ASSUME NEW st \in StatsRow, NEW c, NEW n
  PROVE  Supplied(st, c, n).cid = st.cid
PROOF
  BY DEF Supplied, StatsRow

\* No new type, and none under another id.
LEMMA CatalogKept ==
  ASSUME CatalogOK, UNCHANGED names, DOMAIN dreamstats' \subseteq DOMAIN dreamstats,
         \A t \in DOMAIN dreamstats' : dreamstats'[t].cid = dreamstats[t].cid
  PROVE  CatalogOK'
PROOF
  BY DEF CatalogOK

\* A row is replaced by one with the same id.
LEMMA CatalogSet ==
  ASSUME CatalogOK, UNCHANGED names, NEW t \in DOMAIN dreamstats, NEW row,
         row.cid = dreamstats[t].cid, dreamstats' = Set(dreamstats, t, row)
  PROVE  CatalogOK'
PROOF
<1>1. /\ DOMAIN dreamstats' = DOMAIN dreamstats
      /\ \A u \in DOMAIN dreamstats : dreamstats'[u].cid = dreamstats[u].cid
  BY DEF Set
<1> QED
  BY <1>1, CatalogKept

\* A type keeps its category_name_id until its row is erased.
LEMMA CatalogStep ==
  ASSUME CatalogOK, SupplyInv, [Next]_vars
  PROVE  CatalogOK'
PROOF
<1>1. CASE UNCHANGED <<names, dreamstats>>
  BY <1>1 DEF CatalogOK
<1>2. ASSUME NEW k \in Kinds, Create(k)
      PROVE  CatalogOK'
  <2>1. PICK row : /\ row.cid = Len(names) + 1
                   /\ dreamstats' = Set(dreamstats, k.type, row)
    BY <1>2 DEF Create
  <2>2. names' = Append(names, k.type) /\ k.type \in Types /\ Len(names) < MaxCreated
    BY <1>2 DEF Create, Types
  <2>3. names \in Seq(Types) /\ Len(names) \in Nat /\ MaxCreated \in Nat
    BY DreamojiAssumption DEF CatalogOK
  <2>4. /\ names' \in Seq(Types) /\ Len(names') = Len(names) + 1
        /\ names'[Len(names) + 1] = k.type
        /\ \A c \in 1..Len(names) : names'[c] = names[c]
    BY <2>2, <2>3
  <2>5. /\ DOMAIN dreamstats' = DOMAIN dreamstats \cup {k.type}
        /\ dreamstats'[k.type] = row
        /\ \A t \in DOMAIN dreamstats : t # k.type => dreamstats'[t] = dreamstats[t]
    BY <2>1 DEF Set
  <2>6. ASSUME NEW t \in DOMAIN dreamstats'
        PROVE  dreamstats'[t].cid \in 1..Len(names') /\ names'[dreamstats'[t].cid] = t
    <3>1. CASE t = k.type
      BY <2>1, <2>3, <2>4, <2>5, <3>1
    <3>2. CASE t # k.type
      <4>1. dreamstats[t].cid \in 1..Len(names) /\ names[dreamstats[t].cid] = t
        BY <2>5, <3>2 DEF CatalogOK
      <4> QED
        BY <2>3, <2>4, <2>5, <3>2, <4>1
    <3> QED
      BY <3>1, <3>2
  <2>7. Len(names') <= MaxCreated /\ DOMAIN dreamstats' \subseteq Types
    BY <2>2, <2>3, <2>4, <2>5 DEF CatalogOK
  <2> QED
    BY <2>4, <2>6, <2>7 DEF CatalogOK
<1>3. ASSUME NEW t, FreezeMaxSup(t)
      PROVE  CatalogOK'
  <2>1. PICK row : /\ row = [dreamstats[t] EXCEPT !.max_supply = dreamstats[t].issued_supply,
                                                  !.window = "none"]
                   /\ dreamstats' = Set(dreamstats, t, row)
    BY <1>3 DEF FreezeMaxSup
  <2>2. t \in DOMAIN dreamstats /\ UNCHANGED names /\ dreamstats[t] \in StatsRow
    BY <1>3 DEF FreezeMaxSup, SupplyInv, RowInBounds
  <2>3. row.cid = dreamstats[t].cid
    BY <2>1, <2>2 DEF StatsRow
  <2> QED
    BY <2>1, <2>2, <2>3, CatalogSet
<1>4. ASSUME NEW t \in DOMAIN dreamstats, NEW c, NEW n, UNCHANGED names,
             dreamstats' = Set(dreamstats, t, Supplied(dreamstats[t], c, n))
      PROVE  CatalogOK'
  BY <1>4, SuppliedCid, CatalogSet DEF SupplyInv, RowInBounds
<1>5. ASSUME NEW to, NEW t, NEW q, Issue(to, t, q)
      PROVE  CatalogOK'
  BY <1>4, <1>5 DEF Issue
<1>6. ASSUME NEW o, NEW i, BurnNft(o, i)
      PROVE  CatalogOK'
  <2>1. PICK t \in DOMAIN dreamstats :
          \/ dreamstats' = Erase(dreamstats, t)
          \/ dreamstats' = Set(dreamstats, t, Supplied(dreamstats[t], -1, -1))
    BY <1>6 DEF BurnNft
  <2>2. UNCHANGED names
    BY <1>6 DEF BurnNft
  <2>3. CASE dreamstats' = Erase(dreamstats, t)
    BY <2>2, <2>3, CatalogKept DEF Erase
  <2> QED
    BY <1>4, <2>1, <2>2, <2>3
<1>7. ASSUME NEW o, NEW c, NEW q, BurnFt(o, c, q)
      PROVE  CatalogOK'
  BY <1>4, <1>7 DEF BurnFt
<1>8. CASE Supply
  BY <1>2, <1>3, <1>5, <1>6, <1>7, <1>8 DEF Supply
<1>9. CASE Expire
  <2>1. CASE UNCHANGED dreamstats
    BY <1>1, <1>9, <2>1 DEF Expire
  <2>2. ASSUME NEW t \in DOMAIN dreamstats,
               dreamstats' = Set(dreamstats, t, [dreamstats[t] EXCEPT !.window = "closed"])
        PROVE  CatalogOK'
    <3>1. dreamstats[t] \in StatsRow
      BY DEF SupplyInv, RowInBounds
    <3>2. PICK row : row = [dreamstats[t] EXCEPT !.window = "closed"]
      OBVIOUS
    <3>3. row.cid = dreamstats[t].cid
      BY <3>1, <3>2 DEF StatsRow
    <3> QED
      BY <1>9, <2>2, <3>2, <3>3, CatalogSet DEF Expire
  <2> QED
    BY <1>9, <2>1, <2>2 DEF Expire
<1>10. CASE Transfers \/ Sales \/ Licensing \/ UNCHANGED vars
  <2>1. UNCHANGED <<names, dreamstats>>
    BY <1>10 DEF Transfers, TransferFt, TransferNft, LinkNft, UnlinkNft, Sales, NfTokenSale,
         EndNftSale, PurchaseNft, Licensing, LicenceSale, EndLcncSale, PurchaseLicence,
         License, Extend, Revoke, supplyVars, vars
  <2> QED
    BY <1>1, <2>1
<1> QED
  BY <1>8, <1>9, <1>10 DEF Next

\* The children left are children.
LEMMA UnlinkedType ==
  ASSUME NEW kids \in Seq(NftIds), NEW i
  PROVE  Unlinked(kids, i) \in Seq(NftIds)
PROOF
<1>1. PICK s : s = [k \in DOMAIN kids |-> IF kids[k] = i THEN <<>> ELSE <<kids[k]>>]
  OBVIOUS
<1>2. DOMAIN kids = 1..Len(kids) /\ Len(kids) \in Nat /\ \A k \in 1..Len(kids) : kids[k] \in NftIds
  OBVIOUS
<1>3. ASSUME NEW k \in 1..Len(kids) PROVE s[k] \in Seq(NftIds)
  <2>1. PICK j \in NftIds : j = kids[k]
    BY <1>2
  <2>2. <<j>> \in Seq(NftIds) /\ <<>> \in Seq(NftIds)
    OBVIOUS
  <2> QED
    BY <1>1, <1>2, <2>1, <2>2
<1>4. s \in Seq(Seq(NftIds))
  <2>1. s \in [1..Len(kids) -> Seq(NftIds)]
    BY <1>1, <1>2, <1>3
  <2> QED
    BY <1>2, <2>1
<1> QED
  BY <1>1, <1>4, FlattenType DEF Unlinked

\* A token's children are replaced.
LEMMA ChildrenSet ==
  ASSUME DreamsOK, NEW p \in DOMAIN dreams, NEW kids \in Seq(NftIds),
         dreams' = [dreams EXCEPT ![p].children = kids]
  PROVE  /\ DreamsOK' /\ DOMAIN dreams' = DOMAIN dreams
         /\ \A i \in DOMAIN dreams : /\ dreams'[i].owner = dreams[i].owner
                                     /\ dreams'[i].type = dreams[i].type
PROOF
<1>1. PICK row : row = [dreams[p] EXCEPT !.children = kids]
  OBVIOUS
<1>2. dreams[p] \in DreamRow
  BY DEF DreamsOK
<1>3. row \in DreamRow /\ row.owner = dreams[p].owner /\ row.type = dreams[p].type
  BY <1>1, <1>2 DEF DreamRow
<1>4. /\ DOMAIN dreams' = DOMAIN dreams /\ dreams'[p] = row
      /\ \A i \in DOMAIN dreams : i # p => dreams'[i] = dreams[i]
  BY <1>1
<1> QED
  BY <1>3, <1>4 DEF DreamsOK

\* Tokens change hands.
LEMMA OwnerSet ==
  ASSUME DreamsOK, NEW S, NEW to \in Accounts,
         dreams' = [i \in DOMAIN dreams |->
                      IF i \in S THEN [dreams[i] EXCEPT !.owner = to] ELSE dreams[i]]
  PROVE  DreamsOK' /\ DOMAIN dreams' = DOMAIN dreams
PROOF
<1>1. ASSUME NEW i \in DOMAIN dreams PROVE [dreams[i] EXCEPT !.owner = to] \in DreamRow
  BY DEF DreamsOK, DreamRow
<1> QED
  BY <1>1 DEF DreamsOK

\* Tokens are minted.
LEMMA IssueKeepsDreams ==
  ASSUME DreamsOK, SupplyInv, next_nft_id \in Nat, NEW to \in Accounts, NEW t \in Types,
         NEW q \in Nat, Issue(to, t, q)
  PROVE  DreamsOK'
PROOF
<1>1. PICK minted : minted = IF dreamstats[t].kind.fungible THEN <<>> ELSE Minted(to, t, q)
  OBVIOUS
<1>2. /\ DOMAIN minted \subseteq NftIds
      /\ dreams' = [i \in DOMAIN dreams \cup DOMAIN minted |->
                      IF i \in DOMAIN minted THEN minted[i] ELSE dreams[i]]
  BY <1>1 DEF Issue
<1>3. ASSUME NEW i \in DOMAIN minted PROVE minted[i] \in DreamRow
  <2>1. CASE dreamstats[t].kind.fungible
    BY <1>1, <1>3, <2>1
  <2>2. CASE ~ dreamstats[t].kind.fungible
    <3>1. minted = Minted(to, t, q) /\ i \in Int
      BY <1>1, <1>3, <2>2 DEF Minted, _nextnftid
    <3>2. t \in DOMAIN dreamstats
      BY DEF Issue
    <3>3. PICK n : n = dreamstats[t].issued_supply + 1 + (i - next_nft_id)
      OBVIOUS
    <3>4. n \in Int
      BY <3>1, <3>2, <3>3 DEF SupplyInv, RowInBounds, StatsRow
    <3>5. minted[i] = [serial |-> n, owner |-> to, type |-> t, children |-> <<>>]
      BY <1>3, <3>1, <3>3 DEF Minted, _nextnftid
    <3>6. <<>> \in Seq(NftIds)
      OBVIOUS
    <3> QED
      BY <3>4, <3>5, <3>6 DEF DreamRow
  <2> QED
    BY <2>1, <2>2
<1> QED
  BY <1>2, <1>3 DEF DreamsOK

\* Every step keeps the rows of tokens well-formed.
LEMMA DreamsStep ==
  ASSUME TypeInv, [Next]_vars
  PROVE  DreamsOK'
PROOF
<1>0. DreamsOK /\ MaxIssued \in Nat /\ MaxNft \in Nat
  BY DreamojiAssumption DEF TypeInv
<1>1. CASE UNCHANGED dreams
  BY <1>0, <1>1 DEF DreamsOK
<1>2. ASSUME NEW to \in Accounts, NEW t \in Types, NEW q \in 1..MaxIssued, Issue(to, t, q)
      PROVE  DreamsOK'
  <2>1. q \in Nat /\ next_nft_id \in Nat /\ SupplyInv
    BY <1>0 DEF TypeInv, OthersOK
  <2> QED
    BY <1>0, <1>2, <2>1, IssueKeepsDreams
<1>3. ASSUME NEW o, NEW i, BurnNft(o, i)
      PROVE  DreamsOK'
  BY <1>0, <1>3 DEF BurnNft, Erase, DreamsOK
<1>4. CASE Supply
  BY <1>1, <1>2, <1>3, <1>4 DEF Supply, Create, FreezeMaxSup, BurnFt
<1>5. ASSUME NEW i \in NftIds, NEW p \in NftIds, LinkNft(i, p)
      PROVE  DreamsOK'
  <2>1. PICK kids : kids = Append(dreams[p].children, i)
    OBVIOUS
  <2>2. p \in DOMAIN dreams /\ dreams' = [dreams EXCEPT ![p].children = kids]
    BY <1>5, <2>1 DEF LinkNft
  <2>3. dreams[p].children \in Seq(NftIds)
    BY <1>0, <2>2 DEF DreamsOK, DreamRow
  <2>4. kids \in Seq(NftIds)
    BY <2>1, <2>3
  <2> QED
    BY <1>0, <2>2, <2>4, ChildrenSet
<1>6. ASSUME NEW i \in NftIds, NEW p \in NftIds, UnlinkNft(i, p)
      PROVE  DreamsOK'
  <2>1. PICK kids : kids = Unlinked(dreams[p].children, i)
    OBVIOUS
  <2>2. p \in DOMAIN dreams /\ dreams' = [dreams EXCEPT ![p].children = kids]
    BY <1>6, <2>1 DEF UnlinkNft
  <2>3. dreams[p].children \in Seq(NftIds)
    BY <1>0, <2>2 DEF DreamsOK, DreamRow
  <2>4. kids \in Seq(NftIds)
    BY <2>1, <2>3, UnlinkedType
  <2> QED
    BY <1>0, <2>2, <2>4, ChildrenSet
<1>7. ASSUME NEW from, NEW to \in Accounts, NEW ids, ChangeOwner(from, to, ids)
      PROVE  DreamsOK'
  BY <1>0, <1>7, OwnerSet DEF ChangeOwner
<1>8. CASE Transfers
  BY <1>1, <1>5, <1>6, <1>7, <1>8 DEF Transfers, TransferFt, TransferNft
<1>9. CASE Sales
  BY <1>1, <1>7, <1>9 DEF Sales, NfTokenSale, EndNftSale, PurchaseNft
<1>10. CASE Licensing
  BY <1>1, <1>10 DEF Licensing, LicenceSale, EndLcncSale, PurchaseLicence, License, Extend,
                    Revoke
<1>11. CASE Expire \/ UNCHANGED vars
  BY <1>1, <1>11 DEF Expire, vars
<1> QED
  BY <1>4, <1>8, <1>9, <1>10, <1>11 DEF Next

\* Every step keeps the listings well-formed.
LEMMA AsksStep ==
  ASSUME AsksOK, [Next]_vars
  PROVE  AsksOK'
PROOF
<1>1. CASE UNCHANGED asks
  BY <1>1 DEF AsksOK
<1>2. ASSUME NEW s \in Accounts, NEW ids \in Batches, NEW p \in Prices, NfTokenSale(s, ids, p)
      PROVE  AsksOK'
  <2>1. PICK row : row = [nft_ids |-> ids, seller |-> s, amount |-> p, expired |-> FALSE]
    OBVIOUS
  <2>2. row \in AskRow
    BY <2>1, DreamojiAssumption DEF AskRow
  <2>3. asks' = Set(asks, ids[1], row)
    BY <1>2, <2>1 DEF NfTokenSale
  <2>4. ids[1] \in NftIds
    BY DreamojiAssumption DEF Batches
  <2> QED
    BY <2>2, <2>3, <2>4 DEF AsksOK, Set
<1>3. ASSUME NEW b, asks' = Erase(asks, b)
      PROVE  AsksOK'
  BY <1>3 DEF AsksOK, Erase
<1>4. ASSUME NEW b \in DOMAIN asks, asks' = [asks EXCEPT ![b].expired = TRUE]
      PROVE  AsksOK'
  <2>1. [asks[b] EXCEPT !.expired = TRUE] \in AskRow
    BY DEF AsksOK, AskRow
  <2> QED
    BY <1>4, <2>1 DEF AsksOK
<1>5. CASE Supply \/ Transfers
  BY <1>1, <1>5 DEF Supply, Create, FreezeMaxSup, Issue, BurnNft, BurnFt, Transfers, TransferFt,
       TransferNft, LinkNft, UnlinkNft, marketVars
<1>6. CASE Sales
  BY <1>2, <1>3, <1>6 DEF Sales, EndNftSale, PurchaseNft
<1>7. CASE Licensing
  BY <1>1, <1>7 DEF Licensing, LicenceSale, EndLcncSale, PurchaseLicence, License, Extend,
                    Revoke
<1>8. CASE Expire \/ UNCHANGED vars
  BY <1>1, <1>4, <1>8 DEF Expire, vars, marketVars
<1> QED
  BY <1>5, <1>6, <1>7, <1>8 DEF Next

\* What CreateLicence does to the tables it writes.
LEMMA CreateLicenceType ==
  ASSUME DreamsOK, OthersOK, NEW i \in NftIds, NEW o, NEW to, NEW r,
         CreateLicence(i, o, to, r)
  PROVE  /\ next_licence_id' \in 0..MaxLicence /\ lockednfts' \subseteq NftIds
         /\ DOMAIN licences' \subseteq LicenceIds
PROOF
<1>1. PICK v : v = Walk(i)
  OBVIOUS
<1>2. v \in Seq(Visited)
  BY <1>1, WalkType
<1>3. PICK n : n = Len(v)
  OBVIOUS
<1>4. n \in Nat
  BY <1>2, <1>3
<1>5. PICK new : new = next_licence_id .. (next_licence_id + n - 1)
  OBVIOUS
<1>6. /\ ToSet(v) \subseteq DOMAIN dreams /\ new \subseteq LicenceIds
      /\ next_licence_id' = next_licence_id + n
      /\ DOMAIN licences' = DOMAIN licences \cup new
      /\ lockednfts' = lockednfts \cup ToSet(v)
  BY <1>1, <1>3, <1>5 DEF CreateLicence
<1>7. next_licence_id \in 0..MaxLicence /\ MaxLicence \in Nat
  BY DreamojiAssumption DEF OthersOK
<1>8. next_licence_id + n <= MaxLicence
  <2>1. CASE n = 0
    BY <1>7, <2>1
  <2>2. CASE n # 0
    <3>1. next_licence_id + n - 1 \in new
      BY <1>4, <1>5, <1>7, <2>2
    <3>2. next_licence_id + n - 1 \in 0..(MaxLicence - 1)
      BY <1>6, <3>1 DEF LicenceIds
    <3> QED
      BY <1>4, <1>7, <3>2
  <2> QED
    BY <2>1, <2>2
<1>9. next_licence_id' \in 0..MaxLicence
  BY <1>4, <1>6, <1>7, <1>8
<1> QED
  BY <1>6, <1>9 DEF OthersOK, DreamsOK

\* The ids and the tables of locks, links, licences and their sales keep their types.
LEMMA OthersStep ==
  ASSUME TypeInv, [Next]_vars
  PROVE  OthersOK'
PROOF
<1>0. /\ DreamsOK /\ OthersOK /\ AsksOK /\ MaxNft \in Nat /\ MaxIssued \in Nat
      /\ MaxLicence \in Nat
  BY DreamojiAssumption DEF TypeInv
<1>1. CASE UNCHANGED <<next_nft_id, next_licence_id, lockednfts, linkednfts, sales, licences>>
  BY <1>0, <1>1 DEF OthersOK
<1>2. ASSUME NEW to, NEW t, NEW q \in 1..MaxIssued, Issue(to, t, q)
      PROVE  OthersOK'
  <2>1. UNCHANGED <<next_licence_id, lockednfts, linkednfts, sales, licences>>
    BY <1>2 DEF Issue, marketVars
  <2>2. next_nft_id' \in 0..MaxNft
    <3>1. CASE dreamstats[t].kind.fungible
      BY <1>0, <1>2, <3>1 DEF Issue, OthersOK
    <3>2. CASE ~ dreamstats[t].kind.fungible
      <4>1. DOMAIN Minted(to, t, q) \subseteq NftIds /\ next_nft_id' = next_nft_id + q
        BY <1>2, <3>2 DEF Issue, _nextnftid
      <4>2. next_nft_id .. (next_nft_id + q - 1) \subseteq 0..(MaxNft - 1)
        BY <4>1 DEF Minted, _nextnftid, NftIds
      <4>3. next_nft_id \in Nat /\ q \in Nat /\ q >= 1
        BY <1>0 DEF OthersOK
      <4>4. next_nft_id + q - 1 \in next_nft_id .. (next_nft_id + q - 1)
        BY <4>3
      <4>5. next_nft_id + q - 1 \in 0..(MaxNft - 1)
        BY <4>2, <4>4
      <4> QED
        BY <1>0, <4>1, <4>3, <4>5
    <3> QED
      BY <3>1, <3>2
  <2> QED
    BY <1>0, <2>1, <2>2 DEF OthersOK
<1>3. CASE Supply
  BY <1>1, <1>2, <1>3 DEF Supply, Create, FreezeMaxSup, BurnNft, BurnFt, marketVars
<1>4. CASE Transfers
  BY <1>0, <1>1, <1>4 DEF Transfers, TransferFt, TransferNft, LinkNft, UnlinkNft, marketVars, OthersOK
<1>5. CASE Sales
  <2>1. ASSUME NEW s, NEW ids \in Batches, NEW p, NfTokenSale(s, ids, p) PROVE OthersOK'
    <3>1. ToSet(ids) \subseteq NftIds
      BY <1>0, <2>1 DEF NfTokenSale, DreamsOK
    <3> QED
      BY <1>0, <2>1, <3>1 DEF NfTokenSale, OthersOK
  <2>2. ASSUME NEW s, NEW b, EndNftSale(s, b) PROVE OthersOK'
    BY <1>0, <2>2 DEF EndNftSale, OthersOK
  <2>3. ASSUME NEW s, NEW b, PurchaseNft(s, b) PROVE OthersOK'
    BY <1>0, <2>3 DEF PurchaseNft, OthersOK
  <2> QED
    BY <1>5, <2>1, <2>2, <2>3 DEF Sales
<1>6. CASE Licensing
  <2>1. ASSUME NEW s, NEW i \in NftIds, NEW p, NEW n, LicenceSale(s, i, p, n) PROVE OthersOK'
    BY <1>0, <2>1 DEF LicenceSale, OthersOK, Set
  <2>2. ASSUME NEW s, NEW i, EndLcncSale(s, i) PROVE OthersOK'
    BY <1>0, <2>2 DEF EndLcncSale, OthersOK, Erase
  <2>3. ASSUME NEW to, NEW i \in NftIds, PurchaseLicence(to, i) PROVE OthersOK'
    <3>1. UNCHANGED <<next_nft_id, linkednfts>> /\ DOMAIN sales' = DOMAIN sales
      BY <2>3 DEF PurchaseLicence
    <3> QED
      BY <1>0, <2>3, <3>1, CreateLicenceType DEF PurchaseLicence, OthersOK
  <2>4. ASSUME NEW o, NEW to, NEW i \in NftIds, NEW r, License(o, to, i, r) PROVE OthersOK'
    <3>1. UNCHANGED <<next_nft_id, linkednfts, sales>>
      BY <2>4 DEF License
    <3> QED
      BY <1>0, <2>4, <3>1, CreateLicenceType DEF License, OthersOK
  <2>5. ASSUME NEW o, NEW l, Extend(o, l) PROVE OthersOK'
    BY <1>0, <2>5 DEF Extend, OthersOK
  <2>6. ASSUME NEW o, NEW from, NEW l, Revoke(o, from, l) PROVE OthersOK'
    <3>1. UNCHANGED <<next_nft_id, next_licence_id, linkednfts, sales>>
      BY <2>6 DEF Revoke
    <3>2. DOMAIN licences' \subseteq DOMAIN licences /\ lockednfts' \subseteq lockednfts
      BY <2>6 DEF Revoke, Erase
    <3> QED
      BY <1>0, <3>1, <3>2 DEF OthersOK
  <2> QED
    BY <1>6, <2>1, <2>2, <2>3, <2>4, <2>5, <2>6 DEF Licensing
<1>7. CASE Expire
  <2>1. /\ UNCHANGED <<next_nft_id, next_licence_id, lockednfts, linkednfts>>
        /\ DOMAIN sales' = DOMAIN sales /\ DOMAIN licences' = DOMAIN licences
    BY <1>7 DEF Expire, marketVars
  <2> QED
    BY <1>0, <2>1 DEF OthersOK
<1>8. CASE UNCHANGED vars
  BY <1>1, <1>8 DEF vars
<1> QED
  BY <1>3, <1>4, <1>5, <1>6, <1>7, <1>8 DEF Next

-----------------------------------------------------------------------------
(* Balances and their totals.                                              *)

\* What all accounts together have of a category_name_id.
Column(bal, c) == [o \in Accounts |-> bal[o][c]]
Total(bal, c) == SumOver(Column(bal, c), Accounts)

\* A sum is over finitely many accounts.
LEMMA AccountsFinite == IsFiniteSet(Accounts)
PROOF
<1>1. IsFiniteSet(Others \cup {Self})
  BY DreamojiAssumption, FS_AddElement
<1>2. Others \cup {Self} = Accounts
  BY DEF Accounts
<1> QED
  BY <1>1, <1>2

\* Columns are of numbers.
LEMMA ColumnType ==
  ASSUME NEW bal \in Balances, NEW c \in 1..MaxCreated
  PROVE  \A o \in Accounts : Column(bal, c)[o] = bal[o][c] /\ Column(bal, c)[o] \in Nat
PROOF
  BY DEF Balances, Column

\* A total is a number, no smaller than any of its balances.
LEMMA TotalType ==
  ASSUME NEW bal \in Balances, NEW c \in 1..MaxCreated, NEW o \in Accounts
  PROVE  Total(bal, c) \in Nat /\ bal[o][c] \in Nat /\ bal[o][c] <= Total(bal, c)
PROOF
<1>1. PICK f : f = Column(bal, c)
  OBVIOUS
<1>2. \A p \in Accounts : f[p] \in Nat /\ f[p] = bal[p][c]
  BY <1>1, ColumnType
<1>3. SumOver(f, Accounts) \in Nat
  BY <1>2, SumNat, AccountsFinite
<1>4. SumOver(f, Accounts) = f[o] + SumOver(f, Accounts \ {o})
  <2>1. \A p \in Accounts : f[p] \in Int
    BY <1>2
  <2> QED
    BY <2>1, SumTake, AccountsFinite
<1>5. SumOver(f, Accounts \ {o}) \in Nat
  <2>1. PICK S : S = Accounts \ {o}
    OBVIOUS
  <2>2. IsFiniteSet(S) /\ \A p \in S : f[p] \in Nat
    BY <1>2, <2>1, AccountsFinite, FS_Subset
  <2> QED
    BY <2>1, <2>2, SumNat
<1> QED
  BY <1>1, <1>2, <1>3, <1>4, <1>5 DEF Total

\* Columns that agree have the same total.
LEMMA SameTotal ==
  ASSUME NEW bal, NEW new, NEW c, \A o \in Accounts : new[o][c] = bal[o][c]
  PROVE  Total(new, c) = Total(bal, c)
PROOF
<1>1. \A o \in Accounts : Column(new, c)[o] = Column(bal, c)[o]
  BY DEF Column
<1> QED
  BY <1>1, SumAgree, AccountsFinite DEF Total

\* One balance is set to x.
WithBalance(bal, o, c, x) == [bal EXCEPT ![o][c] = x]

\* What that does to the total.
LEMMA BalanceSet ==
  ASSUME NEW bal \in Balances, NEW o \in Accounts, NEW c \in 1..MaxCreated, NEW x \in Nat,
         NEW new, new = WithBalance(bal, o, c, x)
  PROVE  /\ new \in Balances
         /\ Total(new, c) = Total(bal, c) - bal[o][c] + x
         /\ \A d \in 1..MaxCreated : d # c => Total(new, d) = Total(bal, d)
         /\ \A p \in Accounts : p # o => new[p] = bal[p]
PROOF
<1>1. /\ new \in Balances /\ new[o][c] = x
      /\ \A p \in Accounts : p # o => new[p] = bal[p]
      /\ \A p \in Accounts, d \in 1..MaxCreated : d # c => new[p][d] = bal[p][d]
  BY DEF Balances, WithBalance
<1>2. ASSUME NEW d \in 1..MaxCreated, d # c PROVE Total(new, d) = Total(bal, d)
  BY <1>1, <1>2, SameTotal
<1>3. PICK f : f = Column(bal, c)
  OBVIOUS
<1>4. PICK e : e = Column(new, c)
  OBVIOUS
<1>5. /\ \A p \in Accounts : f[p] \in Int /\ f[p] = bal[p][c]
      /\ \A p \in Accounts : e[p] = new[p][c]
  <2>1. \A p \in Accounts : f[p] \in Nat /\ f[p] = bal[p][c]
    BY <1>3, ColumnType
  <2>2. \A p \in Accounts : e[p] = new[p][c]
    BY <1>4 DEF Column
  <2> QED
    BY <2>1, <2>2
<1>6. SumOver(e, Accounts) = SumOver(f, Accounts) - f[o] + e[o]
  <2>1. e[o] \in Int /\ \A p \in Accounts : p # o => e[p] = f[p]
    BY <1>1, <1>5
  <2> QED
    BY <1>5, <2>1, SumChange, AccountsFinite
<1> QED
  BY <1>1, <1>2, <1>3, <1>4, <1>5, <1>6 DEF Total

\* m of c moves from one account to another.
Moves(bal, new, c, m, from, to) ==
  \A o \in Accounts : new[o][c] = bal[o][c] + (IF o = to THEN m ELSE 0)
                                            - (IF o = from THEN m ELSE 0)

\* What one account loses and another gains leaves the total alone.
LEMMA MovedTotal ==
  ASSUME NEW bal \in Balances, NEW new, NEW c \in 1..MaxCreated, NEW m \in Int,
         NEW from \in Accounts, NEW to \in Accounts, Moves(bal, new, c, m, from, to)
  PROVE  Total(new, c) = Total(bal, c)
PROOF
<1> USE DEF Moves
<1>0. \A o \in Accounts : bal[o][c] \in Nat
  BY DEF Balances
<1>1. CASE from = to
  <2>1. \A o \in Accounts : new[o][c] = bal[o][c]
    BY <1>0, <1>1
  <2> QED
    BY <2>1, SameTotal
<1>2. CASE from # to
  <2>1. PICK f : f = Column(bal, c)
    OBVIOUS
  <2>2. PICK e : e = Column(new, c)
    OBVIOUS
  <2>3. PICK g : g = [o \in Accounts |-> IF o = to THEN f[o] + m ELSE f[o]]
    OBVIOUS
  <2>4. /\ \A o \in Accounts : f[o] \in Int /\ f[o] = bal[o][c]
        /\ \A o \in Accounts : e[o] = new[o][c]
    BY <1>0, <2>1, <2>2 DEF Column
  <2>5. SumOver(g, Accounts) = SumOver(f, Accounts) - f[to] + g[to]
    <3>1. g[to] \in Int /\ \A p \in Accounts : p # to => g[p] = f[p]
      BY <2>3, <2>4
    <3> QED
      BY <2>4, <3>1, SumChange, AccountsFinite
  <2>6. SumOver(e, Accounts) = SumOver(g, Accounts) - g[from] + e[from]
    <3>1. \A p \in Accounts : g[p] \in Int
      BY <2>3, <2>4
    <3>2. e[from] = bal[from][c] - m /\ e[to] = bal[to][c] + m
      BY <1>0, <1>2, <2>4
    <3>3. \A p \in Accounts : p # from /\ p # to => e[p] = bal[p][c]
      BY <1>0, <2>4
    <3>4. e[from] \in Int /\ \A p \in Accounts : p # from => e[p] = g[p]
      BY <1>0, <2>3, <2>4, <3>2, <3>3
    <3> QED
      BY <3>1, <3>4, SumChange, AccountsFinite
  <2>7. g[to] = f[to] + m /\ g[from] = f[from] /\ e[from] = f[from] - m
    BY <1>0, <1>2, <2>3, <2>4
  <2>8. SumOver(f, Accounts) \in Int /\ f[to] \in Int /\ f[from] \in Int
    BY <2>4, SumType, AccountsFinite
  <2>9. SumOver(e, Accounts) = SumOver(f, Accounts)
    BY <2>5, <2>6, <2>7, <2>8
  <2> QED
    BY <2>1, <2>2, <2>9 DEF Total
<1> QED
  BY <1>1, <1>2

\* _changeowner takes from one account what it gives to the other.
LEMMA ChangeOwnerBalances ==
  ASSUME DreamsOK, accounts \in Balances, NEW from \in Accounts, NEW to \in Accounts,
         NEW ids \in Seq(NftIds), NEW locks, MayChangeOwner(from, to, ids, locks),
         ChangeOwner(from, to, ids)
  PROVE  /\ accounts' \in Balances
         /\ \A c \in 1..MaxCreated : Total(accounts', c) = Total(accounts, c)
PROOF
<1>1. PICK v : v = WalkAll(ids)
  OBVIOUS
<1>2. v \in Seq(Visited)
  BY <1>1, WalkAllType
<1>3. ASSUME NEW c PROVE Moved(v, c) \in Nat
  <2>1. IsFiniteSet(DOMAIN v)
    <3>1. DOMAIN v = 1..Len(v) /\ Len(v) \in Nat
      BY <1>2
    <3> QED
      BY <3>1, FS_Interval
  <2>2. PICK S : S = {k \in DOMAIN v : dreamstats[dreams[v[k]].type].cid = c}
    OBVIOUS
  <2>3. IsFiniteSet(S)
    BY <2>1, <2>2, FS_Subset
  <2>4. Cardinality(S) \in Nat
    BY <2>3, FS_CardinalityType
  <2> QED
    BY <2>2, <2>4 DEF Moved
<1>4. PICK m : m = [c \in 1..MaxCreated |-> Moved(v, c)]
  OBVIOUS
<1>5. \A c \in 1..MaxCreated : m[c] \in Nat
  BY <1>3, <1>4
<1>6. \A c \in 1..MaxCreated :
        m[c] <= accounts[from][c] \/ (from = to /\ accounts[from][c] >= 1)
  BY <1>1, <1>4 DEF MayChangeOwner
<1>7. accounts' = [o \in Accounts |-> [c \in 1..MaxCreated |->
                     accounts[o][c] + (IF o = to THEN m[c] ELSE 0)
                                    - (IF o = from THEN m[c] ELSE 0)]]
  BY <1>1, <1>4 DEF ChangeOwner
<1>8. \A o \in Accounts, c \in 1..MaxCreated :
        accounts'[o][c] = accounts[o][c] + (IF o = to THEN m[c] ELSE 0)
                                         - (IF o = from THEN m[c] ELSE 0)
  BY <1>7
<1>9. ASSUME NEW o \in Accounts, NEW c \in 1..MaxCreated PROVE accounts'[o][c] \in Nat
  <2>1. accounts[o][c] \in Nat /\ accounts[from][c] \in Nat /\ m[c] \in Nat
    BY <1>5 DEF Balances
  <2>2. CASE o # from
    <3>1. accounts'[o][c] = accounts[o][c] \/ accounts'[o][c] = accounts[o][c] + m[c]
      BY <1>8, <2>1, <2>2
    <3> QED
      BY <2>1, <3>1
  <2>3. CASE o = from /\ o = to
    <3>1. accounts'[o][c] = accounts[o][c]
      BY <1>8, <2>1, <2>3
    <3> QED
      BY <2>1, <3>1
  <2>4. CASE o = from /\ o # to
    <3>1. accounts'[o][c] = accounts[o][c] - m[c] /\ m[c] <= accounts[o][c]
      BY <1>6, <1>8, <2>1, <2>4
    <3> QED
      BY <2>1, <3>1
  <2> QED
    BY <2>2, <2>3, <2>4
<1>10. accounts' \in Balances
  BY <1>7, <1>9 DEF Balances
<1>11. ASSUME NEW c \in 1..MaxCreated PROVE Total(accounts', c) = Total(accounts, c)
  <2>1. PICK n \in Int : n = m[c]
    BY <1>5
  <2>2. PICK new : new = accounts'
    OBVIOUS
  <2>3. Moves(accounts, new, c, n, from, to)
    BY <1>8, <2>1, <2>2 DEF Moves
  <2>4. Total(new, c) = Total(accounts, c)
    BY <2>3, MovedTotal
  <2> QED
    BY <2>2, <2>4
<1> QED
  BY <1>10, <1>11

\* _add_balance and _sub_balance, and what they do to the total.
LEMMA BalanceAdded ==
  ASSUME NEW bal \in Balances, NEW o \in Accounts, NEW c \in 1..MaxCreated, NEW q \in Nat
  PROVE  /\ _add_balance(bal, o, c, q) \in Balances
         /\ Total(_add_balance(bal, o, c, q), c) = Total(bal, c) + q
         /\ \A d \in 1..MaxCreated : d # c => Total(_add_balance(bal, o, c, q), d) = Total(bal, d)
PROOF
<1>1. bal[o][c] \in Nat /\ Total(bal, c) \in Nat
  BY TotalType
<1>2. PICK x \in Nat : x = bal[o][c] + q
  BY <1>1
<1>3. PICK new : new = _add_balance(bal, o, c, q)
  OBVIOUS
<1>4. new = WithBalance(bal, o, c, x)
  BY <1>2, <1>3 DEF _add_balance, WithBalance, Balances
<1>5. /\ new \in Balances
      /\ Total(new, c) = Total(bal, c) - bal[o][c] + x
      /\ \A d \in 1..MaxCreated : d # c => Total(new, d) = Total(bal, d)
  BY <1>4, BalanceSet
<1> QED
  BY <1>1, <1>2, <1>3, <1>5

\* (likewise)
LEMMA BalanceSubtracted ==
  ASSUME NEW bal \in Balances, NEW o \in Accounts, NEW c \in 1..MaxCreated, NEW q \in Nat,
         bal[o][c] >= q
  PROVE  /\ _sub_balance(bal, o, c, q) \in Balances
         /\ Total(_sub_balance(bal, o, c, q), c) = Total(bal, c) - q
         /\ \A d \in 1..MaxCreated : d # c => Total(_sub_balance(bal, o, c, q), d) = Total(bal, d)
PROOF
<1>1. bal[o][c] \in Nat /\ Total(bal, c) \in Nat
  BY TotalType
<1>2. PICK x \in Nat : x = bal[o][c] - q
  BY <1>1
<1>3. PICK new : new = _sub_balance(bal, o, c, q)
  OBVIOUS
<1>4. new = WithBalance(bal, o, c, x)
  BY <1>2, <1>3 DEF _sub_balance, WithBalance, Balances
<1>5. /\ new \in Balances
      /\ Total(new, c) = Total(bal, c) - bal[o][c] + x
      /\ \A d \in 1..MaxCreated : d # c => Total(new, d) = Total(bal, d)
  BY <1>4, BalanceSet
<1> QED
  BY <1>1, <1>2, <1>3, <1>5

\* Conservation, without the sum over the one type that has an id.
Conserved ==
  \A c \in 1..MaxCreated :
    /\ \A t \in DOMAIN dreamstats :
         dreamstats[t].cid = c => Total(accounts, c) = dreamstats[t].current_supply
    /\ (\A t \in DOMAIN dreamstats : dreamstats[t].cid # c) => Total(accounts, c) = 0

\* The id of a type is in the range of the balances, and it is the type's own.
LEMMA CidOK ==
  ASSUME CatalogOK, NEW t \in DOMAIN dreamstats
  PROVE  /\ dreamstats[t].cid \in 1..MaxCreated
         /\ \A u \in DOMAIN dreamstats : dreamstats[u].cid = dreamstats[t].cid => u = t
PROOF
<1>1. Len(names) \in Nat /\ MaxCreated \in Nat /\ Len(names) <= MaxCreated
  BY DreamojiAssumption DEF CatalogOK
<1> QED
  BY <1>1 DEF CatalogOK

\* The balances of a type and its current_supply change by as much.
LEMMA ConservedSet ==
  ASSUME CatalogOK, Conserved, NEW t \in DOMAIN dreamstats, NEW row, NEW n \in Int,
         dreamstats' = Set(dreamstats, t, row), row.cid = dreamstats[t].cid,
         row.current_supply = dreamstats[t].current_supply + n,
         Total(accounts', dreamstats[t].cid) = Total(accounts, dreamstats[t].cid) + n,
         \A d \in 1..MaxCreated : d # dreamstats[t].cid => Total(accounts', d) = Total(accounts, d)
  PROVE  Conserved'
PROOF
<1>1. /\ DOMAIN dreamstats' = DOMAIN dreamstats /\ dreamstats'[t] = row
      /\ \A u \in DOMAIN dreamstats : u # t => dreamstats'[u] = dreamstats[u]
  BY DEF Set
<1>2. \A u \in DOMAIN dreamstats : dreamstats'[u].cid = dreamstats[u].cid
  BY <1>1
<1> SUFFICES ASSUME NEW c \in 1..MaxCreated
             PROVE  /\ \A u \in DOMAIN dreamstats : dreamstats'[u].cid = c =>
                         Total(accounts', c) = dreamstats'[u].current_supply
                    /\ (\A u \in DOMAIN dreamstats : dreamstats'[u].cid # c) =>
                         Total(accounts', c) = 0
  BY <1>1 DEF Conserved
<1>3. CASE c = dreamstats[t].cid
  <2>1. Total(accounts, c) = dreamstats[t].current_supply
    BY <1>3 DEF Conserved
  <2>2. \A u \in DOMAIN dreamstats : dreamstats'[u].cid = c => u = t
    BY <1>2, <1>3, CidOK
  <2> QED
    BY <1>1, <1>2, <1>3, <2>1, <2>2
<1>4. CASE c # dreamstats[t].cid
  <2>1. Total(accounts', c) = Total(accounts, c)
    BY <1>4
  <2>2. \A u \in DOMAIN dreamstats : dreamstats'[u].cid = c => u # t
    BY <1>2, <1>4
  <2> QED
    BY <1>1, <1>2, <2>1, <2>2 DEF Conserved
<1> QED
  BY <1>3, <1>4

\* Neither a total nor a row changes.
LEMMA ConservedSame ==
  ASSUME Conserved, UNCHANGED dreamstats,
         \A c \in 1..MaxCreated : Total(accounts', c) = Total(accounts, c)
  PROVE  Conserved'
PROOF
  BY DEF Conserved

\* A batch is a sequence of ids.
LEMMA BatchType ==
  ASSUME NEW ids \in Batches
  PROVE  ids \in Seq(NftIds) /\ Len(ids) \in Nat \ {0} /\ Len(ids) <= MaxBatch
PROOF
<1>1. PICK n \in 1..MaxBatch : ids \in [1..n -> NftIds]
  BY DEF Batches
<1>2. n \in Nat \ {0}
  BY <1>1, DreamojiAssumption
<1> QED
  BY <1>1, <1>2

\* issue adds as much to a balance as to the current_supply.
LEMMA IssueConserves ==
  ASSUME TypeInv, Conserved, NEW to \in Accounts, NEW t, NEW q \in Nat, Issue(to, t, q)
  PROVE  accounts' \in Balances /\ Conserved'
PROOF
<1>1. /\ t \in DOMAIN dreamstats /\ CatalogOK /\ accounts \in Balances
      /\ dreamstats[t] \in StatsRow
  BY DEF Issue, TypeInv, SupplyInv, RowInBounds
<1>2. PICK c \in 1..MaxCreated : c = dreamstats[t].cid
  BY <1>1, CidOK
<1>3. accounts' = _add_balance(accounts, to, c, q)
  BY <1>2 DEF Issue
<1>4. /\ accounts' \in Balances /\ Total(accounts', c) = Total(accounts, c) + q
      /\ \A d \in 1..MaxCreated : d # c => Total(accounts', d) = Total(accounts, d)
  BY <1>1, <1>3, BalanceAdded
<1>5. PICK row : row = Supplied(dreamstats[t], q, q)
  OBVIOUS
<1>6. /\ dreamstats' = Set(dreamstats, t, row) /\ row.cid = dreamstats[t].cid
      /\ row.current_supply = dreamstats[t].current_supply + q
  BY <1>1, <1>5, SuppliedRow, SuppliedCid DEF Issue
<1>7. q \in Int
  OBVIOUS
<1> QED
  BY <1>1, <1>2, <1>4, <1>6, <1>7, ConservedSet

\* A supply goes down by as much as a balance.
LEMMA BurnConserves ==
  ASSUME TypeInv, Conserved, NEW o \in Accounts, NEW t \in DOMAIN dreamstats, NEW q \in Nat,
         NEW k \in Int, accounts[o][dreamstats[t].cid] >= q,
         accounts' = _sub_balance(accounts, o, dreamstats[t].cid, q),
         \/ dreamstats' = Set(dreamstats, t, Supplied(dreamstats[t], -q, k))
         \/ dreamstats[t].current_supply = q /\ dreamstats' = Erase(dreamstats, t)
  PROVE  accounts' \in Balances /\ Conserved'
PROOF
<1>1. CatalogOK /\ accounts \in Balances /\ dreamstats[t] \in StatsRow
  BY DEF TypeInv, SupplyInv, RowInBounds
<1>2. PICK c \in 1..MaxCreated : c = dreamstats[t].cid
  BY <1>1, CidOK
<1>3. /\ accounts' \in Balances /\ Total(accounts', c) = Total(accounts, c) - q
      /\ \A d \in 1..MaxCreated : d # c => Total(accounts', d) = Total(accounts, d)
  BY <1>1, <1>2, BalanceSubtracted
<1>4. Total(accounts, c) = dreamstats[t].current_supply /\ Total(accounts, c) \in Nat
  BY <1>1, <1>2, TotalType DEF Conserved
<1>5. CASE dreamstats' = Set(dreamstats, t, Supplied(dreamstats[t], -q, k))
  <2>1. PICK n \in Int : n = -q
    OBVIOUS
  <2>2. PICK row : row = Supplied(dreamstats[t], n, k)
    OBVIOUS
  <2>3. /\ dreamstats' = Set(dreamstats, t, row) /\ row.cid = dreamstats[t].cid
        /\ row.current_supply = dreamstats[t].current_supply + n
    BY <1>1, <1>5, <2>1, <2>2, SuppliedRow, SuppliedCid
  <2>4. Total(accounts', c) = Total(accounts, c) + n
    BY <1>3, <1>4, <2>1
  <2> QED
    BY <1>1, <1>2, <1>3, <2>3, <2>4, ConservedSet
<1>6. CASE dreamstats[t].current_supply = q /\ dreamstats' = Erase(dreamstats, t)
  <2>1. Total(accounts', c) = 0
    BY <1>3, <1>4, <1>6
  <2>2. /\ DOMAIN dreamstats' = DOMAIN dreamstats \ {t}
        /\ \A u \in DOMAIN dreamstats' : dreamstats'[u] = dreamstats[u]
    BY <1>6 DEF Erase
  <2>3. \A u \in DOMAIN dreamstats' : dreamstats'[u].cid # c
    BY <1>1, <1>2, <2>2, CidOK
  <2>4. ASSUME NEW d \in 1..MaxCreated
        PROVE  /\ \A u \in DOMAIN dreamstats' : dreamstats'[u].cid = d =>
                         Total(accounts', d) = dreamstats'[u].current_supply
               /\ (\A u \in DOMAIN dreamstats' : dreamstats'[u].cid # d) =>
                         Total(accounts', d) = 0
    <3>1. CASE d = c
      BY <2>1, <2>3, <3>1
    <3>2. CASE d # c
      <4>1. Total(accounts', d) = Total(accounts, d) /\ dreamstats[t].cid # d
        BY <1>2, <1>3, <3>2
      <4> QED
        BY <2>2, <4>1 DEF Conserved
    <3> QED
      BY <3>1, <3>2
  <2> QED
    BY <1>3, <2>4 DEF Conserved
<1> QED
  BY <1>5, <1>6

\* Nobody has anything of an id that no type has.
LEMMA BurnFtFindsType ==
  ASSUME TypeInv, Conserved, NEW o \in Accounts, NEW c \in 1..MaxCreated, NEW q \in Nat \ {0},
         accounts[o][c] >= q
  PROVE  names[c] \in DOMAIN dreamstats /\ dreamstats[names[c]].cid = c
PROOF
<1>1. Total(accounts, c) # 0
  BY TotalType DEF TypeInv
<1>2. PICK t \in DOMAIN dreamstats : dreamstats[t].cid = c
  BY <1>1 DEF Conserved
<1> QED
  BY <1>2 DEF TypeInv, CatalogOK

\* A new type starts with an id that nobody has any of.
LEMMA CreateConserves ==
  ASSUME TypeInv, Conserved, NEW k \in Kinds, Create(k)
  PROVE  Conserved'
PROOF
<1>1. PICK row : /\ row.cid = Len(names) + 1 /\ row.current_supply = 0
                 /\ dreamstats' = Set(dreamstats, k.type, row)
  BY DEF Create
<1>2. UNCHANGED accounts /\ k.type \notin DOMAIN dreamstats /\ Len(names) \in Nat /\ CatalogOK
  BY DEF Create, TypeInv, CatalogOK
<1>3. /\ DOMAIN dreamstats' = DOMAIN dreamstats \cup {k.type} /\ dreamstats'[k.type] = row
      /\ \A t \in DOMAIN dreamstats : dreamstats'[t] = dreamstats[t]
  BY <1>1, <1>2 DEF Set
<1>4. \A t \in DOMAIN dreamstats : dreamstats[t].cid # Len(names) + 1
  BY <1>2 DEF CatalogOK
<1>5. ASSUME NEW c \in 1..MaxCreated
      PROVE  /\ \A u \in DOMAIN dreamstats' : dreamstats'[u].cid = c =>
                       Total(accounts, c) = dreamstats'[u].current_supply
             /\ (\A u \in DOMAIN dreamstats' : dreamstats'[u].cid # c) => Total(accounts, c) = 0
  <2>1. CASE c = Len(names) + 1
    <3>1. Total(accounts, c) = 0
      BY <1>4, <2>1 DEF Conserved
    <3> QED
      BY <1>1, <1>3, <1>4, <2>1, <3>1
  <2>2. CASE c # Len(names) + 1
    BY <1>1, <1>3, <2>2 DEF Conserved
  <2> QED
    BY <2>1, <2>2
<1> QED
  BY <1>2, <1>5 DEF Conserved

\* Every step keeps the types of the balances, and what they add up to.
LEMMA BalancesStep ==
  ASSUME TypeInv, Conserved, [Next]_vars
  PROVE  accounts' \in Balances /\ Conserved'
PROOF
<1>0. /\ CatalogOK /\ SupplyInv /\ DreamsOK /\ accounts \in Balances /\ AsksOK
      /\ MaxIssued \in Nat
  BY DreamojiAssumption DEF TypeInv
<1>1. CASE UNCHANGED <<accounts, dreamstats>>
  BY <1>0, <1>1 DEF Conserved
<1>2. ASSUME NEW t \in DOMAIN dreamstats, NEW row, row.cid = dreamstats[t].cid,
             row.current_supply = dreamstats[t].current_supply,
             dreamstats' = Set(dreamstats, t, row), UNCHANGED accounts
      PROVE  accounts' \in Balances /\ Conserved'
  <2>1. dreamstats[t].current_supply \in Int
    BY <1>0 DEF SupplyInv, RowInBounds, StatsRow
  <2>2. dreamstats[t].cid \in 1..MaxCreated
    BY <1>0, CidOK
  <2>3. Total(accounts, dreamstats[t].cid) \in Nat
    <3>1. PICK o : o \in Accounts
      BY DEF Accounts
    <3> QED
      BY <1>0, <2>2, <3>1, TotalType
  <2>4. /\ row.current_supply = dreamstats[t].current_supply + 0
        /\ Total(accounts', dreamstats[t].cid) = Total(accounts, dreamstats[t].cid) + 0
    BY <1>2, <2>1, <2>3
  <2>5. \A d \in 1..MaxCreated : Total(accounts', d) = Total(accounts, d)
    BY <1>2
  <2> QED
    <3>1. PICK n \in Int : n = 0
      OBVIOUS
    <3>2. /\ row.current_supply = dreamstats[t].current_supply + n
          /\ Total(accounts', dreamstats[t].cid) = Total(accounts, dreamstats[t].cid) + n
      BY <2>4, <3>1
    <3> QED
      BY <1>0, <1>2, <2>5, <3>2, ConservedSet
<1>3. ASSUME NEW t, FreezeMaxSup(t)
      PROVE  accounts' \in Balances /\ Conserved'
  <2>1. PICK row : /\ row = [dreamstats[t] EXCEPT !.max_supply = dreamstats[t].issued_supply,
                                                  !.window = "none"]
                   /\ dreamstats' = Set(dreamstats, t, row)
    BY <1>3 DEF FreezeMaxSup
  <2>2. t \in DOMAIN dreamstats /\ UNCHANGED accounts /\ dreamstats[t] \in StatsRow
    BY <1>0, <1>3 DEF FreezeMaxSup, SupplyInv, RowInBounds
  <2>3. row.cid = dreamstats[t].cid /\ row.current_supply = dreamstats[t].current_supply
    BY <2>1, <2>2 DEF StatsRow
  <2> QED
    BY <1>2, <2>1, <2>2, <2>3
<1>4. ASSUME NEW o \in Accounts, NEW i, BurnNft(o, i)
      PROVE  accounts' \in Balances /\ Conserved'
  <2>1. PICK t \in DOMAIN dreamstats :
          /\ accounts[o][dreamstats[t].cid] >= 1
          /\ accounts' = _sub_balance(accounts, o, dreamstats[t].cid, 1)
          /\ \/ dreamstats[t].current_supply = 1 /\ dreamstats' = Erase(dreamstats, t)
             \/ dreamstats' = Set(dreamstats, t, Supplied(dreamstats[t], -1, -1))
    BY <1>4 DEF BurnNft
  <2>2. PICK q \in Nat : q = 1
    OBVIOUS
  <2>3. PICK k \in Int : k = -1
    OBVIOUS
  <2>4. -q = -1
    BY <2>2
  <2>5. /\ accounts[o][dreamstats[t].cid] >= q
        /\ accounts' = _sub_balance(accounts, o, dreamstats[t].cid, q)
        /\ \/ dreamstats' = Set(dreamstats, t, Supplied(dreamstats[t], -q, k))
           \/ dreamstats[t].current_supply = q /\ dreamstats' = Erase(dreamstats, t)
    BY <2>1, <2>2, <2>3, <2>4
  <2> QED
    BY <2>5, BurnConserves
<1>5. ASSUME NEW o \in Accounts, NEW c \in 1..MaxCreated, NEW q \in 1..MaxIssued, BurnFt(o, c, q)
      PROVE  accounts' \in Balances /\ Conserved'
  <2>1. q \in Nat \ {0} /\ 0 \in Int /\ accounts[o][c] >= q
    BY <1>0, <1>5 DEF BurnFt
  <2>2. PICK t \in DOMAIN dreamstats : t = names[c] /\ dreamstats[t].cid = c
    BY <2>1, BurnFtFindsType
  <2>3. /\ accounts' = _sub_balance(accounts, o, c, q)
        /\ dreamstats' = Set(dreamstats, t, Supplied(dreamstats[t], -q, 0))
    BY <1>5, <2>2 DEF BurnFt
  <2> QED
    BY <2>1, <2>2, <2>3, BurnConserves
<1>6. CASE Supply
  <2>1. ASSUME NEW k \in Kinds, Create(k) PROVE accounts' \in Balances /\ Conserved'
    BY <1>0, <2>1, CreateConserves DEF Create
  <2>2. ASSUME NEW to \in Accounts, NEW t, NEW q \in 1..MaxIssued, Issue(to, t, q)
        PROVE  accounts' \in Balances /\ Conserved'
    <3>1. q \in Nat
      BY <1>0
    <3> QED
      BY <2>2, <3>1, IssueConserves
  <2> QED
    BY <1>3, <1>4, <1>5, <1>6, <2>1, <2>2 DEF Supply
<1>7. ASSUME NEW from \in Accounts, NEW to \in Accounts, NEW t, NEW q \in 1..MaxIssued,
             TransferFt(from, to, t, q)
      PROVE  accounts' \in Balances /\ Conserved'
  <2>1. t \in DOMAIN dreamstats /\ UNCHANGED dreamstats /\ q \in Nat
    BY <1>0, <1>7 DEF TransferFt, supplyVars
  <2>2. PICK c \in 1..MaxCreated : c = dreamstats[t].cid
    BY <1>0, <2>1, CidOK
  <2>3. PICK mid : mid = _sub_balance(accounts, from, c, q)
    OBVIOUS
  <2>4. accounts' = _add_balance(mid, to, c, q) /\ accounts[from][c] >= q
    BY <1>7, <2>2, <2>3 DEF TransferFt
  <2>5. /\ mid \in Balances /\ Total(mid, c) = Total(accounts, c) - q
        /\ \A d \in 1..MaxCreated : d # c => Total(mid, d) = Total(accounts, d)
    BY <1>0, <2>1, <2>3, <2>4, BalanceSubtracted
  <2>6. /\ accounts' \in Balances /\ Total(accounts', c) = Total(mid, c) + q
        /\ \A d \in 1..MaxCreated : d # c => Total(accounts', d) = Total(mid, d)
    BY <2>1, <2>4, <2>5, BalanceAdded
  <2>7. Total(accounts, c) \in Nat
    BY <1>0, TotalType
  <2>8. \A d \in 1..MaxCreated : Total(accounts', d) = Total(accounts, d)
    BY <2>1, <2>5, <2>6, <2>7
  <2> QED
    BY <2>1, <2>6, <2>8, ConservedSame
<1>8. ASSUME NEW from \in Accounts, NEW to \in Accounts, NEW i \in NftIds, TransferNft(from, to, i)
      PROVE  accounts' \in Balances /\ Conserved'
  <2>1. PICK ids \in Seq(NftIds) : ids = <<i>>
    <3>1. <<i>> \in Seq(NftIds)
      OBVIOUS
    <3> QED
      BY <3>1
  <2>2. /\ MayChangeOwner(from, to, ids, lockednfts) /\ ChangeOwner(from, to, ids)
        /\ UNCHANGED dreamstats
    BY <1>8, <2>1 DEF TransferNft, supplyVars
  <2> QED
    BY <1>0, <2>2, ChangeOwnerBalances, ConservedSame
<1>9. CASE Transfers
  BY <1>1, <1>7, <1>8, <1>9 DEF Transfers, LinkNft, UnlinkNft, supplyVars
<1>10. ASSUME NEW to \in Accounts, NEW b, PurchaseNft(to, b)
       PROVE  accounts' \in Balances /\ Conserved'
  <2>1. b \in DOMAIN asks /\ UNCHANGED dreamstats
    BY <1>10 DEF PurchaseNft, supplyVars
  <2>2. asks[b].seller \in Accounts /\ asks[b].nft_ids \in Batches
    BY <1>0, <2>1 DEF AsksOK, AskRow
  <2>3. PICK ids \in Seq(NftIds) : ids = asks[b].nft_ids
    BY <2>2, BatchType
  <2>4. PICK from \in Accounts : from = asks[b].seller
    BY <2>2
  <2>5. PICK locks : MayChangeOwner(from, to, ids, locks) /\ ChangeOwner(from, to, ids)
    BY <1>10, <2>3, <2>4 DEF PurchaseNft
  <2> QED
    BY <1>0, <2>1, <2>5, ChangeOwnerBalances, ConservedSame
<1>11. CASE Sales
  BY <1>1, <1>10, <1>11 DEF Sales, NfTokenSale, EndNftSale, supplyVars
<1>12. CASE Licensing
  BY <1>1, <1>12 DEF Licensing, LicenceSale, EndLcncSale, PurchaseLicence, License,
                     Extend, Revoke, supplyVars
<1>13. CASE Expire
  <2>1. UNCHANGED accounts
    BY <1>13 DEF Expire
  <2>2. CASE UNCHANGED dreamstats
    BY <1>1, <2>1, <2>2
  <2>3. ASSUME NEW t \in DOMAIN dreamstats,
               dreamstats' = Set(dreamstats, t, [dreamstats[t] EXCEPT !.window = "closed"])
        PROVE  accounts' \in Balances /\ Conserved'
    <3>1. dreamstats[t] \in StatsRow
      BY <1>0 DEF SupplyInv, RowInBounds
    <3>2. PICK row : row = [dreamstats[t] EXCEPT !.window = "closed"]
      OBVIOUS
    <3>3. row.cid = dreamstats[t].cid /\ row.current_supply = dreamstats[t].current_supply
      BY <3>1, <3>2 DEF StatsRow
    <3> QED
      BY <1>2, <2>1, <2>3, <3>2, <3>3
  <2> QED
    BY <1>13, <2>2, <2>3 DEF Expire
<1>14. CASE UNCHANGED vars
  BY <1>1, <1>14 DEF vars
<1> QED
  BY <1>6, <1>9, <1>11, <1>12, <1>13, <1>14 DEF Next

\* TypeOK and Conservation are invariants together.
ContractInv == TypeInv /\ Conserved

\* Nobody has anything at the start.
LEMMA InitContract ==
  ASSUME Init
  PROVE  ContractInv
PROOF
<1>1. accounts \in Balances
  BY DEF Init, Balances
<1>2. ASSUME NEW c \in 1..MaxCreated PROVE Total(accounts, c) = 0
  <2>1. \A o \in Accounts : Column(accounts, c)[o] = 0
    BY DEF Init, Column
  <2> QED
    BY <2>1, SumZero, AccountsFinite DEF Total
<1>3. DOMAIN dreamstats = {} /\ DOMAIN dreams = {} /\ DOMAIN asks = {}
  BY DEF Init
<1>4. Conserved
  BY <1>2, <1>3 DEF Conserved
<1>5. CatalogOK
  <2>1. names \in Seq(Types) /\ Len(names) = 0 /\ MaxCreated \in Nat
    BY DreamojiAssumption DEF Init
  <2> QED
    BY <1>3, <2>1 DEF CatalogOK
<1>6. OthersOK
  <2>1. MaxNft \in Nat /\ MaxLicence \in Nat
    BY DreamojiAssumption
  <2> QED
    BY <2>1 DEF Init, OthersOK
<1> QED
  BY <1>1, <1>3, <1>4, <1>5, <1>6 DEF ContractInv, TypeInv, SupplyInv, DreamsOK, AsksOK

\* Every step keeps it.
LEMMA ContractStep ==
  ASSUME ContractInv, [Next]_vars
  PROVE  ContractInv'
PROOF
<1>1. TypeInv /\ Conserved /\ CatalogOK /\ SupplyInv /\ AsksOK /\ names \in Seq(Types)
  BY DEF ContractInv, TypeInv, CatalogOK
<1>2. CatalogOK' /\ SupplyInv' /\ DreamsOK' /\ AsksOK' /\ OthersOK'
  BY <1>1, CatalogStep, SupplyStep, DreamsStep, AsksStep, OthersStep
<1> QED
  BY <1>1, <1>2, BalancesStep DEF ContractInv, TypeInv

\* So it holds in every state.
LEMMA ContractHolds == Spec => []ContractInv
PROOF
<1>1. Init => ContractInv
  BY InitContract
<1>2. ContractInv /\ [Next]_vars => ContractInv'
  BY ContractStep
<1> QED
  BY <1>1, <1>2, PTL DEF Spec

(***************************************************************************)
(* The tables keep their types: every id that a row names is an id that    *)
(* was given, every type has a category_name_id of its own, and no balance *)
(* ever goes below zero.                                                   *)
(***************************************************************************)
THEOREM ContractTypeCorrect == Spec => []TypeOK
PROOF
<1>1. ContractInv => TypeOK
  BY DEF ContractInv, TypeInv, CatalogOK, DreamsOK, DreamRow, Balances, AsksOK, OthersOK, TypeOK
<1> QED
  BY <1>1, ContractHolds, PTL

(***************************************************************************)
(* The balances of all accounts in a type add up to its current_supply,    *)
(* and no balance is left of a type that was burned out: for any number of *)
(* accounts and types, any trees of children and any sequence of issues,   *)
(* burns, transfers and sales.                                             *)
(***************************************************************************)
THEOREM SuppliesConserved == Spec => []Conservation
PROOF
<1>1. ASSUME ContractInv
      PROVE  Conservation
  <2>1. SUFFICES ASSUME NEW c \in 1..MaxCreated
                 PROVE  SumFunction([o \in Accounts |-> accounts[o][c]]) =
                          SumFunction([t \in {t \in DOMAIN dreamstats : dreamstats[t].cid = c} |->
                                         dreamstats[t].current_supply])
    BY DEF Conservation
  <2>2. CatalogOK /\ SupplyInv /\ Conserved
    BY <1>1 DEF ContractInv, TypeInv
  <2>3. SumFunction([o \in Accounts |-> accounts[o][c]]) = Total(accounts, c)
    BY DEF SumFunction, Total, Column, SumOver
  <2>4. PICK T : T = {t \in DOMAIN dreamstats : dreamstats[t].cid = c}
    OBVIOUS
  <2>5. PICK f : f = [t \in T |-> dreamstats[t].current_supply]
    OBVIOUS
  <2>6. SumFunction(f) = SumOver(f, T)
    BY <2>5 DEF SumFunction, SumOver
  <2>7. CASE T = {}
    <3>1. Total(accounts, c) = 0
      BY <2>2, <2>4, <2>7 DEF Conserved
    <3> QED
      BY <2>3, <2>4, <2>5, <2>6, <2>7, <3>1, SumEmpty
  <2>8. CASE T # {}
    <3>1. PICK t \in T : TRUE
      BY <2>8
    <3>2. t \in DOMAIN dreamstats /\ dreamstats[t].cid = c
      BY <2>4, <3>1
    <3>3. T = {t}
      BY <2>2, <2>4, <3>1, <3>2, CidOK
    <3>4. f[t] = dreamstats[t].current_supply /\ f[t] \in Int
      BY <2>2, <2>5, <3>1, <3>2 DEF SupplyInv, RowInBounds, StatsRow
    <3>5. SumOver(f, {t}) = f[t]
      BY <3>4, SumOne
    <3>6. Total(accounts, c) = dreamstats[t].current_supply
      BY <2>2, <3>2 DEF Conserved
    <3> QED
      BY <2>3, <2>4, <2>5, <2>6, <3>3, <3>4, <3>5, <3>6
  <2> QED
    BY <2>7, <2>8
<1>2. ContractInv => Conservation
  BY <1>1
<1> QED
  BY <1>2, ContractHolds, PTL

-----------------------------------------------------------------------------
(* Owners.                                                                 *)

\* The step of LockedStaysPut.
LockedKept ==
  \A i \in lockednfts \cap DOMAIN dreams \cap DOMAIN dreams' :
    dreams'[i].owner # dreams[i].owner =>
      \E b \in DOMAIN asks \ DOMAIN asks' : i \in ToSet(asks[b].nft_ids)

\* Every token has an id that was given to it.
GivenInv == IdInv /\ DOMAIN dreams \subseteq used

\* It holds in every state.
LEMMA GivenHolds == Spec => []GivenInv
PROOF
<1>1. Init => GivenInv
  BY DEF Init, IdInv, GivenInv
<1>2. ASSUME GivenInv, GivesIds
      PROVE  GivenInv'
  BY <1>2 DEF IdInv, GivesIds, GivenInv
<1>3. GivenInv /\ [Next]_vars => GivenInv'
  BY <1>2, StepGivesIds DEF GivenInv
<1> QED
  BY <1>1, <1>3, PTL DEF Spec

\* issue writes no row that is there.
LEMMA IssueKeepsOwners ==
  ASSUME GivenInv, NEW to, NEW t, NEW q \in Nat, Issue(to, t, q)
  PROVE  \A i \in DOMAIN dreams : dreams'[i] = dreams[i]
PROOF
<1>1. PICK minted : minted = IF dreamstats[t].kind.fungible THEN <<>> ELSE Minted(to, t, q)
  OBVIOUS
<1>2. dreams' = [i \in DOMAIN dreams \cup DOMAIN minted |->
                   IF i \in DOMAIN minted THEN minted[i] ELSE dreams[i]]
  BY <1>1 DEF Issue
<1>3. DOMAIN minted \subseteq next_nft_id .. (next_nft_id + q - 1)
  BY <1>1 DEF Minted, _nextnftid
<1>4. \A i \in DOMAIN dreams : i \notin DOMAIN minted
  BY <1>3 DEF GivenInv, IdInv
<1> QED
  BY <1>2, <1>4

\* A locked token moves in no step but the sale of a listing it is in.
LEMMA StepKeepsLocked ==
  ASSUME ContractInv, GivenInv, [Next]_vars
  PROVE  LockedKept
PROOF
<1>0. DreamsOK /\ MaxIssued \in Nat
  BY DreamojiAssumption DEF ContractInv, TypeInv
<1>1. ASSUME \A i \in DOMAIN dreams \cap DOMAIN dreams' : dreams'[i].owner = dreams[i].owner
      PROVE  LockedKept
  BY <1>1 DEF LockedKept
<1>2. CASE UNCHANGED dreams
  BY <1>1, <1>2
<1>3. CASE Supply
  <2>1. ASSUME NEW to, NEW t, NEW q \in 1..MaxIssued, Issue(to, t, q) PROVE LockedKept
    <3>1. q \in Nat
      BY <1>0
    <3> QED
      BY <1>1, <2>1, <3>1, IssueKeepsOwners
  <2>2. ASSUME NEW o, NEW i, BurnNft(o, i) PROVE LockedKept
    BY <1>1, <2>2 DEF BurnNft, Erase
  <2> QED
    BY <1>2, <1>3, <2>1, <2>2 DEF Supply, Create, FreezeMaxSup, BurnFt
<1>4. ASSUME NEW from, NEW to, NEW ids, ChangeOwner(from, to, ids)
      PROVE  \A j \in DOMAIN dreams : j \notin ToSet(WalkAll(ids)) => dreams'[j] = dreams[j]
  BY <1>4 DEF ChangeOwner
<1>5. CASE Transfers
  <2>1. ASSUME NEW from, NEW to, NEW i, TransferNft(from, to, i) PROVE LockedKept
    <3>1. PICK v : v = WalkAll(<<i>>)
      OBVIOUS
    <3>2. /\ ToSet(v) \cap lockednfts = {}
          /\ \A j \in DOMAIN dreams : j \notin ToSet(v) => dreams'[j] = dreams[j]
      BY <1>4, <2>1, <3>1 DEF TransferNft, MayChangeOwner
    <3> QED
      BY <3>2 DEF LockedKept
  <2>2. ASSUME NEW i \in NftIds, NEW p \in NftIds, LinkNft(i, p) PROVE LockedKept
    <3>1. PICK kids : kids = Append(dreams[p].children, i)
      OBVIOUS
    <3>2. p \in DOMAIN dreams /\ dreams' = [dreams EXCEPT ![p].children = kids]
      BY <2>2, <3>1 DEF LinkNft
    <3>3. dreams[p].children \in Seq(NftIds)
      BY <1>0, <3>2 DEF DreamsOK, DreamRow
    <3>4. kids \in Seq(NftIds)
      BY <3>1, <3>3
    <3> QED
      BY <1>0, <1>1, <3>2, <3>4, ChildrenSet
  <2>3. ASSUME NEW i \in NftIds, NEW p \in NftIds, UnlinkNft(i, p) PROVE LockedKept
    <3>1. PICK kids : kids = Unlinked(dreams[p].children, i)
      OBVIOUS
    <3>2. p \in DOMAIN dreams /\ dreams' = [dreams EXCEPT ![p].children = kids]
      BY <2>3, <3>1 DEF UnlinkNft
    <3>3. dreams[p].children \in Seq(NftIds)
      BY <1>0, <3>2 DEF DreamsOK, DreamRow
    <3>4. kids \in Seq(NftIds)
      BY <3>1, <3>3, UnlinkedType
    <3> QED
      BY <1>0, <1>1, <3>2, <3>4, ChildrenSet
  <2> QED
    BY <1>2, <1>5, <2>1, <2>2, <2>3 DEF Transfers, TransferFt
<1>6. CASE Sales
  <2>1. ASSUME NEW to, NEW b, PurchaseNft(to, b) PROVE LockedKept
    <3>1. PICK v : v = WalkAll(asks[b].nft_ids)
      OBVIOUS
    <3>2. PICK ids : ids = ToSet(asks[b].nft_ids)
      OBVIOUS
    <3>3. b \in DOMAIN asks /\ b \notin DOMAIN asks'
      BY <2>1 DEF PurchaseNft, Erase
    <3>4. ToSet(v) \cap (lockednfts \ ids) = {}
      BY <2>1, <3>1, <3>2 DEF PurchaseNft, MayChangeOwner
    <3>5. \A j \in DOMAIN dreams : j \notin ToSet(v) => dreams'[j] = dreams[j]
      BY <1>4, <2>1, <3>1 DEF PurchaseNft
    <3> QED
      BY <3>2, <3>3, <3>4, <3>5 DEF LockedKept
  <2> QED
    BY <1>2, <1>6, <2>1 DEF Sales, NfTokenSale, EndNftSale
<1>7. CASE Licensing
  BY <1>2, <1>7 DEF Licensing, LicenceSale, EndLcncSale, PurchaseLicence, License, Extend,
                    Revoke
<1>8. CASE Expire \/ UNCHANGED vars
  BY <1>2, <1>8 DEF Expire, vars
<1> QED
  BY <1>3, <1>5, <1>6, <1>7, <1>8 DEF Next

(***************************************************************************)
(* A locked token keeps its owner but for the sale of a listing it is part *)
(* of, at any depth in trees of children of any shape.                     *)
(***************************************************************************)
THEOREM LockedTokensStay == Spec => LockedStaysPut
PROOF
<1>1. ContractInv /\ GivenInv /\ [Next]_vars => LockedKept
  BY StepKeepsLocked
<1>2. ContractInv /\ GivenInv /\ [Next]_vars => [LockedKept]_vars
  BY <1>1
<1>3. Spec => [][LockedKept]_vars
  BY <1>2, ContractHolds, GivenHolds, PTL DEF Spec
<1> QED
  BY <1>3 DEF LockedStaysPut, LockedKept

-----------------------------------------------------------------------------
(* Supplies.                                                               *)

\* A type was not created again, and its tokens are as many as were issued.
CreatedOnce(t) == \A c \in 1..Len(names) : names[c] = t => c = dreamstats[t].cid
Counted(t) == CreatedOnce(t) /\ ~ dreamstats[t].kind.fungible =>
                Cardinality(TokensOf(t)) = dreamstats[t].issued_supply
TokensInv ==
  /\ \A i \in DOMAIN dreams : \E c \in 1..Len(names) : names[c] = dreams[i].type
  /\ \A t \in DOMAIN dreamstats : Counted(t)

\* Tokens are the same, and the rows of the types say the same of them.
LEMMA TokensKept ==
  ASSUME TokensInv, UNCHANGED names, DOMAIN dreams' = DOMAIN dreams,
         \A i \in DOMAIN dreams : dreams'[i].type = dreams[i].type,
         DOMAIN dreamstats' \subseteq DOMAIN dreamstats,
         \A t \in DOMAIN dreamstats' :
           /\ dreamstats'[t].cid = dreamstats[t].cid
           /\ dreamstats'[t].kind = dreamstats[t].kind
           /\ dreamstats'[t].issued_supply = dreamstats[t].issued_supply
  PROVE  TokensInv'
PROOF
<1>1. \A t : TokensOf(t)' = TokensOf(t)
  BY DEF TokensOf
<1>2. ASSUME NEW t \in DOMAIN dreamstats' PROVE Counted(t)'
  BY <1>1, <1>2 DEF TokensInv, Counted, CreatedOnce
<1> QED
  BY <1>2 DEF TokensInv

\* One row is replaced by another that says the same.
LEMMA RowKept ==
  ASSUME TokensInv, UNCHANGED <<names, dreams>>, NEW t \in DOMAIN dreamstats, NEW row,
         dreamstats' = Set(dreamstats, t, row), row.cid = dreamstats[t].cid,
         row.kind = dreamstats[t].kind, row.issued_supply = dreamstats[t].issued_supply
  PROVE  TokensInv'
PROOF
  BY TokensKept DEF Set

\* A type is created: there is no token of it, unless there was one before.
LEMMA CreateCounts ==
  ASSUME TokensInv, CatalogOK, NEW k \in Kinds, Create(k)
  PROVE  TokensInv'
PROOF
<1>1. /\ names \in Seq(Types) /\ k.type \in Types /\ Len(names) \in Nat
      /\ names' = Append(names, k.type)
  BY DEF Create, CatalogOK, Types
<1>2. /\ names' \in Seq(Types) /\ Len(names') = Len(names) + 1
      /\ names'[Len(names) + 1] = k.type
      /\ \A c \in 1..Len(names) : names'[c] = names[c]
  BY <1>1
<1>3. 1..Len(names) \subseteq 1..Len(names')
  BY <1>1, <1>2
<1>4. UNCHANGED dreams /\ \A t : TokensOf(t)' = TokensOf(t)
  BY DEF Create, TokensOf
<1>5. /\ DOMAIN dreamstats' = DOMAIN dreamstats \cup {k.type}
      /\ dreamstats'[k.type].cid = Len(names) + 1
      /\ dreamstats'[k.type].issued_supply = 0
      /\ \A t \in DOMAIN dreamstats : t # k.type => dreamstats'[t] = dreamstats[t]
  BY DEF Create, Set
<1>6. ASSUME NEW i \in DOMAIN dreams' PROVE \E c \in 1..Len(names') : names'[c] = dreams'[i].type
  <2>1. PICK c \in 1..Len(names) : names[c] = dreams[i].type
    BY <1>4, <1>6 DEF TokensInv
  <2> QED
    BY <1>2, <1>3, <1>4, <2>1
<1>7. ASSUME NEW t \in DOMAIN dreamstats' PROVE Counted(t)'
  <2>1. CASE t = k.type
    <3>1. ASSUME CreatedOnce(t)' PROVE TokensOf(t) = {}
      <4>1. ASSUME NEW i \in TokensOf(t) PROVE FALSE
        <5>1. PICK c \in 1..Len(names) : names[c] = t
          BY <4>1 DEF TokensInv, TokensOf
        <5>2. c = Len(names) + 1
          BY <1>2, <1>3, <1>5, <2>1, <3>1, <5>1 DEF CreatedOnce
        <5> QED
          BY <1>1, <5>1, <5>2
      <4> QED
        BY <4>1
    <3> QED
      BY <1>4, <1>5, <2>1, <3>1, FS_EmptySet DEF Counted
  <2>2. CASE t # k.type
    <3>1. t \in DOMAIN dreamstats /\ dreamstats'[t] = dreamstats[t]
      BY <1>5, <1>7, <2>2
    <3>2. CreatedOnce(t)' => CreatedOnce(t)
      BY <1>2, <1>3, <3>1 DEF CreatedOnce
    <3> QED
      BY <1>4, <3>1, <3>2 DEF TokensInv, Counted
  <2> QED
    BY <2>1, <2>2
<1> QED
  BY <1>6, <1>7 DEF TokensInv

\* issue adds as many tokens as it adds to issued_supply.
LEMMA IssueCounts ==
  ASSUME TokensInv, CatalogOK, SupplyInv, DreamsOK, GivenInv, NEW to, NEW t,
         NEW q \in Nat, Issue(to, t, q)
  PROVE  TokensInv'
PROOF
<1>1. PICK st \in StatsRow : st = dreamstats[t] /\ t \in DOMAIN dreamstats
  BY DEF Issue, SupplyInv, RowInBounds
<1>2. PICK M : M = IF st.kind.fungible THEN {} ELSE next_nft_id .. (next_nft_id + q - 1)
  OBVIOUS
<1>3. PICK minted : minted = IF st.kind.fungible THEN <<>> ELSE Minted(to, t, q)
  OBVIOUS
<1>4. DOMAIN minted = M /\ \A i \in M : minted[i].type = t
  BY <1>2, <1>3 DEF Minted, _nextnftid
<1>5. dreams' = [i \in DOMAIN dreams \cup M |-> IF i \in M THEN minted[i] ELSE dreams[i]]
  BY <1>1, <1>3, <1>4 DEF Issue
<1>6. M \cap DOMAIN dreams = {}
  BY <1>2 DEF GivenInv, IdInv
<1>7. TokensOf(t)' = TokensOf(t) \cup M /\ \A u : u # t => TokensOf(u)' = TokensOf(u)
  BY <1>4, <1>5, <1>6 DEF TokensOf
<1>8. UNCHANGED names /\ dreamstats' = Set(dreamstats, t, Supplied(st, q, q))
  BY <1>1 DEF Issue
<1>9. PICK row : row = Supplied(st, q, q)
  OBVIOUS
<1>10. row.cid = st.cid /\ row.kind = st.kind /\ row.issued_supply = st.issued_supply + q
  BY <1>1, <1>9 DEF Supplied, StatsRow
<1>11. /\ DOMAIN dreamstats' = DOMAIN dreamstats /\ dreamstats'[t] = row
       /\ \A u \in DOMAIN dreamstats : u # t => dreamstats'[u] = dreamstats[u]
  BY <1>1, <1>8, <1>9 DEF Set
<1>12. ASSUME NEW i \in DOMAIN dreams' PROVE \E c \in 1..Len(names) : names[c] = dreams'[i].type
  <2>1. CASE i \in M
    <3>1. dreams'[i].type = t
      BY <1>4, <1>5, <2>1
    <3>2. st.cid \in 1..Len(names) /\ names[st.cid] = t
      BY <1>1 DEF CatalogOK
    <3> QED
      BY <3>1, <3>2
  <2>2. CASE i \notin M
    <3>1. i \in DOMAIN dreams /\ dreams'[i] = dreams[i]
      BY <1>5, <1>12, <2>2
    <3> QED
      BY <3>1 DEF TokensInv
  <2> QED
    BY <2>1, <2>2
<1>13. ASSUME NEW u \in DOMAIN dreamstats PROVE Counted(u)'
  <2>1. CASE u # t
    BY <1>7, <1>8, <1>11, <1>13, <2>1 DEF TokensInv, Counted, CreatedOnce
  <2>2. CASE u = t
    <3>1. SUFFICES ASSUME CreatedOnce(t), ~ st.kind.fungible
                   PROVE  Cardinality(TokensOf(t) \cup M) = st.issued_supply + q
      BY <1>1, <1>7, <1>8, <1>10, <1>11, <2>2 DEF Counted, CreatedOnce
    <3>2. Cardinality(TokensOf(t)) = st.issued_supply
      BY <1>1, <3>1 DEF TokensInv, Counted
    <3>3. IsFiniteSet(TokensOf(t))
      BY DreamsFinite, FS_Subset DEF TokensOf
    <3>4. next_nft_id \in Int /\ next_nft_id + q - 1 \in Int
      BY DEF GivenInv, IdInv
    <3>5. M = next_nft_id .. (next_nft_id + q - 1)
      BY <1>2, <3>1
    <3>6. IsFiniteSet(M) /\ Cardinality(M) = q
      <4>1. PICK a \in Int, b \in Int : a = next_nft_id /\ b = next_nft_id + q - 1
        BY <3>4
      <4>2. /\ IsFiniteSet(a..b)
            /\ Cardinality(a..b) = IF a > b THEN 0 ELSE b - a + 1
        BY FS_Interval
      <4> QED
        BY <3>4, <3>5, <4>1, <4>2
    <3>7. TokensOf(t) \cap M = {}
      BY <1>6 DEF TokensOf
    <3>8. /\ IsFiniteSet(TokensOf(t) \cap M) /\ Cardinality(TokensOf(t) \cap M) = 0
      BY <3>7, FS_EmptySet
    <3>9. Cardinality(TokensOf(t) \cup M) = Cardinality(TokensOf(t)) + Cardinality(M) - 0
      BY <3>3, <3>6, <3>8, FS_Union
    <3> QED
      BY <1>1, <3>2, <3>6, <3>9 DEF StatsRow
  <2> QED
    BY <2>1, <2>2
<1> QED
  BY <1>8, <1>11, <1>12, <1>13 DEF TokensInv

\* burnnft takes one token away, and one from issued_supply.
LEMMA BurnCounts ==
  ASSUME TokensInv, SupplyInv, DreamsOK, NEW o, NEW i, BurnNft(o, i)
  PROVE  TokensInv'
PROOF
<1>1. PICK t : t = dreams[i].type /\ t \in DOMAIN dreamstats /\ i \in DOMAIN dreams
  BY DEF BurnNft
<1>2. PICK st \in StatsRow : st = dreamstats[t]
  BY <1>1 DEF SupplyInv, RowInBounds
<1>3. UNCHANGED names /\ DOMAIN dreams' = DOMAIN dreams \ {i}
      /\ \A j \in DOMAIN dreams' : dreams'[j] = dreams[j]
  BY DEF BurnNft, Erase
<1>4. i \in TokensOf(t) /\ TokensOf(t)' = TokensOf(t) \ {i}
      /\ \A u : u # t => TokensOf(u)' = TokensOf(u)
  BY <1>1, <1>3 DEF TokensOf
<1>5. PICK m \in Int : m = -1
  OBVIOUS
<1>6. PICK row : row = Supplied(st, m, m)
  OBVIOUS
<1>7. row.cid = st.cid /\ row.kind = st.kind /\ row.issued_supply = st.issued_supply + m
  BY <1>2, <1>6 DEF Supplied, StatsRow
<1>8. dreamstats' = Erase(dreamstats, t) \/ dreamstats' = Set(dreamstats, t, row)
  BY <1>1, <1>2, <1>5, <1>6 DEF BurnNft
<1>9. /\ DOMAIN dreamstats' \subseteq DOMAIN dreamstats
      /\ \A u \in DOMAIN dreamstats' : IF u = t THEN dreamstats'[u] = row
                                       ELSE dreamstats'[u] = dreamstats[u]
  BY <1>1, <1>8 DEF Erase, Set
<1>10. ASSUME NEW u \in DOMAIN dreamstats' PROVE Counted(u)'
  <2>1. CASE u # t
    BY <1>3, <1>4, <1>9, <1>10, <2>1 DEF TokensInv, Counted, CreatedOnce
  <2>2. CASE u = t
    <3>1. dreamstats'[t] = row
      BY <1>9, <1>10, <2>2
    <3>2. SUFFICES ASSUME CreatedOnce(t), ~ st.kind.fungible
                   PROVE  Cardinality(TokensOf(t) \ {i}) = st.issued_supply + m
      BY <1>2, <1>3, <1>4, <1>7, <2>2, <3>1 DEF Counted, CreatedOnce
    <3>3. Cardinality(TokensOf(t)) = st.issued_supply
      BY <1>1, <1>2, <3>2 DEF TokensInv, Counted
    <3>4. IsFiniteSet(TokensOf(t))
      BY DreamsFinite, FS_Subset DEF TokensOf
    <3>5. Cardinality(TokensOf(t) \ {i}) = Cardinality(TokensOf(t)) - 1
      BY <1>4, <3>4, FS_RemoveElement
    <3> QED
      BY <1>2, <1>5, <3>3, <3>5 DEF StatsRow
  <2> QED
    BY <2>1, <2>2
<1>11. ASSUME NEW j \in DOMAIN dreams' PROVE \E c \in 1..Len(names) : names[c] = dreams'[j].type
  BY <1>3, <1>11 DEF TokensInv
<1> QED
  BY <1>3, <1>10, <1>11 DEF TokensInv

\* Every step keeps the tokens counted.
LEMMA TokensStep ==
  ASSUME ContractInv, GivenInv, TokensInv, [Next]_vars
  PROVE  TokensInv'
PROOF
<1>0. DreamsOK /\ CatalogOK /\ SupplyInv /\ MaxIssued \in Nat /\ names \in Seq(Types)
  BY DreamojiAssumption DEF ContractInv, TypeInv, CatalogOK
<1>1. CASE UNCHANGED <<names, dreams, dreamstats>>
  BY <1>1, TokensKept
<1>2. ASSUME UNCHANGED <<names, dreamstats>>, DOMAIN dreams' = DOMAIN dreams,
             \A i \in DOMAIN dreams : dreams'[i].type = dreams[i].type
      PROVE  TokensInv'
  BY <1>2, TokensKept
<1>3. CASE Supply
  <2>1. ASSUME NEW k \in Kinds, Create(k) PROVE TokensInv'
    BY <1>0, <2>1, CreateCounts
  <2>2. ASSUME NEW t, FreezeMaxSup(t) PROVE TokensInv'
    <3>1. t \in DOMAIN dreamstats /\ dreamstats[t] \in StatsRow
      BY <1>0, <2>2 DEF FreezeMaxSup, SupplyInv, RowInBounds
    <3>2. PICK row : row = [dreamstats[t] EXCEPT !.max_supply = dreamstats[t].issued_supply,
                                                 !.window = "none"]
      OBVIOUS
    <3>3. /\ row.cid = dreamstats[t].cid /\ row.kind = dreamstats[t].kind
          /\ row.issued_supply = dreamstats[t].issued_supply
      BY <3>1, <3>2 DEF StatsRow
    <3>4. UNCHANGED <<names, dreams>> /\ dreamstats' = Set(dreamstats, t, row)
      BY <2>2, <3>2 DEF FreezeMaxSup
    <3> QED
      BY <3>1, <3>3, <3>4, RowKept
  <2>3. ASSUME NEW to, NEW t, NEW q \in 1..MaxIssued, Issue(to, t, q) PROVE TokensInv'
    <3>1. q \in Nat
      BY <1>0
    <3> QED
      BY <1>0, <2>3, <3>1, IssueCounts
  <2>4. ASSUME NEW o, NEW i, BurnNft(o, i) PROVE TokensInv'
    BY <1>0, <2>4, BurnCounts
  <2>5. ASSUME NEW o, NEW c, NEW q \in 1..MaxIssued, BurnFt(o, c, q) PROVE TokensInv'
    <3>1. PICK t : t = names[c] /\ t \in DOMAIN dreamstats
      BY <2>5 DEF BurnFt
    <3>2. PICK st \in StatsRow : st = dreamstats[t]
      BY <1>0, <3>1 DEF SupplyInv, RowInBounds
    <3>3. PICK row : row = Supplied(st, -q, 0)
      OBVIOUS
    <3>4. row.cid = st.cid /\ row.kind = st.kind /\ row.issued_supply = st.issued_supply
      BY <3>2, <3>3 DEF Supplied, StatsRow
    <3>5. UNCHANGED <<names, dreams>> /\ dreamstats' = Set(dreamstats, t, row)
      BY <2>5, <3>1, <3>2, <3>3 DEF BurnFt
    <3> QED
      BY <3>1, <3>2, <3>4, <3>5, RowKept
  <2> QED
    BY <1>3, <2>1, <2>2, <2>3, <2>4, <2>5 DEF Supply
<1>4. ASSUME NEW from, NEW to, NEW ids, ChangeOwner(from, to, ids), UNCHANGED <<names, dreamstats>>
      PROVE  TokensInv'
  <2>1. /\ DOMAIN dreams' = DOMAIN dreams
        /\ \A i \in DOMAIN dreams : dreams'[i] = dreams[i]
                                    \/ dreams'[i] = [dreams[i] EXCEPT !.owner = to]
    BY <1>4 DEF ChangeOwner
  <2>2. ASSUME NEW i \in DOMAIN dreams PROVE dreams'[i].type = dreams[i].type
    <3>1. dreams[i] \in DreamRow
      BY <1>0 DEF DreamsOK
    <3> QED
      BY <2>1, <3>1 DEF DreamRow
  <2> QED
    BY <1>2, <1>4, <2>1, <2>2
<1>5. CASE Transfers
  <2>1. ASSUME NEW from, NEW to, NEW i, TransferNft(from, to, i) PROVE TokensInv'
    BY <1>4, <2>1 DEF TransferNft, supplyVars
  <2>2. ASSUME NEW i \in NftIds, NEW p \in NftIds, LinkNft(i, p) PROVE TokensInv'
    <3>1. PICK kids : kids = Append(dreams[p].children, i)
      OBVIOUS
    <3>2. /\ p \in DOMAIN dreams /\ dreams' = [dreams EXCEPT ![p].children = kids]
          /\ UNCHANGED <<names, dreamstats>>
      BY <2>2, <3>1 DEF LinkNft, supplyVars
    <3>3. dreams[p].children \in Seq(NftIds)
      BY <1>0, <3>2 DEF DreamsOK, DreamRow
    <3>4. kids \in Seq(NftIds)
      BY <3>1, <3>3
    <3> QED
      BY <1>0, <1>2, <3>2, <3>4, ChildrenSet
  <2>3. ASSUME NEW i \in NftIds, NEW p \in NftIds, UnlinkNft(i, p) PROVE TokensInv'
    <3>1. PICK kids : kids = Unlinked(dreams[p].children, i)
      OBVIOUS
    <3>2. /\ p \in DOMAIN dreams /\ dreams' = [dreams EXCEPT ![p].children = kids]
          /\ UNCHANGED <<names, dreamstats>>
      BY <2>3, <3>1 DEF UnlinkNft, supplyVars
    <3>3. dreams[p].children \in Seq(NftIds)
      BY <1>0, <3>2 DEF DreamsOK, DreamRow
    <3>4. kids \in Seq(NftIds)
      BY <3>1, <3>3, UnlinkedType
    <3> QED
      BY <1>0, <1>2, <3>2, <3>4, ChildrenSet
  <2> QED
    BY <1>1, <1>5, <2>1, <2>2, <2>3 DEF Transfers, TransferFt, supplyVars
<1>6. CASE Sales
  <2>1. ASSUME NEW to, NEW b, PurchaseNft(to, b) PROVE TokensInv'
    BY <1>4, <2>1 DEF PurchaseNft, supplyVars
  <2> QED
    BY <1>1, <1>6, <2>1 DEF Sales, NfTokenSale, EndNftSale, supplyVars
<1>7. CASE Licensing
  BY <1>1, <1>7 DEF Licensing, LicenceSale, EndLcncSale, PurchaseLicence, License, Extend,
                    Revoke, supplyVars
<1>8. CASE Expire
  <2>1. ASSUME NEW t \in DOMAIN dreamstats,
               dreamstats' = Set(dreamstats, t, [dreamstats[t] EXCEPT !.window = "closed"]),
               UNCHANGED <<names, dreams>>
        PROVE  TokensInv'
    <3>1. PICK row : row = [dreamstats[t] EXCEPT !.window = "closed"]
      OBVIOUS
    <3>2. /\ row.cid = dreamstats[t].cid /\ row.kind = dreamstats[t].kind
          /\ row.issued_supply = dreamstats[t].issued_supply
      BY <1>0, <3>1 DEF SupplyInv, RowInBounds, StatsRow
    <3> QED
      BY <2>1, <3>1, <3>2, RowKept
  <2> QED
    BY <1>1, <1>8, <2>1 DEF Expire
<1>9. CASE UNCHANGED vars
  BY <1>1, <1>9 DEF vars
<1> QED
  BY <1>3, <1>5, <1>6, <1>7, <1>8, <1>9 DEF Next

(***************************************************************************)
(* No type ever has more in its balances than was issued, nor more issued  *)
(* than its max_supply, and of a non-fungible type created once there are  *)
(* exactly as many tokens as its issued_supply says: for every choice of   *)
(* parameters in create and every sequence of issues, burns and            *)
(* freezemaxsup.                                                           *)
(***************************************************************************)
THEOREM SuppliesInBounds == Spec => []SupplyInBounds
PROOF
<1>1. Init => TokensInv
  BY DEF Init, TokensInv
<1>2. Spec => []TokensInv
  <2>1. ContractInv /\ GivenInv /\ TokensInv /\ [Next]_vars => TokensInv'
    BY TokensStep
  <2> QED
    BY <1>1, <2>1, ContractHolds, GivenHolds, PTL DEF Spec
<1>3. ASSUME ContractInv, TokensInv PROVE SupplyInBounds
  <2>1. SupplyInv
    BY <1>3 DEF ContractInv, TypeInv
  <2> QED
    BY <1>3, <2>1 DEF SupplyInv, RowInBounds, SupplyInBounds, TokensInv, Counted, CreatedOnce
<1>4. ContractInv /\ TokensInv => SupplyInBounds
  BY <1>3
<1> QED
  BY <1>2, <1>4, ContractHolds, PTL

-----------------------------------------------------------------------------
(* Fees.                                                                   *)

\* Integer division, and the cancellation it needs.
LEMMA Divided ==
  ASSUME NEW p \in Nat, NEW d \in Nat \ {0}
  PROVE  p \div d \in Nat /\ (p \div d) * d <= p /\ d * (p \div d) <= p
PROOF
  OBVIOUS

\* (likewise)
LEMMA Cancel ==
  ASSUME NEW u \in Nat \ {0}, NEW y \in Nat, NEW a \in Nat, u * y <= u * a
  PROVE  y <= a
PROOF
<1>1. SUFFICES ASSUME y >= a + 1 PROVE FALSE
  OBVIOUS
<1>2. PICK e \in Nat : y = a + 1 + e
  <2>1. y - a - 1 \in Nat
    BY <1>1
  <2> QED
    BY <2>1
<1>3. u * y = u * a + u + u * e
  BY <1>2
<1>4. u * e \in Nat /\ u * a \in Nat
  OBVIOUS
<1> QED
  BY <1>3, <1>4

\* (likewise)
LEMMA Times ==
  ASSUME NEW s \in Nat, NEW u \in Nat, s <= u, NEW a \in Nat
  PROVE  a * s <= a * u /\ a * s \in Nat
PROOF
<1>1. PICK e \in Nat : u = s + e
  <2>1. u - s \in Nat
    OBVIOUS
  <2> QED
    BY <2>1
<1>2. a * u = a * s + a * e
  BY <1>1
<1>3. a * s \in Nat /\ a * e \in Nat
  OBVIOUS
<1> QED
  BY <1>2, <1>3

\* (likewise)
LEMMA CancelLess ==
  ASSUME NEW u \in Nat, NEW y \in Nat, NEW a \in Nat, u * y < u * a
  PROVE  y < a
PROOF
<1>1. SUFFICES ASSUME a <= y PROVE FALSE
  OBVIOUS
<1> QED
  BY <1>1, Times

\* Division with remainder.
LEMMA DivMod ==
  ASSUME NEW p \in Nat, NEW d \in Nat \ {0}
  PROVE  /\ p \div d \in Nat /\ p % d \in Nat /\ p % d < d
         /\ p % d = p - d * (p \div d)
PROOF
<1>1. p \div d \in Nat
  OBVIOUS
<1>2. p % d \in Nat /\ p % d < d
  OBVIOUS
<1>3. p % d = p - d * (p \div d)
  OBVIOUS
<1> QED
  BY <1>1, <1>2, <1>3

\* A bounded set of numbers has a largest one.
LEMMA LargestNumber ==
  ASSUME NEW S \in SUBSET Nat, S # {}, NEW bound \in Nat, \A x \in S : x <= bound
  PROVE  Max(S) \in S /\ \A x \in S : Max(S) >= x
PROOF
<1>1. DEFINE D == {bound - x : x \in S}
<1>2. D \in SUBSET Nat /\ D # {}
  <2>1. \A x \in S : bound - x \in Nat
    OBVIOUS
  <2> QED
    BY <2>1
<1>3. PICK d \in D : \A e \in D : d <= e
  <2> HIDE DEF D
  <2> QED
    BY <1>2, SmallestNumber
<1>4. PICK x \in S : d = bound - x
  OBVIOUS
<1>5. ASSUME NEW y \in S PROVE x >= y
  <2>1. bound - x <= bound - y
    BY <1>3, <1>4
  <2> QED
    BY <2>1
<1> QED
  BY <1>4, <1>5 DEF Max

\* The spacing of doubles at x: half of it times Mantissa is no more than x.
LEMMA SpacingType ==
  ASSUME NEW x \in Nat
  PROVE  /\ Spacing(x) \in Spacings /\ Spacing(x) \in Nat \ {0}
         /\ Mantissa * (Spacing(x) \div 2) <= x
PROOF
<1>1. PICK S : S = {s \in Spacings : Mantissa * (s \div 2) <= x}
  OBVIOUS
<1>2. S \in SUBSET Nat /\ S \subseteq Spacings
  BY <1>1, DoubleAssumption
<1>3. 1 \in S
  <2>1. 1 \div 2 = 0 /\ Mantissa * 0 = 0 /\ 1 \in Spacings
    BY DoubleAssumption
  <2> QED
    BY <1>1, <2>1
<1>4. ASSUME NEW s \in S PROVE s <= 2 * x + 1
  <2>1. s \in Nat /\ s \div 2 \in Nat /\ s <= 2 * (s \div 2) + 1 /\ Mantissa \in Nat \ {0}
    BY <1>2, DoubleAssumption
  <2>2. PICK h \in Nat : h = s \div 2
    BY <2>1
  <2>3. h * 1 <= h * Mantissa
    BY <2>1, Times
  <2>4. h * Mantissa <= x
    <3>1. h * Mantissa = Mantissa * h
      BY <2>1
    <3> QED
      BY <1>1, <2>2, <3>1
  <2>5. h * Mantissa \in Nat
    BY <2>1
  <2> QED
    BY <2>1, <2>2, <2>3, <2>4, <2>5
<1>5. Max(S) \in S
  <2>1. 2 * x + 1 \in Nat
    OBVIOUS
  <2> QED
    BY <1>2, <1>3, <1>4, <2>1, LargestNumber
<1> QED
  BY <1>1, <1>5, DoubleAssumption DEF Spacing

\* Below Mantissa the spacing divides 1.0.
LEMMA SpacingDivides ==
  ASSUME NEW x \in Nat, x < Mantissa * One
  PROVE  \E k \in Nat \ {0} : One = k * Spacing(x)
PROOF
<1>1. PICK s \in Nat \ {0} : s = Spacing(x) /\ s \in Spacings /\ Mantissa * (s \div 2) <= x
  BY SpacingType
<1>2. One \in Nat \ {0} /\ One \in Spacings /\ Mantissa \in Nat \ {0}
  BY DoubleAssumption
<1>3. s <= One
  <2>1. SUFFICES ASSUME One < s PROVE FALSE
    BY <1>2
  <2>2. s % (2 * One) = 0
    BY <1>1, <1>2, <2>1, DoubleAssumption
  <2>3. s >= 2 * One
    BY <1>2, <2>1, <2>2
  <2>4. s \div 2 \in Nat /\ One <= s \div 2
    BY <1>2, <2>3
  <2>5. Mantissa * One <= Mantissa * (s \div 2)
    BY <1>2, <2>4, Times
  <2>6. Mantissa * One \in Nat /\ Mantissa * (s \div 2) \in Nat
    BY <1>2, <2>4
  <2> QED
    BY <1>1, <2>5, <2>6
<1>4. CASE s = One
  BY <1>1, <1>2, <1>4
<1>5. CASE s < One
  <2>1. One % (2 * s) = 0
    BY <1>1, <1>2, <1>5, DoubleAssumption
  <2>2. PICK j \in Nat : One = (2 * s) * j
    <3>1. PICK d \in Nat \ {0} : d = 2 * s
      OBVIOUS
    <3>2. One % d = One - d * (One \div d) /\ One \div d \in Nat
      BY <1>2, DivMod
    <3>3. PICK j \in Nat : j = One \div d
      BY <3>2
    <3>4. d * j \in Nat /\ One - d * j = 0
      BY <2>1, <3>1, <3>2, <3>3
    <3>5. One = d * j
      BY <1>2, <3>4
    <3> QED
      BY <3>1, <3>5
  <2>3. One = (2 * j) * s /\ 2 * j \in Nat
    BY <2>2
  <2>4. 2 * j # 0
    BY <1>2, <2>3
  <2> QED
    BY <1>1, <2>3, <2>4
<1> QED
  BY <1>2, <1>3, <1>4, <1>5

\* Rounding: the nearest double is a multiple q or q + 1 of the spacing s.
LEMMA NearestIs ==
  ASSUME NEW p \in Nat, NEW d \in Nat \ {0}
  PROVE  \E q \in Nat, r \in Nat, s \in Nat \ {0} :
           /\ s = Spacing(p \div d) /\ p \div d \in Nat
           /\ p = (d * s) * q + r /\ r < d * s
           /\ \/ Nearest(p, d) = q * s
              \/ Nearest(p, d) = (q + 1) * s /\ 2 * r >= d * s
PROOF
<1>1. p \div d \in Nat
  BY DivMod
<1>2. PICK s \in Nat \ {0} : s = Spacing(p \div d)
  BY <1>1, SpacingType
<1>3. PICK e \in Nat \ {0} : e = d * s
  <2>1. d * s \in Nat \ {0}
    OBVIOUS
  <2> QED
    BY <2>1
<1>4. PICK q \in Nat, r \in Nat : q = p \div e /\ r = p % e /\ r < e /\ p = e * q + r
  BY DivMod
<1>5. Nearest(p, d) = (IF 2 * r > e \/ (2 * r = e /\ q % 2 = 1) THEN q + 1 ELSE q) * s
  BY <1>2, <1>3, <1>4 DEF Nearest
<1>6. \/ Nearest(p, d) = q * s
      \/ Nearest(p, d) = (q + 1) * s /\ 2 * r >= e
  BY <1>3, <1>4, <1>5
<1> QED
  BY <1>1, <1>2, <1>3, <1>4, <1>6

\* A double is a natural number of units, and rounding keeps 0.
LEMMA NearestType ==
  ASSUME NEW p \in Nat, NEW d \in Nat \ {0}
  PROVE  Nearest(p, d) \in Nat /\ (p = 0 => Nearest(p, d) = 0)
PROOF
<1>1. PICK q \in Nat, r \in Nat, s \in Nat \ {0} :
        /\ p = (d * s) * q + r /\ r < d * s
        /\ \/ Nearest(p, d) = q * s
           \/ Nearest(p, d) = (q + 1) * s /\ 2 * r >= d * s
  BY NearestIs
<1>2. q * s \in Nat /\ (q + 1) * s \in Nat /\ d * s \in Nat \ {0} /\ (d * s) * q \in Nat
  OBVIOUS
<1>3. ASSUME p = 0 PROVE Nearest(p, d) = 0
  <2>1. r = 0 /\ (d * s) * q = 0
    BY <1>1, <1>2, <1>3
  <2>2. q = 0
    BY <1>2, <2>1
  <2>3. Nearest(p, d) = q * s
    BY <1>1, <1>2, <2>1
  <2> QED
    BY <2>2, <2>3
<1> QED
  BY <1>1, <1>2, <1>3

\* What is no more than an exact amount is not rounded above it.
LEMMA NearestBelow ==
  ASSUME NEW a \in Nat, a < Mantissa, NEW p \in Nat, NEW d \in Nat \ {0},
         p <= d * (a * One)
  PROVE  Nearest(p, d) <= a * One
PROOF
<1>1. PICK q \in Nat, r \in Nat, s \in Nat \ {0} :
        /\ s = Spacing(p \div d) /\ p \div d \in Nat
        /\ p = (d * s) * q + r /\ r < d * s
        /\ \/ Nearest(p, d) = q * s
           \/ Nearest(p, d) = (q + 1) * s /\ 2 * r >= d * s
  BY NearestIs
<1>2. One \in Nat \ {0} /\ Mantissa \in Nat \ {0} /\ a * One \in Nat
  <2>1. One \in Nat \ {0} /\ Mantissa \in Nat \ {0}
    BY DoubleAssumption
  <2> QED
    BY <2>1
<1>3. p \div d < Mantissa * One
  <2>1. PICK x \in Nat, y \in Nat : x = p \div d /\ y = a * One
    BY <1>1, <1>2
  <2>2. d * x <= p /\ d * x \in Nat /\ d * y \in Nat
    BY <2>1, Divided
  <2>3. x <= y
    BY <2>1, <2>2, Cancel
  <2>4. (a + 1) * One <= Mantissa * One /\ (a + 1) * One = a * One + One
    <3>1. One * (a + 1) <= One * Mantissa
      BY <1>2, Times
    <3> QED
      BY <1>2, <3>1
  <2>5. Mantissa * One \in Nat
    BY <1>2
  <2> QED
    BY <1>2, <2>1, <2>3, <2>4, <2>5
<1>4. PICK k \in Nat \ {0} : One = k * s
  BY <1>1, <1>3, SpacingDivides
<1>5. PICK y \in Nat : y = a * k
  <2>1. a * k \in Nat
    OBVIOUS
  <2> QED
    BY <2>1
<1>6. a * One = y * s /\ d * (a * One) = (d * s) * y
  <2>1. a * (k * s) = (a * k) * s
    OBVIOUS
  <2>2. d * (y * s) = (d * s) * y
    OBVIOUS
  <2> QED
    BY <1>4, <1>5, <2>1, <2>2
<1>7. PICK e \in Nat \ {0} : e = d * s
  <2>1. d * s \in Nat \ {0}
    OBVIOUS
  <2> QED
    BY <2>1
<1>8. e * q \in Nat /\ e * y \in Nat /\ e * q + r <= e * y
  <2>1. e * q \in Nat /\ e * y \in Nat
    OBVIOUS
  <2>2. p = e * q + r /\ p <= e * y
    BY <1>1, <1>6, <1>7
  <2> QED
    BY <2>1, <2>2
<1>9. q <= y
  BY <1>8, Cancel
<1>10. CASE q = y
  <2>1. r = 0
    BY <1>8, <1>10
  <2>2. Nearest(p, d) = q * s
    BY <1>1, <1>7, <2>1
  <2> QED
    BY <1>6, <1>10, <2>2
<1>11. CASE q < y
  <2>1. s * (q + 1) <= s * y /\ s * q <= s * y
    BY <1>11, Times
  <2>2. q * s = s * q /\ (q + 1) * s = s * (q + 1) /\ y * s = s * y
    OBVIOUS
  <2> QED
    BY <1>1, <1>6, <2>1, <2>2
<1> QED
  BY <1>9, <1>10, <1>11

\* An n-th of what is no more than an exact amount, rounded and truncated: n of
\* them are no more than the amount.
LEMMA Share ==
  ASSUME NEW a \in Nat, a < Mantissa, NEW n \in Nat \ {0}, n <= One,
         NEW x \in Nat, x <= a * One
  PROVE  (Nearest(x, n) \div One) * n <= a
PROOF
<1>1. PICK q \in Nat, r \in Nat, s \in Nat \ {0} :
        /\ s = Spacing(x \div n) /\ x \div n \in Nat
        /\ x = (n * s) * q + r /\ r < n * s
        /\ \/ Nearest(x, n) = q * s
           \/ Nearest(x, n) = (q + 1) * s /\ 2 * r >= n * s
  BY NearestIs
<1>2. PICK u \in Nat \ {0} : u = One /\ n <= u
  BY DoubleAssumption
<1>3. PICK m \in Nat \ {0} : m = Mantissa
  BY DoubleAssumption
<1>4. PICK e \in Nat \ {0} : e = n * s
  <2>1. n * s \in Nat \ {0}
    OBVIOUS
  <2> QED
    BY <2>1
\* The error is less than a whole amount.
<1>5. e < 2 * u
  <2>1. CASE s = 1
    BY <1>2, <1>4, <2>1
  <2>2. CASE s # 1
    <3>1. m * (s \div 2) <= x \div n /\ s \in Spacings
      BY <1>1, <1>3, SpacingType
    <3>2. s % 2 = 0
      BY <2>2, <3>1, DoubleAssumption
    <3>3. PICK h \in Nat \ {0} : s = 2 * h /\ h = s \div 2
      BY <3>2
    <3>4. PICK y \in Nat : y = x \div n /\ n * y <= x
      <4>1. n * (x \div n) <= x
        BY <1>1, Divided
      <4> QED
        BY <1>1, <4>1
    <3>5. n * (m * h) <= n * y /\ m * h \in Nat /\ n * (m * h) \in Nat /\ n * y \in Nat
      <4>1. m * h \in Nat /\ m * h <= y
        BY <3>1, <3>3, <3>4
      <4> QED
        BY <4>1, Times
    <3>6. a * u \in Nat /\ u * a < u * m /\ u * m \in Nat
      <4>1. u * (a + 1) <= u * m
        BY <1>3, Times
      <4>2. u * (a + 1) = u * a + u /\ u * a \in Nat /\ u * m \in Nat
        OBVIOUS
      <4> QED
        BY <4>1, <4>2
    <3>7. m * (n * h) < m * u
      <4>1. n * (m * h) = m * (n * h) /\ u * m = m * u /\ a * u = u * a
        OBVIOUS
      <4> QED
        BY <1>2, <3>4, <3>5, <3>6, <4>1
    <3>8. n * h < u
      BY <3>7, CancelLess
    <3>9. e = 2 * (n * h)
      BY <1>4, <3>3
    <3> QED
      BY <3>8, <3>9
  <2> QED
    BY <2>1, <2>2
<1>6. PICK z \in Nat : z = Nearest(x, n)
  BY NearestType
<1>7. 2 * (n * z) <= 2 * x + e
  <2>1. n * (q * s) = e * q /\ n * ((q + 1) * s) = e * q + e /\ e * q \in Nat
    <3>1. n * (q * s) = (n * s) * q /\ n * ((q + 1) * s) = (n * s) * q + n * s
      OBVIOUS
    <3> QED
      BY <1>4, <3>1
  <2>2. x = e * q + r /\ (z = q * s \/ (z = (q + 1) * s /\ 2 * r >= e))
    BY <1>1, <1>4, <1>6
  <2>3. CASE z = q * s
    BY <2>1, <2>2, <2>3
  <2>4. CASE z = (q + 1) * s /\ 2 * r >= e
    BY <2>1, <2>2, <2>4
  <2> QED
    BY <2>2, <2>3, <2>4
<1>8. PICK f \in Nat : f = z \div u /\ u * f <= z
  BY Divided
<1>9. u * (f * n) < u * (a + 1)
  <2>1. n * (u * f) <= n * z /\ n * (u * f) = u * (f * n) /\ n * z \in Nat
    <3>1. u * f \in Nat
      OBVIOUS
    <3>2. n * (u * f) <= n * z
      BY <1>8, <3>1, Times
    <3> QED
      BY <3>2
  <2>2. u * (a + 1) = a * u + u /\ a * u \in Nat
    OBVIOUS
  <2>3. n * z < x + u
    BY <1>5, <1>7, <2>1
  <2>4. x <= a * u
    BY <1>2
  <2>5. u * (f * n) \in Nat
    OBVIOUS
  <2> QED
    BY <2>1, <2>2, <2>3, <2>4, <2>5
<1>10. f * n < a + 1
  <2>1. f * n \in Nat
    OBVIOUS
  <2> QED
    BY <1>9, <2>1, CancelLess
<1>11. f * n \in Nat
  OBVIOUS
<1> QED
  BY <1>2, <1>6, <1>8, <1>10, <1>11

\* The fee of one token of a listing.
LEMMA FeeType ==
  ASSUME SupplyInv, NEW ask \in AskRow, NEW i \in DOMAIN dreams,
         dreams[i].type \in DOMAIN dreamstats
  PROVE  /\ Fee(ask, i) \in Nat
         /\ ask.amount < Mantissa => Fee(ask, i) * Len(ask.nft_ids) <= ask.amount
         /\ dreamstats[dreams[i].type].kind.split = 0 => Fee(ask, i) = 0
PROOF
<1>1. PICK k \in Kinds : k = dreamstats[dreams[i].type].kind
  BY DEF SupplyInv, RowInBounds, StatsRow
<1>2. PICK s \in 0..One : s = k.split
  BY DreamojiAssumption
<1>3. PICK a \in Nat : a = ask.amount
  BY DEF AskRow
<1>4. PICK n \in Nat \ {0} : n = Len(ask.nft_ids) /\ n <= One
  <2>1. ask.nft_ids \in Batches /\ One \in Nat /\ MaxBatch \in Nat /\ MaxBatch <= One
    BY DoubleAssumption, DreamojiAssumption DEF AskRow
  <2>2. Len(ask.nft_ids) \in Nat \ {0} /\ Len(ask.nft_ids) <= MaxBatch
    BY <2>1, BatchType
  <2> QED
    BY <2>1, <2>2
<1>5. PICK u \in Nat \ {0} : u = One
  BY DoubleAssumption
<1>6. s \in Nat /\ s <= u /\ a * u \in Nat
  BY <1>2, <1>5
<1>7. PICK x \in Nat : x = Nearest(a * u, 1)
  BY <1>6, NearestType
<1>8. x * s \in Nat
  BY <1>6
<1>9. PICK y \in Nat : y = Nearest(x * s, u) /\ (s = 0 => y = 0)
  <2>1. s = 0 => x * s = 0
    BY <1>6
  <2> QED
    BY <1>8, <2>1, NearestType
<1>10. PICK z \in Nat : z = Nearest(y, n) /\ (s = 0 => z = 0)
  BY <1>9, NearestType
<1>11. Fee(ask, i) = z \div u
  BY <1>1, <1>2, <1>3, <1>4, <1>5, <1>7, <1>9, <1>10 DEF Fee
<1>12. z \div u \in Nat /\ (z = 0 => z \div u = 0)
  OBVIOUS
<1>13. ASSUME a < Mantissa PROVE (z \div u) * n <= a
  <2>1. x <= a * u
    <3>1. a * u <= 1 * (a * u)
      BY <1>6
    <3> QED
      BY <1>5, <1>6, <1>7, <1>13, <3>1, NearestBelow
  <2>2. x * s <= u * (a * u)
    <3>1. x * s <= x * u
      BY <1>6, Times
    <3>2. u * x <= u * (a * u) /\ u * x = x * u /\ u * (a * u) \in Nat /\ x * u \in Nat
      BY <1>6, <2>1, Times
    <3> QED
      BY <1>8, <3>1, <3>2
  <2>3. y <= a * u
    BY <1>5, <1>8, <1>9, <1>13, <2>2, NearestBelow
  <2> QED
    BY <1>4, <1>5, <1>10, <1>13, <2>3, Share
<1> QED
  BY <1>1, <1>2, <1>3, <1>4, <1>10, <1>11, <1>12, <1>13

\* The partner of each token of a listing.
Partners(ask) == [k \in DOMAIN ask.nft_ids |->
                    dreamstats[dreams[ask.nft_ids[k]].type].kind.partner]

\* What _calcfees divides is the amount asked.
LEMMA AskAddsUp ==
  ASSUME SupplyInv, NEW ask \in AskRow, HasStats(ask)
  PROVE  /\ SumFunction([a \in Payees(ask) |-> Owed(ask, a)]) = ask.amount
         /\ ask.amount < Mantissa => \A a \in Payees(ask) : Owed(ask, a) >= 0
PROOF
<1>1. PICK ids \in Seq(NftIds) : ids = ask.nft_ids /\ Len(ids) \in Nat \ {0}
  BY BatchType DEF AskRow
<1>2. PICK n \in Nat \ {0} : n = Len(ids)
  BY <1>1
<1>3. PICK D : D = DOMAIN ids
  OBVIOUS
<1>4. D = 1..n
  BY <1>1, <1>2, <1>3
<1>5. IsFiniteSet(D) /\ Cardinality(D) = n
  BY <1>4, FS_Interval
<1>6. PICK f : f = Fees(ask)
  OBVIOUS
<1>7. DOMAIN f = D /\ \A k \in D : f[k] = Fee(ask, ids[k])
  BY <1>1, <1>3, <1>6 DEF Fees
<1>8. ASSUME NEW k \in D
      PROVE  /\ ids[k] \in ToSet(ids) /\ ids[k] \in DOMAIN dreams
             /\ dreams[ids[k]].type \in DOMAIN dreamstats
  BY <1>1, <1>3, <1>8 DEF HasStats, ToSet
<1>9. PICK amount \in Nat : amount = ask.amount
  BY DEF AskRow
<1>10. ASSUME NEW k \in D
       PROVE  /\ f[k] \in Nat /\ (amount < Mantissa => f[k] * n <= amount)
              /\ dreamstats[dreams[ids[k]].type].kind.split = 0 => f[k] = 0
  BY <1>1, <1>2, <1>7, <1>8, <1>9, <1>10, FeeType
<1>11. \A k \in D : f[k] \in Int
  BY <1>10
<1>12. PICK total \in Nat : total = SumOver(f, D)
  BY <1>5, <1>10, SumNat
<1>13. ASSUME amount < Mantissa PROVE total <= amount
  <2>1. SumOver(f, D) * n <= Cardinality(D) * amount
    BY <1>5, <1>10, <1>13, SumBound
  <2>2. n * total <= n * amount
    BY <1>5, <1>12, <2>1
  <2> QED
    BY <2>2, Cancel
<1>14. TotalFees(ask) = total
  BY <1>6, <1>7, <1>12 DEF TotalFees, SumFunction, SumOver
<1>15. PICK key : key = Partners(ask)
  OBVIOUS
<1>16. DOMAIN key = D /\ \A k \in D : key[k] = dreamstats[dreams[ids[k]].type].kind.partner
  BY <1>1, <1>3, <1>15 DEF Partners
<1>17. PICK A : A = Payees(ask)
  OBVIOUS
<1>18. PICK seller \in A : seller = ask.seller
  BY <1>17 DEF Payees
<1>19. /\ \A k \in D : key[k] \in A \/ f[k] = 0
       /\ \A a \in A : a = seller \/ \E k \in D : key[k] = a
  <2>1. ASSUME NEW k \in D, f[k] # 0 PROVE key[k] \in A
    <3>1. dreamstats[dreams[ids[k]].type].kind.split # 0 /\ ids[k] \in ToSet(ids)
      BY <1>8, <1>10, <2>1
    <3> QED
      BY <1>1, <1>16, <1>17, <3>1 DEF Payees
  <2>2. ASSUME NEW a \in A, a # seller PROVE \E k \in D : key[k] = a
    <3>1. PICK i \in ToSet(ids) : a = dreamstats[dreams[i].type].kind.partner
      BY <1>1, <1>17, <1>18, <2>2 DEF Payees
    <3>2. PICK k \in D : ids[k] = i
      BY <1>3, <3>1 DEF ToSet
    <3> QED
      BY <1>16, <3>1, <3>2
  <2> QED
    BY <2>1, <2>2
<1>20. IsFiniteSet(A)
  <2>1. PICK P : P = {key[k] : k \in D}
    OBVIOUS
  <2>2. key \in Surjection(D, P)
    <3>1. key = [k \in D |-> key[k]]
      BY <1>1, <1>3, <1>15 DEF Partners
    <3>2. key \in [D -> P] /\ \A a \in P : \E k \in D : key[k] = a
      BY <2>1, <3>1
    <3> QED
      BY <3>2 DEF Surjection
  <2>3. IsFiniteSet(P)
    BY <1>5, <2>2, FS_Surjection
  <2>4. IsFiniteSet(P \cup {seller})
    BY <2>3, FS_AddElement
  <2>5. A \in SUBSET (P \cup {seller})
    BY <1>19, <2>1
  <2> QED
    BY <2>4, <2>5, FS_Subset
<1>21. PICK p : p = Partials(f, D, key, A)
  OBVIOUS
<1>22. ASSUME NEW a \in A
       PROVE  /\ p[a] \in Nat
              /\ Owed(ask, a) = p[a] + (IF a = seller THEN amount - total ELSE 0)
  <2>1. PICK T : T = Keyed(D, key, a)
    OBVIOUS
  <2>2. T = {k \in DOMAIN ask.nft_ids : dreamstats[dreams[ask.nft_ids[k]].type].kind.partner = a}
    BY <1>1, <1>3, <1>16, <2>1 DEF Keyed
  <2>3. T \in SUBSET D /\ IsFiniteSet(T)
    BY <1>5, <2>1, FS_Subset DEF Keyed
  <2>4. p[a] = SumOver(f, T)
    BY <1>21, <2>1 DEF Partials
  <2>5. SumOver(f, T) \in Nat
    <3>1. \A k \in T : f[k] \in Nat
      BY <1>10, <2>3
    <3> QED
      BY <2>3, <3>1, SumNat
  <2>6. Owed(ask, a) = SumFunctionOnSet(Fees(ask), T)
                         + (IF a = ask.seller THEN ask.amount - TotalFees(ask) ELSE 0)
    BY <2>2 DEF Owed
  <2> QED
    BY <1>6, <1>9, <1>14, <1>18, <2>4, <2>5, <2>6 DEF SumOver
<1>23. PICK owed : owed = [a \in A |-> Owed(ask, a)]
  OBVIOUS
<1>24. SumOver(p, A) = total
  <2>1. PICK K : K = KeyedIn(D, key, A)
    OBVIOUS
  <2>2. K \in SUBSET D /\ \A k \in D \ K : f[k] = 0
    BY <1>19, <2>1 DEF KeyedIn
  <2>3. SumOver(f, K) = SumOver(f, D)
    BY <1>5, <1>11, <2>2, SumSupport
  <2>4. SumOver(p, A) = SumOver(f, K)
    BY <1>5, <1>11, <1>20, <1>21, <2>1, SumByKey
  <2> QED
    BY <1>12, <2>3, <2>4
<1>25. SumOver(owed, A) = SumOver(p, A) - p[seller] + owed[seller]
  <2>1. \A a \in A : p[a] \in Int /\ (a # seller => owed[a] = p[a])
    BY <1>22, <1>23
  <2>2. owed[seller] \in Int
    BY <1>9, <1>12, <1>18, <1>22, <1>23
  <2> QED
    BY <1>18, <1>20, <2>1, <2>2, SumChange
<1>26. owed[seller] = p[seller] + (amount - total) /\ p[seller] \in Nat
  BY <1>18, <1>22, <1>23
<1>27. SumOver(owed, A) = amount
  BY <1>24, <1>25, <1>26
<1>28. SumFunction(owed) = amount
  BY <1>23, <1>27 DEF SumFunction, SumOver
<1>29. ASSUME amount < Mantissa, NEW a \in A PROVE Owed(ask, a) >= 0
  <2>1. CASE a = seller
    BY <1>9, <1>12, <1>13, <1>22, <1>29, <2>1
  <2>2. CASE a # seller
    BY <1>22, <2>2
  <2> QED
    BY <2>1, <2>2
<1> QED
  BY <1>9, <1>17, <1>23, <1>28, <1>29

(***************************************************************************)
(* The shares of the partners and the seller of a listing add up to the    *)
(* amount asked, and none is negative when the amount is below Mantissa:   *)
(* for any precision of doubles, number of tokens and partners, and splits *)
(* of at most the whole, with the roundings of a product and a quotient of *)
(* doubles that _calcfees makes.                                           *)
(***************************************************************************)
THEOREM FeesAlwaysAddUp == Spec => []FeesAddUp
PROOF
<1>1. ASSUME ContractInv
      PROVE  FeesAddUp
  <2>1. SUFFICES ASSUME NEW b \in DOMAIN asks, HasStats(asks[b])
                 PROVE  /\ SumFunction([a \in Payees(asks[b]) |-> Owed(asks[b], a)]) = asks[b].amount
                        /\ asks[b].amount < Mantissa =>
                             \A a \in Payees(asks[b]) : Owed(asks[b], a) >= 0
    BY DEF FeesAddUp
  <2>2. asks[b] \in AskRow /\ SupplyInv
    BY <1>1 DEF ContractInv, TypeInv, AsksOK
  <2> QED
    BY <2>1, <2>2, AskAddsUp
<1>2. ContractInv => FeesAddUp
  BY <1>1
<1> QED
  BY <1>2, ContractHolds, PTL
=============================================================================

--------------------------- MODULE DeferredProofs ---------------------------
(***************************************************************************)
(* Four results about transactions for any accounts, permissions and       *)
(* transactions: permissions and links stay intact, a generated            *)
(* transaction is retired exactly once, the RAM of an account grows only   *)
(* within its limit, and the RAM kept for it is what it has in the tables. *)
(***************************************************************************)
EXTENDS Deferred, SumTheorems, FiniteSetTheorems, TLAPS

\* Permissions and links, and the features the second part depends on.
AuthOK(d) ==
  /\ DOMAIN d = Fields
  /\ Genesis.features \subseteq d.features
  /\ Rooted(d)
  /\ Active(Genesis, "only_link") => LinksResolve(d)

\* Generated transactions: ids are given in order, and each one given is
\* pending, or dropped, or has a receipt in r.
Pending(d, i) == \E g \in d.gtos : g.id = i

IdsOK(d, r) ==
  /\ d.next_id \in 1..(MaxGto + 1)
  /\ r \in [Ids -> Nat]
  /\ \A g \in d.gtos : g.id \in 1..(d.next_id - 1)
  /\ \A g, h \in d.gtos : g.id = h.id => g = h
  /\ d.dropped \subseteq 1..(d.next_id - 1)
  /\ \A i \in d.next_id..MaxGto : r[i] = 0
  /\ \A i \in 1..(d.next_id - 1) :
       \/ Pending(d, i) /\ i \notin d.dropped /\ r[i] = 0
       \/ ~ Pending(d, i) /\ i \in d.dropped /\ r[i] = 0
       \/ ~ Pending(d, i) /\ i \notin d.dropped /\ r[i] = 1

\* What neither of them is about may change.
SameAuth(d, e) ==
  /\ DOMAIN e = DOMAIN d
  /\ e.perms = d.perms /\ e.links = d.links /\ e.features = d.features

SameIds(d, e) ==
  e.gtos = d.gtos /\ e.next_id = d.next_id /\ e.dropped = d.dropped

Same(d, e) == SameAuth(d, e) /\ SameIds(d, e)

\* The invariant of a database and the receipts given so far.
OK(d, r) == AuthOK(d) /\ IdsOK(d, r)

\* Permissions stay intact when what they depend on stays.
LEMMA SameAuthKeeps ==
  ASSUME NEW d, NEW e, AuthOK(d), SameAuth(d, e)
  PROVE  AuthOK(e)
PROOF
  BY DEF AuthOK, SameAuth, Rooted, LinksResolve, Has, Active

\* Ids stay in order when the generated transactions stay.
LEMMA SameIdsKeeps ==
  ASSUME NEW d, NEW e, NEW r, IdsOK(d, r), SameIds(d, e)
  PROVE  IdsOK(e, r)
PROOF
  BY DEF IdsOK, SameIds, Pending

\* A change of neither keeps both.
LEMMA SameKeeps ==
  ASSUME NEW d, NEW e, NEW r, OK(d, r), Same(d, e)
  PROVE  OK(e, r)
PROOF
  BY SameAuthKeeps, SameIdsKeeps DEF OK, Same

------------------------------------------------------------------------------
(* RAM does not matter to either part.                                     *)

\* add_ram_usage touches RAM only,
LEMMA AddRamSame ==
  ASSUME NEW d, DOMAIN d = Fields, NEW a, NEW n, NEW e \in AddRam(d, a, n)
  PROVE  Same(d, e)
PROOF
  BY DEF AddRam, Same, SameAuth, SameIds, Fields

\* so it keeps both.
LEMMA AddRamKeeps ==
  ASSUME NEW d, NEW r, OK(d, r), NEW a, NEW n, NEW e \in AddRam(d, a, n)
  PROVE  OK(e, r)
PROOF
  BY AddRamSame, SameKeeps DEF OK, AuthOK

\* set_account_limits.
LEMMA SetLimitsKeeps ==
  ASSUME NEW d, NEW r, OK(d, r), NEW act, NEW e \in SetLimits(d, act)
  PROVE  OK(e, r)
PROOF
<1>1. Same(d, e)
  BY DEF SetLimits, Same, SameAuth, SameIds, Fields, OK, AuthOK
<1> QED
  BY <1>1, SameKeeps

\* process_account_limit_updates.
LEMMA ApplyLimitsKeeps ==
  ASSUME NEW d, NEW r, OK(d, r)
  PROVE  OK(ApplyLimits(d), r)
PROOF
<1>1. Same(d, ApplyLimits(d))
  BY DEF ApplyLimits, Same, SameAuth, SameIds, Fields, OK, AuthOK
<1> QED
  BY <1>1, SameKeeps

\* A transaction starts with no account to validate.
LEMMA ValidateKeeps ==
  ASSUME NEW d, NEW r, OK(d, r)
  PROVE  OK([d EXCEPT !.validate = {}], r)
PROOF
<1>1. Same(d, [d EXCEPT !.validate = {}])
  BY DEF Same, SameAuth, SameIds, Fields, OK, AuthOK
<1> QED
  BY <1>1, SameKeeps

\* A protocol feature is activated.
LEMMA ActivateKeeps ==
  ASSUME NEW d, NEW r, OK(d, r), NEW f
  PROVE  OK(Activate(d, f), r)
PROOF
<1> DEFINE e == [d EXCEPT !.features = @ \cup {f}]
<1>1. /\ DOMAIN e = Fields /\ e.perms = d.perms /\ e.links = d.links
      /\ e.features = d.features \cup {f} /\ SameIds(d, e)
  BY DEF SameIds, Fields, OK, AuthOK
<1>2. AuthOK(e)
  BY <1>1 DEF OK, AuthOK, Rooted, LinksResolve, Has
<1>3. OK(e, r)
  BY <1>1, <1>2, SameIdsKeeps DEF OK
<1>4. Same(e, Activate(d, f))
  BY <1>1 DEF Activate, Same, SameAuth, SameIds, Fields
<1> QED
  BY <1>3, <1>4, SameKeeps

------------------------------------------------------------------------------
(* The native actions change permissions and links, and nothing about      *)
(* generated transactions.                                                 *)

\* A database with other permissions or links in place of those of d.
LEMMA PermsKeeps ==
  ASSUME NEW d, NEW r, OK(d, r), NEW perms,
         Rooted([d EXCEPT !.perms = perms]),
         Active(Genesis, "only_link") => LinksResolve([d EXCEPT !.perms = perms])
  PROVE  OK([d EXCEPT !.perms = perms], r)
PROOF
<1>1. /\ DOMAIN [d EXCEPT !.perms = perms] = Fields
      /\ [d EXCEPT !.perms = perms].features = d.features
      /\ SameIds(d, [d EXCEPT !.perms = perms])
  BY DEF SameIds, Fields, OK, AuthOK
<1> QED
  BY <1>1, SameIdsKeeps DEF OK, AuthOK

\* Links may change to ones that resolve.
LEMMA LinksKeeps ==
  ASSUME NEW d, NEW r, OK(d, r), NEW links,
         Active(Genesis, "only_link") => LinksResolve([d EXCEPT !.links = links])
  PROVE  OK([d EXCEPT !.links = links], r)
PROOF
<1>1. /\ DOMAIN [d EXCEPT !.links = links] = Fields
      /\ [d EXCEPT !.links = links].features = d.features
      /\ [d EXCEPT !.links = links].perms = d.perms
      /\ SameIds(d, [d EXCEPT !.links = links])
  BY DEF SameIds, Fields, OK, AuthOK
<1>2. Rooted([d EXCEPT !.links = links])
  BY <1>1 DEF OK, AuthOK, Rooted, Has
<1> QED
  BY <1>1, <1>2, SameIdsKeeps DEF OK, AuthOK

\* Permissions are added or changed: links resolve as before.
LEMMA MorePerms ==
  ASSUME NEW d, NEW r, OK(d, r), NEW perms, DOMAIN d.perms \subseteq DOMAIN perms,
         \A k \in DOMAIN perms :
           \/ k \in DOMAIN d.perms /\ perms[k] = d.perms[k]
           \/ IF k[2] = "owner" THEN perms[k].parent = NoParent
              ELSE <<k[1], perms[k].parent>> \in DOMAIN perms
  PROVE  OK([d EXCEPT !.perms = perms], r)
PROOF
<1> DEFINE e == [d EXCEPT !.perms = perms]
<1>1. e.perms = perms /\ e.links = d.links
  BY DEF Fields, OK, AuthOK
<1>2. Rooted(e)
  BY <1>1 DEF Rooted, Has, OK, AuthOK
<1>3. Active(Genesis, "only_link") => LinksResolve(e)
  BY <1>1 DEF LinksResolve, Has, OK, AuthOK
<1> QED
  BY <1>2, <1>3, PermsKeeps

\* newaccount.
LEMMA NewAccountKeeps ==
  ASSUME NEW d, NEW r, OK(d, r), NEW act, NEW e \in NewAccount(d, act)
  PROVE  OK(e, r)
PROOF
<1> DEFINE owner == <<act.name, "owner">>
           active == <<act.name, "active">>
           perms == With(With(d.perms, owner, [parent |-> NoParent, size |-> act.size]),
                         active, [parent |-> "owner", size |-> act.size])
<1>1. /\ DOMAIN perms = DOMAIN d.perms \cup {owner, active}
      /\ perms[owner].parent = NoParent /\ perms[active].parent = "owner"
      /\ \A k \in DOMAIN d.perms \ {owner, active} : perms[k] = d.perms[k]
  BY DEF With
<1>2. OK([d EXCEPT !.perms = perms], r)
  <2> HIDE DEF perms
  <2> QED
    BY <1>1, MorePerms
<1>3. e \in AddRam([d EXCEPT !.perms = perms], act.name,
                   AccountBytes + 2 * (PermissionBytes + act.size))
  BY DEF NewAccount
<1> QED
  BY <1>2, <1>3, AddRamKeeps

\* updateauth: a permission keeps its parent.
LEMMA UpdateAuthKeeps ==
  ASSUME NEW d, NEW r, OK(d, r), NEW act, NEW e \in UpdateAuth(d, act)
  PROVE  OK(e, r)
PROOF
<1> DEFINE key == <<act.account, act.permission>>
           row == [parent |-> act.parent, size |-> act.size]
           perms == With(d.perms, key, row)
<1>1. /\ DOMAIN perms = DOMAIN d.perms \cup {key}
      /\ perms[key].parent = act.parent
      /\ \A k \in DOMAIN d.perms \ {key} : perms[k] = d.perms[k]
  BY DEF With
<1>2. IF act.permission = "owner" THEN act.parent = NoParent
      ELSE <<act.account, act.parent>> \in DOMAIN d.perms
  BY DEF UpdateAuth, Has
<1>3. OK([d EXCEPT !.perms = perms], r)
  <2> HIDE DEF perms
  <2> QED
    BY <1>1, <1>2, MorePerms
<1>4. PICK n : e \in AddRam([d EXCEPT !.perms = perms], act.account, n)
  BY DEF UpdateAuth
<1> QED
  BY <1>3, <1>4, AddRamKeeps

\* What is deleted is the parent of no permission and the target of no link.
LEMMA DeleteAuthKeeps ==
  ASSUME NEW d, NEW r, OK(d, r), NEW act, NEW e \in DeleteAuth(d, act)
  PROVE  OK(e, r)
PROOF
<1> DEFINE key == <<act.account, act.permission>>
           perms == Without(d.perms, key)
           new == [d EXCEPT !.perms = perms]
<1>1. /\ DOMAIN perms = DOMAIN d.perms \ {key}
      /\ \A k \in DOMAIN perms : perms[k] = d.perms[k]
  BY DEF Without
<1>2. new.perms = perms /\ new.links = d.links
  BY DEF Fields, OK, AuthOK
<1>3. /\ Children(d, act.account, act.permission) = {}
      /\ LinksTo(d, act.account, act.permission) = {}
  BY DEF DeleteAuth
<1> HIDE DEF perms
<1>4. Rooted(new)
  <2> SUFFICES ASSUME NEW k \in DOMAIN d.perms, k # key, k[2] # "owner"
               PROVE  <<k[1], d.perms[k].parent>> # key
    BY <1>1, <1>2 DEF Rooted, Has, OK, AuthOK
  <2> QED
    BY <1>3 DEF Children
<1>5. Active(Genesis, "only_link") => LinksResolve(new)
  <2> SUFFICES ASSUME NEW k \in DOMAIN d.links
               PROVE  <<k[1], d.links[k]>> # key
    BY <1>1, <1>2 DEF LinksResolve, Has, OK, AuthOK
  <2> QED
    BY <1>3 DEF LinksTo
<1>6. OK(new, r)
  BY <1>4, <1>5, PermsKeeps
<1>7. e \in AddRam(new, act.account, 0 - PermissionSize(d.perms[key]))
  BY DEF DeleteAuth, perms
<1> QED
  BY <1>6, <1>7, AddRamKeeps

\* linkauth: the permission exists.
LEMMA LinkAuthKeeps ==
  ASSUME NEW d, NEW r, OK(d, r), NEW act, NEW e \in LinkAuth(d, act)
  PROVE  OK(e, r)
PROOF
<1> DEFINE key == <<act.account, act.code, act.type>>
           links == With(d.links, key, act.requirement)
           new == [d EXCEPT !.links = links]
<1>1. /\ DOMAIN links = DOMAIN d.links \cup {key}
      /\ links[key] = act.requirement
      /\ \A k \in DOMAIN d.links \ {key} : links[k] = d.links[k]
  BY DEF With
<1>2. new.perms = d.perms /\ new.links = links
  BY DEF Fields, OK, AuthOK
<1>3. MayLinkTo(d, act.account, act.requirement)
  BY DEF LinkAuth
<1>4. Active(Genesis, "only_link") =>
        act.requirement = AnyPermission \/ Has(d, act.account, act.requirement)
  BY <1>3 DEF MayLinkTo, Active, OK, AuthOK
<1>5. e = new \/ e \in AddRam(new, act.account, LinkBytes)
  BY DEF LinkAuth
<1> HIDE DEF links
<1>6. Active(Genesis, "only_link") => LinksResolve(new)
  BY <1>1, <1>2, <1>4 DEF LinksResolve, Has, OK, AuthOK
<1>7. OK(new, r)
  BY <1>6, LinksKeeps
<1> QED
  BY <1>5, <1>7, AddRamKeeps

\* unlinkauth.
LEMMA UnlinkAuthKeeps ==
  ASSUME NEW d, NEW r, OK(d, r), NEW act, NEW e \in UnlinkAuth(d, act)
  PROVE  OK(e, r)
PROOF
<1> DEFINE key == <<act.account, act.code, act.type>>
           links == Without(d.links, key)
           new == [d EXCEPT !.links = links]
<1>1. /\ DOMAIN links \subseteq DOMAIN d.links
      /\ \A k \in DOMAIN links : links[k] = d.links[k]
  BY DEF Without
<1>2. new.perms = d.perms /\ new.links = links
  BY DEF Fields, OK, AuthOK
<1>3. e \in AddRam(new, act.account, 0 - LinkBytes)
  BY DEF UnlinkAuth
<1> HIDE DEF links
<1>4. Active(Genesis, "only_link") => LinksResolve(new)
  BY <1>1, <1>2 DEF LinksResolve, Has, OK, AuthOK
<1>5. OK(new, r)
  BY <1>4, LinksKeeps
<1> QED
  BY <1>3, <1>5, AddRamKeeps

------------------------------------------------------------------------------
(* Generated transactions: made, dropped, removed.                         *)

\* A generated transaction is removed: its id joins the retired ones.
LEMMA DropKeeps ==
  ASSUME NEW d, NEW r, OK(d, r), NEW g \in d.gtos
  PROVE  OK(Drop(d, g), r)
PROOF
<1> DEFINE e == Drop(d, g)
<1>1. /\ SameAuth(d, e) /\ e.next_id = d.next_id
      /\ e.gtos = d.gtos \ {g} /\ e.dropped = d.dropped \cup {g.id}
  BY DEF Drop, SameAuth, Fields, OK, AuthOK
<1> HIDE DEF e
<1>2. \A i : i # g.id => (Pending(e, i) <=> Pending(d, i))
  BY <1>1 DEF Pending
<1>3. Pending(d, g.id) /\ ~ Pending(e, g.id)
  BY <1>1 DEF Pending, OK, IdsOK
<1>4. IdsOK(e, r)
  BY <1>1, <1>2, <1>3 DEF OK, IdsOK
<1>5. AuthOK(e)
  BY <1>1, SameAuthKeeps DEF OK
<1> QED
  BY <1>4, <1>5 DEF OK, e

\* A generated transaction is stored with the next id.
LEMMA CreateKeeps ==
  ASSUME NEW d, NEW r, OK(d, r), NEW g, g.id = d.next_id, d.next_id <= MaxGto,
         NEW e \in Create(d, g)
  PROVE  OK(e, r)
PROOF
<1> DEFINE new == [d EXCEPT !.gtos = @ \cup {g}, !.next_id = @ + 1]
<1>1. /\ SameAuth(d, new) /\ new.dropped = d.dropped
      /\ new.gtos = d.gtos \cup {g} /\ new.next_id = d.next_id + 1
  BY DEF SameAuth, Fields, OK, AuthOK
<1>2. e \in AddRam(new, g.payer, Bytes(g))
  BY DEF Create
<1> HIDE DEF new
<1>3. MaxGto \in Nat /\ d.next_id \in Nat
  BY DeferredAssumption DEF OK, IdsOK
<1>4. \A i : i # g.id => (Pending(new, i) <=> Pending(d, i))
  BY <1>1 DEF Pending
<1>5. Pending(new, g.id) /\ g.id \notin d.dropped /\ r[g.id] = 0
  BY <1>1, <1>3 DEF Pending, OK, IdsOK
<1>6. IdsOK(new, r)
  <2>1. new.next_id \in 1..(MaxGto + 1)
    BY <1>1, <1>3 DEF OK, IdsOK
  <2>2. \A h \in new.gtos : h.id \in 1..(new.next_id - 1)
    BY <1>1, <1>3 DEF OK, IdsOK
  <2>3. \A h, k \in new.gtos : h.id = k.id => h = k
    BY <1>1, <1>3 DEF OK, IdsOK
  <2>4. new.dropped \subseteq 1..(new.next_id - 1)
    BY <1>1, <1>3 DEF OK, IdsOK
  <2>5. \A i \in new.next_id..MaxGto : r[i] = 0
    BY <1>1, <1>3 DEF OK, IdsOK
  <2>6. ASSUME NEW i \in 1..(new.next_id - 1)
        PROVE  \/ Pending(new, i) /\ i \notin new.dropped /\ r[i] = 0
               \/ ~ Pending(new, i) /\ i \in new.dropped /\ r[i] = 0
               \/ ~ Pending(new, i) /\ i \notin new.dropped /\ r[i] = 1
    <3>1. i = g.id \/ i \in 1..(d.next_id - 1)
      BY <1>1, <1>3
    <3> QED
      BY <1>1, <1>3, <1>4, <1>5, <3>1 DEF OK, IdsOK
  <2> QED
    BY <2>1, <2>2, <2>3, <2>4, <2>5, <2>6 DEF OK, IdsOK
<1>7. OK(new, r)
  BY <1>1, <1>6, SameAuthKeeps DEF OK
<1> QED
  BY <1>2, <1>7, AddRamKeeps

\* A delayed input transaction is stored.
LEMMA ScheduleDelayedKeeps ==
  ASSUME NEW d, NEW r, OK(d, r), NEW t, NEW trx, NEW e \in ScheduleDelayed(d, t, trx)
  PROVE  OK(e, r)
PROOF
<1> DEFINE id == [of |-> trx, nonce |-> d.next_id]
           g == Generated(d, t, trx, NoSender, id, trx.account, id)
<1>1. d.next_id <= MaxGto /\ e \in Create(d, g)
  BY DEF ScheduleDelayed, Room
<1>2. g.id = d.next_id
  BY DEF Generated
<1> QED
  BY <1>1, <1>2, CreateKeeps

\* A deferred transaction is replaced under its id.
LEMMA ReplaceKeeps ==
  ASSUME NEW d, NEW r, OK(d, r), NEW g \in d.gtos, NEW e \in Replace(d, g)
  PROVE  OK(e, r) /\ e.next_id = d.next_id
PROOF
<1> DEFINE f == Drop(d, g)
<1>1. OK(f, r) /\ f.next_id = d.next_id
  BY DropKeeps DEF Drop, Fields, OK, AuthOK
<1>2. \/ e \in AddRam(f, g.payer, 0 - Bytes(g))
      \/ e = [f EXCEPT !.correction[g.payer] = @ + Bytes(g)]
  BY DEF Replace
<1> HIDE DEF f
<1>3. Same(f, e)
  <2>1. CASE e \in AddRam(f, g.payer, 0 - Bytes(g))
    BY <1>1, <2>1, AddRamSame DEF OK, AuthOK
  <2>2. CASE e = [f EXCEPT !.correction[g.payer] = @ + Bytes(g)]
    BY <1>1, <2>2 DEF Same, SameAuth, SameIds, Fields, OK, AuthOK
  <2> QED
    BY <1>2, <2>1, <2>2
<1> QED
  BY <1>1, <1>3, SameKeeps DEF Same, SameIds

\* send_deferred, with and without replace_existing.
LEMMA ScheduleDeferredKeeps ==
  ASSUME NEW d, NEW r, OK(d, r), NEW t, NEW act, NEW e \in ScheduleDeferred(d, t, act)
  PROVE  OK(e, r)
PROOF
<1> DEFINE trx == act.trx
           old == {g \in d.gtos : g.sender = act.code /\ g.sender_id = act.sender_id}
           G(f, id) == Generated(f, t, trx, act.code, act.sender_id, act.payer, id)
<1>1. d.next_id <= MaxGto
  BY DEF ScheduleDeferred, Room
<1>2. \/ \E id : e \in Create(d, G(d, id))
      \/ \E g \in old : \E f \in Replace(d, g) : \E id : e \in Create(f, G(f, id))
  BY DEF ScheduleDeferred
<1>3. ASSUME NEW f, NEW id PROVE G(f, id).id = f.next_id
  BY DEF Generated
<1>4. ASSUME NEW f, NEW id, OK(f, r), f.next_id = d.next_id, e \in Create(f, G(f, id))
      PROVE  OK(e, r)
  <2> HIDE DEF G
  <2> QED
    BY <1>1, <1>3, <1>4, CreateKeeps
<1>5. ASSUME NEW g \in old, NEW f \in Replace(d, g)
      PROVE  OK(f, r) /\ f.next_id = d.next_id
  BY <1>5, ReplaceKeeps
<1> HIDE DEF G, old
<1> QED
  BY <1>2, <1>4, <1>5

\* cancel_deferred and canceldelay.
LEMMA CancelDeferredKeeps ==
  ASSUME NEW d, NEW r, OK(d, r), NEW found \in SUBSET d.gtos,
         NEW e \in CancelDeferred(d, found)
  PROVE  OK(e, r)
PROOF
<1>1. CASE e = d
  BY <1>1
<1>2. ASSUME NEW g \in found, e \in AddRam(Drop(d, g), g.payer, 0 - Bytes(g))
      PROVE  OK(e, r)
  BY <1>2, DropKeeps, AddRamKeeps
<1> QED
  BY <1>1, <1>2 DEF CancelDeferred

\* A transaction that succeeds, whatever its action.
LEMMA ExecuteKeeps ==
  ASSUME NEW d, NEW r, OK(d, r), NEW t, NEW trx, NEW e \in Execute(d, t, trx)
  PROVE  OK(e, r)
PROOF
<1> DEFINE f == [d EXCEPT !.validate = {}]
<1>1. OK(f, r)
  BY ValidateKeeps
<1>2. e \in Apply(f, t, trx)
  BY DEF Execute
<1> HIDE DEF f
<1> DEFINE mine == {g \in f.gtos : g.sender = trx.code /\ g.sender_id = trx.sender_id}
<1>3. Delayed(f, trx.of) \in SUBSET f.gtos /\ mine \in SUBSET f.gtos
  BY DEF Delayed
<1>4. \/ e \in NewAccount(f, trx) \/ e \in UpdateAuth(f, trx)
      \/ e \in DeleteAuth(f, trx) \/ e \in LinkAuth(f, trx)
      \/ e \in UnlinkAuth(f, trx) \/ e \in SetLimits(f, trx)
      \/ e \in CancelDeferred(f, Delayed(f, trx.of))
      \/ e \in ScheduleDeferred(f, t, trx) \/ e \in CancelDeferred(f, mine)
  BY <1>2 DEF Apply
<1> HIDE DEF mine
<1> QED
  BY <1>1, <1>3, <1>4, NewAccountKeeps, UpdateAuthKeeps, DeleteAuthKeeps,
     LinkAuthKeeps, UnlinkAuthKeeps, SetLimitsKeeps, CancelDeferredKeeps,
     ScheduleDeferredKeeps

------------------------------------------------------------------------------
(* The steps of the node.                                                  *)

Inv == OK(db, receipts)

\* A transaction that is removed gets its receipt.
LEMMA RemovedKeeps ==
  ASSUME Inv, NEW g \in db.gtos
  PROVE  OK(Removed(g), [receipts EXCEPT ![g.id] = @ + 1])
PROOF
<1> DEFINE e == Removed(g)
           r == [receipts EXCEPT ![g.id] = @ + 1]
<1>1. /\ SameAuth(db, e) /\ e.next_id = db.next_id
      /\ e.gtos = db.gtos \ {g} /\ e.dropped = db.dropped
  BY DEF Removed, SameAuth, Fields, Inv, OK, AuthOK
<1>2. MaxGto \in Nat /\ g.id \in Ids
  BY DeferredAssumption DEF Inv, OK, IdsOK, Ids
<1>3. /\ r \in [Ids -> Nat]
      /\ r[g.id] = receipts[g.id] + 1
      /\ \A i \in Ids : i # g.id => r[i] = receipts[i]
  BY <1>2 DEF Inv, OK, IdsOK
<1> HIDE DEF e, r
<1>4. \A i : i # g.id => (Pending(e, i) <=> Pending(db, i))
  BY <1>1 DEF Pending
<1>5. Pending(db, g.id) /\ ~ Pending(e, g.id)
  BY <1>1 DEF Pending, Inv, OK, IdsOK
<1>6. IdsOK(e, r)
  <2>1. \A i \in e.next_id..MaxGto : r[i] = 0
    BY <1>1, <1>2, <1>3 DEF Inv, OK, IdsOK, Ids
  <2>2. ASSUME NEW i \in 1..(e.next_id - 1)
        PROVE  \/ Pending(e, i) /\ i \notin e.dropped /\ r[i] = 0
               \/ ~ Pending(e, i) /\ i \in e.dropped /\ r[i] = 0
               \/ ~ Pending(e, i) /\ i \notin e.dropped /\ r[i] = 1
    BY <1>1, <1>2, <1>3, <1>4, <1>5 DEF Inv, OK, IdsOK, Ids
  <2> QED
    BY <1>1, <1>3, <2>1, <2>2 DEF Inv, OK, IdsOK
<1>7. AuthOK(e)
  BY <1>1, SameAuthKeeps DEF Inv, OK
<1> QED
  BY <1>6, <1>7 DEF OK, e, r

\* The genesis state is in order,
LEMMA InitKeeps ==
  ASSUME Init
  PROVE  Inv
PROOF
<1>1. AuthOK(db)
  BY DeferredAssumption DEF Init, AuthOK
<1>2. IdsOK(db, receipts)
  BY DeferredAssumption DEF Init, IdsOK, Ids, Pending
<1> QED
  BY <1>1, <1>2 DEF Inv, OK

\* every step keeps it so,
LEMMA NextKeeps ==
  ASSUME Inv, [Next]_vars
  PROVE  Inv'
PROOF
<1>1. ASSUME NEW trx, PushTransaction(trx)
      PROVE  Inv'
  <2>1. OK([db EXCEPT !.validate = {}], receipts)
    BY ValidateKeeps DEF Inv
  <2>2. \/ db' \in Execute(db, now, trx)
        \/ db' \in ScheduleDelayed([db EXCEPT !.validate = {}], now, trx)
    BY <1>1 DEF PushTransaction
  <2>3. OK(db', receipts)
    BY <2>1, <2>2, ExecuteKeeps, ScheduleDelayedKeeps DEF Inv
  <2> QED
    BY <1>1, <2>3 DEF PushTransaction, Inv
<1>2. ASSUME NEW g \in db.gtos, PushScheduled(g)
      PROVE  Inv'
  <2> DEFINE r == [receipts EXCEPT ![g.id] = @ + 1]
  <2>1. OK(Removed(g), r)
    BY RemovedKeeps
  <2>2. \/ UNCHANGED <<db, receipts>>
        \/ receipts' = r /\ (db' = Removed(g) \/ \E trx : db' \in Execute(Removed(g), now, trx))
    BY <1>2 DEF PushScheduled, Expire, Executed, SoftFail, HardFail, SubjectiveFail,
                Receipt, OnError
  <2> HIDE DEF r
  <2>3. CASE UNCHANGED <<db, receipts>>
    BY <2>3 DEF Inv
  <2>4. CASE receipts' = r /\ db' = Removed(g)
    BY <2>1, <2>4 DEF Inv
  <2>5. ASSUME NEW trx, receipts' = r, db' \in Execute(Removed(g), now, trx)
        PROVE  Inv'
    BY <2>1, <2>5, ExecuteKeeps DEF Inv
  <2> QED
    BY <2>2, <2>3, <2>4, <2>5
<1>3. CASE NextBlock
  <2>1. OK(ApplyLimits(db), receipts)
    BY ApplyLimitsKeeps DEF Inv
  <2>2. db' = ApplyLimits(db) \/ \E f : db' = Activate(ApplyLimits(db), f)
    BY <1>3 DEF NextBlock
  <2>3. OK(db', receipts)
    BY <2>1, <2>2, ActivateKeeps
  <2> QED
    BY <1>3, <2>3 DEF NextBlock, Inv
<1>4. CASE BlockExhausted \/ UNCHANGED vars
  BY <1>4 DEF BlockExhausted, vars, Inv
<1> QED
  BY <1>1, <1>2, <1>3, <1>4 DEF Next

\* and that is what the properties say.
LEMMA InvImplies ==
  ASSUME Inv
  PROVE  AuthorizationIntact /\ RetiredOnce
PROOF
<1>1. AuthorizationIntact
  BY DEF Inv, OK, AuthOK, AuthorizationIntact
<1>2. ASSUME NEW i \in 1..(db.next_id - 1)
      PROVE  Cardinality({g \in db.gtos : g.id = i}) + receipts[i]
               + (IF i \in db.dropped THEN 1 ELSE 0) = 1
  <2>1. CASE Pending(db, i)
    <3>1. PICK g \in db.gtos : g.id = i
      BY <2>1 DEF Pending
    <3>2. {h \in db.gtos : h.id = i} = {g}
      BY <3>1 DEF Inv, OK, IdsOK
    <3>3. Cardinality({h \in db.gtos : h.id = i}) = 1
      BY <3>2, FS_Singleton
    <3>4. i \notin db.dropped /\ receipts[i] = 0
      BY <2>1 DEF Inv, OK, IdsOK
    <3> QED
      BY <3>3, <3>4
  <2>2. CASE ~ Pending(db, i)
    <3>1. {h \in db.gtos : h.id = i} = {}
      BY <2>2 DEF Pending
    <3>2. Cardinality({h \in db.gtos : h.id = i}) = 0
      BY <3>1, FS_EmptySet
    <3>3. \/ i \in db.dropped /\ receipts[i] = 0
          \/ i \notin db.dropped /\ receipts[i] = 1
      BY <2>2 DEF Inv, OK, IdsOK
    <3> QED
      BY <3>2, <3>3
  <2> QED
    BY <2>1, <2>2
<1>3. RetiredOnce
  BY <1>2 DEF RetiredOnce
<1> QED
  BY <1>1, <1>3

\* Whatever transactions are pushed, in whatever order, every permission but
\* owner has a parent, and every link names a permission of its account if
\* the feature was active from the start: deleteauth and linkauth, whose
\* checks look at different indices, do not get past each other.
THEOREM AuthorizationStaysIntact == Spec => []AuthorizationIntact
PROOF
<1>1. Init => Inv
  BY InitKeeps
<1>2. Inv /\ [Next]_vars => Inv'
  BY NextKeeps
<1>3. Inv => AuthorizationIntact
  BY InvImplies
<1> QED
  BY <1>1, <1>2, <1>3, PTL DEF Spec

\* A deferred or delayed transaction is pending, dropped, or has exactly one
\* receipt, through retries, errors, error handlers that send it again,
\* replacement and cancellation.
THEOREM GeneratedRetiredOnce == Spec => []RetiredOnce
PROOF
<1>1. Init => Inv
  BY InitKeeps
<1>2. Inv /\ [Next]_vars => Inv'
  BY NextKeeps
<1>3. Inv => RetiredOnce
  BY InvImplies
<1> QED
  BY <1>1, <1>2, <1>3, PTL DEF Spec

------------------------------------------------------------------------------
(* RAM: the types of what it is computed from, and who is charged.         *)

RamTypeOK(d) ==
  /\ DOMAIN d = Fields
  /\ d.ram \in [Accounts -> Nat] /\ d.correction \in [Accounts -> Nat]
  /\ d.limits \in [Accounts -> Int] /\ d.pending \in [Accounts -> Int]
  /\ \A k \in DOMAIN d.perms : d.perms[k].size \in Nat
  /\ \A g \in d.gtos : g.trx \in Contents

\* From d to e in one transaction: an account with more RAM will be verified.
Billed(d, e) ==
  /\ RamTypeOK(e)
  /\ d.validate \subseteq e.validate
  /\ \A a \in Accounts : e.ram[a] <= d.ram[a] \/ a \in e.validate

\* Two changes in turn.
LEMMA BilledInTurn ==
  ASSUME NEW d, NEW e, NEW f, RamTypeOK(d), Billed(d, e), Billed(e, f)
  PROVE  Billed(d, f)
PROOF
<1>1. ASSUME NEW a \in Accounts PROVE f.ram[a] <= d.ram[a] \/ a \in f.validate
  <2>1. f.ram[a] \in Nat /\ e.ram[a] \in Nat /\ d.ram[a] \in Nat
    BY DEF Billed, RamTypeOK
  <2> QED
    BY <2>1 DEF Billed
<1> QED
  BY <1>1 DEF Billed

\* A change of anything but RAM bills nobody.
LEMMA SameRamBilled ==
  ASSUME NEW d, NEW e, RamTypeOK(d), RamTypeOK(e), e.ram = d.ram, e.validate = d.validate
  PROVE  Billed(d, e)
PROOF
  BY DEF Billed, RamTypeOK

\* add_ram_usage has the account validated.
LEMMA AddRamBilled ==
  ASSUME NEW d, RamTypeOK(d), NEW a, NEW n \in Int, NEW e \in AddRam(d, a, n)
  PROVE  Billed(d, e)
PROOF
<1>1. /\ ~ d.ram[a] + n < 0
      /\ e = [d EXCEPT !.ram[a] = @ + n, !.validate = IF n > 0 THEN @ \cup {a} ELSE @]
  BY DEF AddRam
<1>2. /\ DOMAIN e = Fields
      /\ e.ram = [d.ram EXCEPT ![a] = @ + n]
      /\ e.validate = IF n > 0 THEN d.validate \cup {a} ELSE d.validate
      /\ e.correction = d.correction /\ e.limits = d.limits /\ e.pending = d.pending
      /\ e.perms = d.perms /\ e.gtos = d.gtos
  BY <1>1 DEF RamTypeOK, Fields
<1>3. e.ram \in [Accounts -> Nat]
  <2>1. d.ram \in [Accounts -> Nat]
    BY DEF RamTypeOK
  <2>2. CASE a \in Accounts
    <3>1. d.ram[a] \in Nat
      BY <2>1, <2>2
    <3>2. d.ram[a] + n \in Nat
      BY <1>1, <3>1
    <3> QED
      BY <1>2, <2>1, <2>2, <3>2
  <2>3. CASE a \notin Accounts
    BY <1>2, <2>1, <2>3
  <2> QED
    BY <2>2, <2>3
<1>4. RamTypeOK(e)
  BY <1>2, <1>3 DEF RamTypeOK
<1>5. ASSUME NEW b \in Accounts PROVE e.ram[b] <= d.ram[b] \/ b \in e.validate
  BY <1>2 DEF RamTypeOK
<1> QED
  BY <1>2, <1>4, <1>5 DEF Billed

\* A database with other permissions, links or pending limits in place of d's.
LEMMA PermsBilled ==
  ASSUME NEW d, RamTypeOK(d), NEW perms, \A k \in DOMAIN perms : perms[k].size \in Nat
  PROVE  /\ RamTypeOK([d EXCEPT !.perms = perms])
         /\ Billed(d, [d EXCEPT !.perms = perms])
PROOF
<1>1. PICK e : e = [d EXCEPT !.perms = perms]
  OBVIOUS
<1>2. /\ DOMAIN e = Fields /\ e.perms = perms /\ e.ram = d.ram /\ e.validate = d.validate
      /\ e.correction = d.correction /\ e.limits = d.limits /\ e.pending = d.pending
      /\ e.gtos = d.gtos
  BY <1>1 DEF RamTypeOK, Fields
<1>3. RamTypeOK(e)
  BY <1>2 DEF RamTypeOK
<1> QED
  BY <1>1, <1>2, <1>3, SameRamBilled

\* Links alone change no RAM.
LEMMA LinksBilled ==
  ASSUME NEW d, RamTypeOK(d), NEW links
  PROVE  /\ RamTypeOK([d EXCEPT !.links = links])
         /\ Billed(d, [d EXCEPT !.links = links])
PROOF
<1>1. PICK e : e = [d EXCEPT !.links = links]
  OBVIOUS
<1>2. /\ DOMAIN e = Fields /\ e.perms = d.perms /\ e.ram = d.ram /\ e.validate = d.validate
      /\ e.correction = d.correction /\ e.limits = d.limits /\ e.pending = d.pending
      /\ e.gtos = d.gtos
  BY <1>1 DEF RamTypeOK, Fields
<1>3. RamTypeOK(e)
  BY <1>2 DEF RamTypeOK
<1> QED
  BY <1>1, <1>2, <1>3, SameRamBilled

\* set_account_limits: what is used stays.
LEMMA SetLimitsBilled ==
  ASSUME NEW d, RamTypeOK(d), NEW act, act.ram \in Int, NEW e \in SetLimits(d, act)
  PROVE  Billed(d, e)
PROOF
<1>1. e = [d EXCEPT !.pending[act.target] = act.ram]
  BY DEF SetLimits
<1>2. /\ DOMAIN e = Fields /\ e.perms = d.perms /\ e.ram = d.ram /\ e.validate = d.validate
      /\ e.correction = d.correction /\ e.limits = d.limits /\ e.gtos = d.gtos
      /\ e.pending = [d.pending EXCEPT ![act.target] = act.ram]
  BY <1>1 DEF RamTypeOK, Fields
<1>3. RamTypeOK(e)
  BY <1>2 DEF RamTypeOK
<1> QED
  BY <1>2, <1>3, SameRamBilled

------------------------------------------------------------------------------
(* The actions bill those who come to have more.                           *)

\* newaccount.
LEMMA NewAccountBilled ==
  ASSUME NEW d, RamTypeOK(d), NEW act, act.size \in Nat, NEW e \in NewAccount(d, act)
  PROVE  Billed(d, e)
PROOF
<1> DEFINE perms == With(With(d.perms,
                       <<act.name, "owner">>, [parent |-> NoParent, size |-> act.size]),
                       <<act.name, "active">>, [parent |-> "owner", size |-> act.size])
           n == AccountBytes + 2 * (PermissionBytes + act.size)
<1>1. e \in AddRam([d EXCEPT !.perms = perms], act.name, n)
  BY DEF NewAccount
<1>2. n \in Int
  BY AuthorizationAssumption
<1>3. \A k \in DOMAIN perms : perms[k].size \in Nat
  BY DEF With, RamTypeOK
<1> HIDE DEF perms, n
<1> QED
  BY <1>1, <1>2, <1>3, PermsBilled, AddRamBilled, BilledInTurn

\* updateauth.
LEMMA UpdateAuthBilled ==
  ASSUME NEW d, RamTypeOK(d), NEW act, act.size \in Nat, NEW e \in UpdateAuth(d, act)
  PROVE  Billed(d, e)
PROOF
<1> DEFINE key == <<act.account, act.permission>>
           row == [parent |-> act.parent, size |-> act.size]
           perms == With(d.perms, key, row)
           n == PermissionSize(row)
                  - IF key \in DOMAIN d.perms THEN PermissionSize(d.perms[key]) ELSE 0
<1>1. e \in AddRam([d EXCEPT !.perms = perms], act.account, n)
  BY DEF UpdateAuth
<1>2. n \in Int
  BY AuthorizationAssumption DEF PermissionSize, RamTypeOK
<1>3. \A k \in DOMAIN perms : perms[k].size \in Nat
  BY DEF With, RamTypeOK
<1> HIDE DEF perms, n
<1> QED
  BY <1>1, <1>2, <1>3, PermsBilled, AddRamBilled, BilledInTurn

\* deleteauth.
LEMMA DeleteAuthBilled ==
  ASSUME NEW d, RamTypeOK(d), NEW act, NEW e \in DeleteAuth(d, act)
  PROVE  Billed(d, e)
PROOF
<1> DEFINE key == <<act.account, act.permission>>
           perms == Without(d.perms, key)
           n == 0 - PermissionSize(d.perms[key])
<1>1. key \in DOMAIN d.perms /\ e \in AddRam([d EXCEPT !.perms = perms], act.account, n)
  BY DEF DeleteAuth
<1>2. n \in Int
  BY <1>1, AuthorizationAssumption DEF PermissionSize, RamTypeOK
<1>3. \A k \in DOMAIN perms : perms[k].size \in Nat
  BY DEF Without, RamTypeOK
<1> HIDE DEF perms, n
<1> QED
  BY <1>1, <1>2, <1>3, PermsBilled, AddRamBilled, BilledInTurn

\* linkauth and unlinkauth.
LEMMA LinkActionsBilled ==
  ASSUME NEW d, RamTypeOK(d), NEW act, NEW e \in LinkAuth(d, act) \cup UnlinkAuth(d, act)
  PROVE  Billed(d, e)
PROOF
<1>1. \E links :
        \/ e = [d EXCEPT !.links = links]
        \/ e \in AddRam([d EXCEPT !.links = links], act.account, LinkBytes)
        \/ e \in AddRam([d EXCEPT !.links = links], act.account, 0 - LinkBytes)
  BY DEF LinkAuth, UnlinkAuth
<1>2. LinkBytes \in Int /\ 0 - LinkBytes \in Int
  BY AuthorizationAssumption
<1> QED
  BY <1>1, <1>2, LinksBilled, AddRamBilled, BilledInTurn

\* A generated transaction takes RAM.
LEMMA BytesIsNat ==
  ASSUME NEW g, g.trx \in Contents
  PROVE  Bytes(g) \in Nat
PROOF
  BY DeferredAssumption, ContentsAssumption DEF Bytes

\* A generated transaction is stored, at the cost of its payer.
LEMMA CreateBilled ==
  ASSUME NEW d, RamTypeOK(d), NEW g, g.trx \in Contents, NEW e \in Create(d, g)
  PROVE  Billed(d, e)
PROOF
<1>1. PICK f : f = [d EXCEPT !.gtos = @ \cup {g}, !.next_id = @ + 1]
  OBVIOUS
<1>2. e \in AddRam(f, g.payer, Bytes(g))
  BY <1>1 DEF Create
<1>3. /\ DOMAIN f = Fields /\ f.perms = d.perms /\ f.ram = d.ram /\ f.validate = d.validate
      /\ f.correction = d.correction /\ f.limits = d.limits /\ f.pending = d.pending
      /\ f.gtos = d.gtos \cup {g}
  BY <1>1 DEF RamTypeOK, Fields
<1>4. RamTypeOK(f)
  BY <1>3 DEF RamTypeOK
<1>5. Billed(d, f)
  BY <1>3, <1>4, SameRamBilled
<1>6. Billed(f, e)
  BY <1>2, <1>4, BytesIsNat, AddRamBilled
<1> QED
  BY <1>5, <1>6, BilledInTurn

\* A generated transaction is removed, and its payer refunded.
LEMMA DropBilled ==
  ASSUME NEW d, RamTypeOK(d), NEW g \in d.gtos
  PROVE  RamTypeOK(Drop(d, g)) /\ Billed(d, Drop(d, g))
PROOF
<1>1. PICK f : f = Drop(d, g)
  OBVIOUS
<1>2. /\ DOMAIN f = Fields /\ f.perms = d.perms /\ f.ram = d.ram /\ f.validate = d.validate
      /\ f.correction = d.correction /\ f.limits = d.limits /\ f.pending = d.pending
      /\ f.gtos = d.gtos \ {g}
  BY <1>1 DEF Drop, RamTypeOK, Fields
<1>3. RamTypeOK(f)
  BY <1>2 DEF RamTypeOK
<1> QED
  BY <1>1, <1>2, <1>3, SameRamBilled

\* The RAM of a dropped transaction is given back, now or with the correction.
LEMMA DroppedBilled ==
  ASSUME NEW d, RamTypeOK(d), NEW g \in d.gtos,
         NEW e \in Replace(d, g) \cup AddRam(Drop(d, g), g.payer, 0 - Bytes(g))
  PROVE  Billed(d, e)
PROOF
<1>1. PICK f : f = Drop(d, g)
  OBVIOUS
<1>2. RamTypeOK(f) /\ Billed(d, f)
  BY <1>1, DropBilled
<1>3. Bytes(g) \in Nat
  BY BytesIsNat DEF RamTypeOK
<1>4. CASE e \in AddRam(f, g.payer, 0 - Bytes(g))
  BY <1>2, <1>3, <1>4, AddRamBilled, BilledInTurn
<1>5. CASE e = [f EXCEPT !.correction[g.payer] = @ + Bytes(g)]
  <2>1. /\ DOMAIN e = Fields /\ e.perms = f.perms /\ e.ram = f.ram /\ e.validate = f.validate
        /\ e.limits = f.limits /\ e.pending = f.pending /\ e.gtos = f.gtos
        /\ e.correction = [f.correction EXCEPT ![g.payer] = @ + Bytes(g)]
    BY <1>2, <1>5 DEF RamTypeOK, Fields
  <2>2. e.correction \in [Accounts -> Nat]
    <3>1. f.correction \in [Accounts -> Nat]
      BY <1>2 DEF RamTypeOK
    <3>2. CASE g.payer \in Accounts
      <4>1. f.correction[g.payer] + Bytes(g) \in Nat
        BY <1>3, <3>1, <3>2
      <4> QED
        BY <2>1, <3>1, <3>2, <4>1
    <3>3. CASE g.payer \notin Accounts
      BY <2>1, <3>1, <3>3
    <3> QED
      BY <3>2, <3>3
  <2>3. RamTypeOK(e)
    BY <1>2, <2>1, <2>2 DEF RamTypeOK
  <2> QED
    BY <1>2, <2>1, <2>3, SameRamBilled, BilledInTurn
<1> QED
  BY <1>1, <1>4, <1>5 DEF Replace

\* A delayed input transaction.
LEMMA ScheduleDelayedBilled ==
  ASSUME NEW d, RamTypeOK(d), NEW t, NEW trx \in Contents, NEW e \in ScheduleDelayed(d, t, trx)
  PROVE  Billed(d, e)
PROOF
<1>1. PICK g : e \in Create(d, g) /\ g.trx = trx
  BY DEF ScheduleDelayed, Generated
<1> QED
  BY <1>1, CreateBilled

\* send_deferred.
LEMMA ScheduleDeferredBilled ==
  ASSUME NEW d, RamTypeOK(d), NEW t, NEW act, act.trx \in Contents,
         NEW e \in ScheduleDeferred(d, t, act)
  PROVE  Billed(d, e)
PROOF
<1> DEFINE old == {g \in d.gtos : g.sender = act.code /\ g.sender_id = act.sender_id}
           G(f, id) == Generated(f, t, act.trx, act.code, act.sender_id, act.payer, id)
<1>1. \/ \E id : e \in Create(d, G(d, id))
      \/ \E g \in old : \E f \in Replace(d, g) : \E id : e \in Create(f, G(f, id))
  BY DEF ScheduleDeferred
<1>2. ASSUME NEW f, NEW id PROVE G(f, id).trx \in Contents
  BY DEF Generated
<1>3. ASSUME NEW f, NEW id, RamTypeOK(f), e \in Create(f, G(f, id))
      PROVE  Billed(f, e)
  <2> HIDE DEF G
  <2> QED
    BY <1>2, <1>3, CreateBilled
<1>4. ASSUME NEW g \in old, NEW f \in Replace(d, g)
      PROVE  Billed(d, f) /\ RamTypeOK(f)
  BY <1>4, DroppedBilled DEF Billed
<1> HIDE DEF G, old
<1> QED
  BY <1>1, <1>3, <1>4, BilledInTurn

\* cancel_deferred and canceldelay.
LEMMA CancelDeferredBilled ==
  ASSUME NEW d, RamTypeOK(d), NEW found \in SUBSET d.gtos, NEW e \in CancelDeferred(d, found)
  PROVE  Billed(d, e)
PROOF
<1>1. CASE e = d
  BY <1>1, SameRamBilled
<1>2. ASSUME NEW g \in found, e \in AddRam(Drop(d, g), g.payer, 0 - Bytes(g))
      PROVE  Billed(d, e)
  BY <1>2, DroppedBilled
<1> QED
  BY <1>1, <1>2 DEF CancelDeferred

\* What a transaction context promises: whoever has more RAM after it than before
\* has been verified.
Verified(d, e) ==
  /\ RamTypeOK(e)
  /\ RamVerified(e)
  /\ \A a \in Accounts : e.ram[a] <= d.ram[a] \/ a \in e.validate

\* finalize verifies the accounts that grew.
LEMMA ValidateBilled ==
  ASSUME NEW d, RamTypeOK(d), NEW e, Billed([d EXCEPT !.validate = {}], e), RamVerified(e)
  PROVE  Verified(d, e)
PROOF
<1>1. [d EXCEPT !.validate = {}].ram = d.ram
  BY DEF RamTypeOK, Fields
<1> QED
  BY <1>1 DEF Verified, Billed

\* The list of accounts to validate is emptied.
LEMMA EmptyValidateTypeOK ==
  ASSUME NEW d, RamTypeOK(d)
  PROVE  RamTypeOK([d EXCEPT !.validate = {}])
PROOF
<1>1. PICK f : f = [d EXCEPT !.validate = {}]
  OBVIOUS
<1>2. /\ DOMAIN f = Fields /\ f.perms = d.perms /\ f.ram = d.ram /\ f.gtos = d.gtos
      /\ f.correction = d.correction /\ f.limits = d.limits /\ f.pending = d.pending
  BY <1>1 DEF RamTypeOK, Fields
<1> QED
  BY <1>1, <1>2 DEF RamTypeOK

\* A transaction that succeeds leaves verified accounts.
LEMMA ExecuteVerified ==
  ASSUME NEW d, RamTypeOK(d), NEW t, NEW trx,
         trx \in Contents \/ (trx.op = "send" /\ trx.trx \in Contents),
         NEW e \in Execute(d, t, trx)
  PROVE  Verified(d, e)
PROOF
<1>1. PICK f : f = [d EXCEPT !.validate = {}]
  OBVIOUS
<1>2. RamTypeOK(f)
  BY <1>1, EmptyValidateTypeOK
<1>3. e \in Apply(f, t, trx) /\ RamVerified(e)
  BY <1>1 DEF Execute
<1>4. /\ trx.op \in {"newaccount", "updateauth"} => trx.size \in Nat
      /\ trx.op = "setlimits" => trx.ram \in Int
      /\ trx.op = "send" => trx.trx \in Contents
  BY ContentsAssumption
<1> DEFINE mine == {g \in f.gtos : g.sender = trx.code /\ g.sender_id = trx.sender_id}
<1>5. Delayed(f, trx.of) \in SUBSET f.gtos /\ mine \in SUBSET f.gtos
  BY DEF Delayed
<1>6. \/ trx.op = "newaccount" /\ e \in NewAccount(f, trx)
      \/ trx.op = "updateauth" /\ e \in UpdateAuth(f, trx)
      \/ e \in DeleteAuth(f, trx) \/ e \in LinkAuth(f, trx)
      \/ e \in UnlinkAuth(f, trx)
      \/ trx.op = "setlimits" /\ e \in SetLimits(f, trx)
      \/ e \in CancelDeferred(f, Delayed(f, trx.of))
      \/ trx.op = "send" /\ e \in ScheduleDeferred(f, t, trx)
      \/ e \in CancelDeferred(f, mine)
  BY <1>3 DEF Apply
<1> HIDE DEF mine
<1>7. Billed(f, e)
  BY <1>2, <1>4, <1>5, <1>6, NewAccountBilled, UpdateAuthBilled, DeleteAuthBilled,
     LinkActionsBilled, SetLimitsBilled, CancelDeferredBilled, ScheduleDeferredBilled
<1> QED
  BY <1>1, <1>3, <1>7, ValidateBilled

\* A scheduled transaction is removed: its payer has less RAM.
LEMMA RemovedBilled ==
  ASSUME RamTypeOK(db), NEW g \in db.gtos, db.ram[g.payer] >= Bytes(g)
  PROVE  /\ RamTypeOK(Removed(g))
         /\ \A a \in Accounts : Removed(g).ram[a] <= db.ram[a]
PROOF
<1>1. PICK f : f = Removed(g)
  OBVIOUS
<1>2. /\ DOMAIN f = Fields /\ f.perms = db.perms /\ f.gtos = db.gtos \ {g}
      /\ f.correction = db.correction /\ f.limits = db.limits /\ f.pending = db.pending
      /\ f.ram = [db.ram EXCEPT ![g.payer] = @ - Bytes(g)]
  BY <1>1 DEF Removed, RamTypeOK, Fields
<1>3. Bytes(g) \in Nat /\ db.ram \in [Accounts -> Nat]
  BY BytesIsNat DEF RamTypeOK
<1>4. f.ram \in [Accounts -> Nat] /\ \A a \in Accounts : f.ram[a] <= db.ram[a]
  <2>1. CASE g.payer \in Accounts
    <3>1. db.ram[g.payer] \in Nat
      BY <1>3, <2>1
    <3>2. db.ram[g.payer] - Bytes(g) \in Nat /\ db.ram[g.payer] - Bytes(g) <= db.ram[g.payer]
      BY <1>3, <3>1
    <3> QED
      BY <1>2, <1>3, <2>1, <3>2
  <2>2. CASE g.payer \notin Accounts
    <3>1. f.ram = db.ram
      BY <1>2, <1>3, <2>2
    <3>2. \A a \in Accounts : db.ram[a] \in Nat
      BY <1>3
    <3> QED
      BY <1>3, <3>1, <3>2
  <2> QED
    BY <2>1, <2>2
<1> QED
  BY <1>1, <1>2, <1>4 DEF RamTypeOK

\* The next block: limits take effect, RAM only shrinks by the corrections.
LEMMA NextBlockBilled ==
  ASSUME RamTypeOK(db), NextBlock
  PROVE  RamTypeOK(db') /\ \A a \in Accounts : db'.ram[a] <= db.ram[a]
PROOF
<1>1. PICK d : d = ApplyLimits(db)
  OBVIOUS
<1>2. /\ DOMAIN d = Fields /\ d.perms = db.perms /\ d.gtos = db.gtos
      /\ d.correction = db.correction /\ d.ram = db.ram
      /\ d.limits = [a \in Accounts |-> Limit(db, a)]
      /\ d.pending = [a \in Accounts |-> Unset]
  BY <1>1 DEF ApplyLimits, RamTypeOK, Fields
<1>3. /\ d.limits \in [Accounts -> Int] /\ d.pending \in [Accounts -> Int]
  BY <1>2 DEF Limit, Unset, RamTypeOK
<1>4. RamTypeOK(d)
  BY <1>2, <1>3 DEF RamTypeOK
<1>5. db' = d \/ \E f : db' = Activate(d, f)
  BY <1>1 DEF NextBlock
<1>6. CASE db' = d
  BY <1>2, <1>4, <1>6 DEF RamTypeOK
<1>7. ASSUME NEW f, db' = Activate(d, f)
      PROVE  RamTypeOK(db') /\ \A a \in Accounts : db'.ram[a] <= db.ram[a]
  <2>1. PICK e : e = [d EXCEPT !.features = @ \cup {f}]
    OBVIOUS
  <2>2. /\ DOMAIN e = Fields /\ e.perms = d.perms /\ e.ram = d.ram /\ e.gtos = d.gtos
        /\ e.correction = d.correction /\ e.limits = d.limits /\ e.pending = d.pending
    BY <1>4, <2>1 DEF RamTypeOK, Fields
  <2>3. CASE db' = e
    BY <1>2, <1>4, <2>2, <2>3 DEF RamTypeOK
  <2>4. CASE db' = [e EXCEPT !.ram = [a \in Accounts |-> Max({0, @[a] - d.correction[a]})],
                             !.correction = [a \in Accounts |-> 0]]
    <3>1. /\ DOMAIN db' = Fields /\ db'.perms = d.perms /\ db'.gtos = d.gtos
          /\ db'.ram = [a \in Accounts |-> Max({0, d.ram[a] - d.correction[a]})]
          /\ db'.correction = [a \in Accounts |-> 0]
          /\ db'.limits = d.limits /\ db'.pending = d.pending
      BY <2>2, <2>4 DEF Fields
    <3>2. ASSUME NEW a \in Accounts
          PROVE  /\ Max({0, d.ram[a] - d.correction[a]}) \in Nat
                 /\ Max({0, d.ram[a] - d.correction[a]}) <= d.ram[a]
      <4>1. PICK n : n = d.ram[a] - d.correction[a]
        OBVIOUS
      <4>2. n \in Int /\ n <= d.ram[a] /\ d.ram[a] \in Nat
        BY <1>4, <4>1 DEF RamTypeOK
      <4>3. Max({0, n}) \in {0, n} /\ Max({0, n}) >= 0
        BY <4>2 DEF Max
      <4> QED
        BY <4>1, <4>2, <4>3
    <3>3. db'.ram \in [Accounts -> Nat] /\ \A a \in Accounts : db'.ram[a] <= db.ram[a]
      BY <1>2, <3>1, <3>2
    <3> QED
      BY <1>4, <3>1, <3>3 DEF RamTypeOK
  <2> QED
    BY <1>7, <2>1, <2>3, <2>4 DEF Activate
<1> QED
  BY <1>5, <1>6, <1>7

\* A step of the node keeps the types, and verifies whoever has more RAM.
LEMMA StepVerified ==
  ASSUME RamTypeOK(db), [Next]_vars
  PROVE  /\ RamTypeOK(db')
         /\ \/ \A a \in Accounts : db'.ram[a] <= db.ram[a]
            \/ Verified(db, db')
PROOF
<1>1. ASSUME NEW trx \in Trxs, PushTransaction(trx)
      PROVE  Verified(db, db')
  <2>1. trx \in Contents
    BY DEF Contents
  <2>2. CASE db' \in Execute(db, now, trx)
    BY <2>1, <2>2, ExecuteVerified
  <2>3. CASE /\ db' \in ScheduleDelayed([db EXCEPT !.validate = {}], now, trx)
             /\ RamVerified(db')
    BY <2>1, <2>3, EmptyValidateTypeOK, ScheduleDelayedBilled, ValidateBilled
  <2> QED
    BY <1>1, <2>2, <2>3 DEF PushTransaction
<1>2. ASSUME NEW g \in db.gtos, PushScheduled(g)
      PROVE  \/ RamTypeOK(db') /\ \A a \in Accounts : db'.ram[a] <= db.ram[a]
             \/ Verified(db, db')
  <2>1. PICK d : d = Removed(g)
    OBVIOUS
  <2>2. RamTypeOK(d) /\ \A a \in Accounts : d.ram[a] <= db.ram[a]
    BY <1>2, <2>1, RemovedBilled DEF PushScheduled
  <2>3. g.trx \in Contents
    BY DEF RamTypeOK
  <2>4. \/ UNCHANGED db
        \/ db' = d
        \/ \E trx : /\ trx \in Contents \/ (trx.op = "send" /\ trx.trx \in Contents)
                    /\ db' \in Execute(d, now, trx)
    BY <1>2, <2>1, <2>3 DEF PushScheduled, Expire, Executed, SoftFail, HardFail,
         SubjectiveFail, OnError
  <2>5. CASE UNCHANGED db
    BY <2>5 DEF RamTypeOK
  <2>6. CASE db' = d
    BY <2>2, <2>6
  <2>7. ASSUME NEW trx, trx \in Contents \/ (trx.op = "send" /\ trx.trx \in Contents),
               db' \in Execute(d, now, trx)
        PROVE  Verified(db, db')
    <3>1. Verified(d, db')
      BY <2>2, <2>7, ExecuteVerified
    <3>2. ASSUME NEW a \in Accounts PROVE db'.ram[a] <= db.ram[a] \/ a \in db'.validate
      <4>1. db'.ram[a] \in Nat /\ d.ram[a] \in Nat /\ db.ram[a] \in Nat
        BY <2>2, <3>1 DEF Verified, RamTypeOK
      <4> QED
        BY <2>2, <3>1, <4>1 DEF Verified
    <3> QED
      BY <3>1, <3>2 DEF Verified
  <2> QED
    BY <2>4, <2>5, <2>6, <2>7
<1>3. CASE BlockExhausted \/ UNCHANGED vars
  BY <1>3 DEF BlockExhausted, vars, RamTypeOK
<1> QED
  BY <1>1, <1>2, <1>3, NextBlockBilled DEF Next, Verified

\* Whatever transactions are pushed, and whatever the scheduled ones and their
\* error handlers do, an account whose RAM grows in a step is within its limit
\* after it: add_ram_usage notes every account that is charged, also one that is
\* given RAM back in the same transaction, and what is removed without being
\* verified never adds to anyone's usage.
THEOREM RamGrowsWithinLimit == Spec => GrowthWithinLimit
PROOF
<1>1. Init => RamTypeOK(db)
  BY DeferredAssumption, GenesisAssumption DEF Init, RamTypeOK
<1>2. RamTypeOK(db) /\ [Next]_vars => RamTypeOK(db)'
  BY StepVerified
<1>3. ASSUME RamTypeOK(db), [Next]_vars, NEW a \in Accounts, db'.ram[a] > db.ram[a]
      PROVE  Limit(db', a) < 0 \/ db'.ram[a] <= Limit(db', a)
  <2>1. RamTypeOK(db')
    BY <1>3, StepVerified
  <2>2. db'.ram[a] \in Nat /\ db.ram[a] \in Nat /\ Limit(db', a) \in Int
    BY <1>3, <2>1 DEF RamTypeOK, Limit
  <2>3. a \in db'.validate /\ RamVerified(db')
    BY <1>3, <2>2, StepVerified DEF Verified
  <2> QED
    BY <2>2, <2>3 DEF RamVerified
<1>4. RamTypeOK(db) /\ [Next]_vars =>
        [\A a \in Accounts : db'.ram[a] > db.ram[a] =>
           Limit(db', a) < 0 \/ db'.ram[a] <= Limit(db', a)]_vars
  BY <1>3
<1> QED
  BY <1>1, <1>2, <1>4, PTL DEF Spec, GrowthWithinLimit

------------------------------------------------------------------------------
(* RAM: what is kept for an account is what it has.                        *)

PermTotal(perms, a) ==
  SumOver([k \in DOMAIN perms |-> PermissionSize(perms[k])], {k \in DOMAIN perms : k[1] = a})
LinkCount(links, a) == Cardinality({k \in DOMAIN links : k[1] = a})
GtoTotal(gtos, a) == SumOver([g \in gtos |-> Bytes(g)], {g \in gtos : g.payer = a})
OfAccount(d, a) == IF Exists(d, a) THEN AccountBytes ELSE 0

\* The tables are finite, and an account with permissions has an owner.
Tables(d) ==
  /\ IsFiniteSet(DOMAIN d.perms) /\ IsFiniteSet(DOMAIN d.links) /\ IsFiniteSet(d.gtos)
  /\ \A k \in DOMAIN d.perms : Exists(d, k[1])

LimitTotal(d) == Sum([a \in Accounts |-> Positive(d.limits[a])])

Accounted(d) ==
  /\ Tables(d)
  /\ \A a \in Accounts \ Unbilled : d.ram[a] = Stored(d, a) + d.correction[a]
  /\ d.total = LimitTotal(d)

\* A sum as the model writes it.
LEMMA SumIsOver ==
  ASSUME NEW S, IsFiniteSet(S), NEW f, NEW h, DOMAIN h = S, \A x \in S : h[x] = f[x]
  PROVE  Sum(h) = SumOver(f, S)
PROOF
<1>1. Sum(h) = SumOver(h, S)
  BY DEF Sum, SumFunction, SumOver
<1> QED
  BY <1>1, SumAgree

\* The RAM of permissions is a number,
LEMMA PermTotalType ==
  ASSUME NEW perms, IsFiniteSet(DOMAIN perms), \A k \in DOMAIN perms : perms[k].size \in Nat,
         NEW a
  PROVE  PermTotal(perms, a) \in Nat
PROOF
<1>1. PICK f : f = [k \in DOMAIN perms |-> PermissionSize(perms[k])]
  OBVIOUS
<1>2. PICK S : S = {k \in DOMAIN perms : k[1] = a}
  OBVIOUS
<1>3. IsFiniteSet(S)
  BY <1>2, FS_Subset
<1>4. \A x \in S : f[x] \in Nat
  BY <1>1, <1>2, AuthorizationAssumption DEF PermissionSize
<1> QED
  BY <1>1, <1>2, <1>3, <1>4, SumNat DEF PermTotal

\* and so is that of generated transactions.
LEMMA GtoTotalType ==
  ASSUME NEW gtos, IsFiniteSet(gtos), \A g \in gtos : g.trx \in Contents, NEW a
  PROVE  GtoTotal(gtos, a) \in Nat
PROOF
<1>1. PICK f : f = [g \in gtos |-> Bytes(g)]
  OBVIOUS
<1>2. PICK S : S = {g \in gtos : g.payer = a}
  OBVIOUS
<1>3. IsFiniteSet(S)
  BY <1>2, FS_Subset
<1>4. \A x \in S : f[x] \in Nat
  BY <1>1, <1>2, BytesIsNat
<1> QED
  BY <1>1, <1>2, <1>3, <1>4, SumNat DEF GtoTotal

\* What an account has, part by part.
LEMMA StoredIs ==
  ASSUME NEW d, RamTypeOK(d), Tables(d), NEW a
  PROVE  /\ Stored(d, a) = OfAccount(d, a) + PermTotal(d.perms, a)
                             + LinkBytes * LinkCount(d.links, a) + GtoTotal(d.gtos, a)
         /\ OfAccount(d, a) \in Nat /\ PermTotal(d.perms, a) \in Nat
         /\ LinkCount(d.links, a) \in Nat /\ GtoTotal(d.gtos, a) \in Nat
         /\ LinkBytes * LinkCount(d.links, a) \in Nat
         /\ Stored(d, a) \in Nat
PROOF
<1>1. OfAccount(d, a) \in Nat
  BY AuthorizationAssumption DEF OfAccount
<1>2. PermTotal(d.perms, a) \in Nat
  BY PermTotalType DEF RamTypeOK, Tables
<1>3. GtoTotal(d.gtos, a) \in Nat
  BY GtoTotalType DEF RamTypeOK, Tables
<1>4. LinkCount(d.links, a) \in Nat
  <2>1. IsFiniteSet({k \in DOMAIN d.links : k[1] = a})
    BY FS_Subset DEF Tables
  <2> QED
    BY <2>1, FS_CardinalityType DEF LinkCount
<1>5. LinkBytes * LinkCount(d.links, a) \in Nat
  BY <1>4, AuthorizationAssumption
<1>6. Sum([k \in {k \in DOMAIN d.perms : k[1] = a} |-> PermissionSize(d.perms[k])])
        = PermTotal(d.perms, a)
  <2>1. PICK S : S = {k \in DOMAIN d.perms : k[1] = a}
    OBVIOUS
  <2>2. PICK f : f = [k \in DOMAIN d.perms |-> PermissionSize(d.perms[k])]
    OBVIOUS
  <2>3. PICK h : h = [k \in S |-> PermissionSize(d.perms[k])]
    OBVIOUS
  <2>4. IsFiniteSet(S) /\ DOMAIN h = S /\ \A k \in S : h[k] = f[k]
    BY <2>1, <2>2, <2>3, FS_Subset DEF Tables
  <2>5. Sum(h) = SumOver(f, S)
    BY <2>4, SumIsOver
  <2> QED
    BY <2>1, <2>2, <2>3, <2>5 DEF PermTotal
<1>7. Sum([g \in {g \in d.gtos : g.payer = a} |-> Bytes(g)]) = GtoTotal(d.gtos, a)
  <2>1. PICK S : S = {g \in d.gtos : g.payer = a}
    OBVIOUS
  <2>2. PICK f : f = [g \in d.gtos |-> Bytes(g)]
    OBVIOUS
  <2>3. PICK h : h = [g \in S |-> Bytes(g)]
    OBVIOUS
  <2>4. IsFiniteSet(S) /\ DOMAIN h = S /\ \A k \in S : h[k] = f[k]
    BY <2>1, <2>2, <2>3, FS_Subset DEF Tables
  <2>5. Sum(h) = SumOver(f, S)
    BY <2>4, SumIsOver
  <2> QED
    BY <2>1, <2>2, <2>3, <2>5 DEF GtoTotal
<1>8. Stored(d, a) = OfAccount(d, a) + PermTotal(d.perms, a)
                       + LinkBytes * LinkCount(d.links, a) + GtoTotal(d.gtos, a)
  BY <1>6, <1>7 DEF Stored, OfAccount, LinkCount
<1> QED
  BY <1>1, <1>2, <1>3, <1>4, <1>5, <1>8

\* A permission is made or changed.
LEMMA PermWritten ==
  ASSUME NEW perms, IsFiniteSet(DOMAIN perms), \A k \in DOMAIN perms : perms[k].size \in Nat,
         NEW key, NEW row, row.size \in Nat, NEW a
  PROVE  PermTotal(With(perms, key, row), a) = PermTotal(perms, a) +
           IF key[1] = a
           THEN PermissionSize(row)
                - IF key \in DOMAIN perms THEN PermissionSize(perms[key]) ELSE 0
           ELSE 0
PROOF
<1>1. PICK new : new = With(perms, key, row)
  OBVIOUS
<1>2. /\ DOMAIN new = DOMAIN perms \cup {key} /\ new[key] = row
      /\ \A k \in DOMAIN perms : k # key => new[k] = perms[k]
  BY <1>1 DEF With
<1>3. PICK f : f = [k \in DOMAIN perms |-> PermissionSize(perms[k])]
  OBVIOUS
<1>4. PICK h : h = [k \in DOMAIN new |-> PermissionSize(new[k])]
  OBVIOUS
<1>5. PICK S : S = {k \in DOMAIN perms : k[1] = a}
  OBVIOUS
<1>6. PICK T : T = {k \in DOMAIN new : k[1] = a}
  OBVIOUS
<1>7. PermTotal(perms, a) = SumOver(f, S) /\ PermTotal(new, a) = SumOver(h, T)
  BY <1>3, <1>4, <1>5, <1>6 DEF PermTotal
<1>8. IsFiniteSet(S)
  BY <1>5, FS_Subset
<1>9. /\ \A x \in S : f[x] \in Int /\ (x # key => h[x] = f[x])
      /\ h[key] = PermissionSize(row) /\ h[key] \in Int
  BY <1>2, <1>3, <1>4, <1>5, AuthorizationAssumption DEF PermissionSize
<1>10. SumOver(f, S) \in Int
  BY <1>8, <1>9, SumType
<1>11. CASE key[1] # a
  <2>1. T = S /\ \A x \in S : h[x] = f[x]
    BY <1>2, <1>5, <1>6, <1>9, <1>11
  <2>2. SumOver(h, T) = SumOver(f, S)
    BY <1>8, <2>1, SumAgree
  <2> QED
    BY <1>1, <1>7, <1>10, <1>11, <2>2
<1>12. CASE key[1] = a /\ key \in DOMAIN perms
  <2>1. T = S /\ key \in S /\ f[key] = PermissionSize(perms[key])
    BY <1>2, <1>3, <1>5, <1>6, <1>12
  <2>2. SumOver(h, S) = SumOver(f, S) - f[key] + h[key]
    BY <1>8, <1>9, <2>1, SumChange
  <2>3. f[key] \in Int
    BY <1>9, <2>1
  <2> QED
    BY <1>1, <1>7, <1>9, <1>10, <1>12, <2>1, <2>2, <2>3
<1>13. CASE key[1] = a /\ key \notin DOMAIN perms
  <2>1. T = S \cup {key} /\ key \notin S /\ \A x \in S : h[x] = f[x]
    BY <1>2, <1>5, <1>6, <1>9, <1>13
  <2>2. SumOver(h, S) = SumOver(f, S)
    BY <1>8, <2>1, SumAgree
  <2>3. SumOver(h, S \cup {key}) = h[key] + SumOver(h, S)
    <3>1. \A x \in S : h[x] \in Int
      BY <1>9, <2>1
    <3> QED
      BY <1>8, <1>9, <2>1, <3>1, SumMore
  <2> QED
    BY <1>1, <1>7, <1>9, <1>10, <1>13, <2>1, <2>2, <2>3
<1> QED
  BY <1>11, <1>12, <1>13

\* A permission is removed.
LEMMA PermRemoved ==
  ASSUME NEW perms, IsFiniteSet(DOMAIN perms), \A k \in DOMAIN perms : perms[k].size \in Nat,
         NEW key \in DOMAIN perms, NEW a
  PROVE  PermTotal(Without(perms, key), a) = PermTotal(perms, a) +
           IF key[1] = a THEN 0 - PermissionSize(perms[key]) ELSE 0
PROOF
<1>1. PICK new : new = Without(perms, key)
  OBVIOUS
<1>2. DOMAIN new = DOMAIN perms \ {key} /\ \A k \in DOMAIN new : new[k] = perms[k]
  BY <1>1 DEF Without
<1>3. PICK f : f = [k \in DOMAIN perms |-> PermissionSize(perms[k])]
  OBVIOUS
<1>4. PICK h : h = [k \in DOMAIN new |-> PermissionSize(new[k])]
  OBVIOUS
<1>5. PICK S : S = {k \in DOMAIN perms : k[1] = a}
  OBVIOUS
<1>6. PICK T : T = {k \in DOMAIN new : k[1] = a}
  OBVIOUS
<1>7. PermTotal(perms, a) = SumOver(f, S) /\ PermTotal(new, a) = SumOver(h, T)
  BY <1>3, <1>4, <1>5, <1>6 DEF PermTotal
<1>8. IsFiniteSet(S) /\ IsFiniteSet(T) /\ T = S \ {key}
  BY <1>2, <1>5, <1>6, FS_Subset
<1>9. /\ \A x \in S : f[x] \in Int
      /\ \A x \in T : h[x] = f[x]
  BY <1>2, <1>3, <1>4, <1>5, <1>6, AuthorizationAssumption DEF PermissionSize
<1>10. SumOver(f, S) \in Int /\ SumOver(h, T) = SumOver(f, T) /\ SumOver(f, T) \in Int
  <2>1. \A x \in T : f[x] \in Int
    BY <1>8, <1>9
  <2> QED
    BY <1>8, <1>9, <2>1, SumType, SumAgree
<1>11. CASE key[1] # a
  <2>1. T = S
    BY <1>5, <1>8, <1>11
  <2> QED
    BY <1>1, <1>7, <1>10, <1>11, <2>1
<1>12. CASE key[1] = a
  <2>1. key \in S /\ f[key] = PermissionSize(perms[key])
    BY <1>3, <1>5, <1>12
  <2>2. SumOver(f, S) = f[key] + SumOver(f, S \ {key})
    BY <1>8, <1>9, <2>1, SumTake
  <2>3. f[key] \in Int
    BY <1>9, <2>1
  <2> QED
    BY <1>1, <1>7, <1>8, <1>10, <1>12, <2>1, <2>2, <2>3
<1> QED
  BY <1>11, <1>12

\* Links.
LEMMA LinkWritten ==
  ASSUME NEW links, IsFiniteSet(DOMAIN links), NEW key, NEW v, NEW a
  PROVE  LinkCount(With(links, key, v), a) = LinkCount(links, a) +
           IF key[1] = a /\ key \notin DOMAIN links THEN 1 ELSE 0
PROOF
<1>1. PICK S : S = {k \in DOMAIN links : k[1] = a}
  OBVIOUS
<1>2. PICK T : T = {k \in DOMAIN With(links, key, v) : k[1] = a}
  OBVIOUS
<1>0. LinkCount(links, a) = Cardinality(S) /\ LinkCount(With(links, key, v), a) = Cardinality(T)
  BY <1>1, <1>2 DEF LinkCount
<1>3. IsFiniteSet(S)
  BY <1>1, FS_Subset
<1>4. Cardinality(S) \in Nat
  BY <1>3, FS_CardinalityType
<1>5. CASE key[1] = a /\ key \notin DOMAIN links
  <2>1. T = S \cup {key} /\ key \notin S
    BY <1>1, <1>2, <1>5 DEF With
  <2>2. Cardinality(T) = Cardinality(S) + 1
    BY <1>3, <2>1, FS_AddElement
  <2> QED
    BY <1>0, <1>5, <2>2, <1>4
<1>6. CASE ~ (key[1] = a /\ key \notin DOMAIN links)
  <2>1. T = S
    BY <1>1, <1>2, <1>6 DEF With
  <2> QED
    BY <1>0, <1>4, <1>6, <2>1
<1> QED
  BY <1>5, <1>6

\* A link less.
LEMMA LinkRemoved ==
  ASSUME NEW links, IsFiniteSet(DOMAIN links), NEW key \in DOMAIN links, NEW a
  PROVE  LinkCount(Without(links, key), a) =
           LinkCount(links, a) - IF key[1] = a THEN 1 ELSE 0
PROOF
<1>1. PICK S : S = {k \in DOMAIN links : k[1] = a}
  OBVIOUS
<1>2. PICK T : T = {k \in DOMAIN Without(links, key) : k[1] = a}
  OBVIOUS
<1>0. LinkCount(links, a) = Cardinality(S) /\ LinkCount(Without(links, key), a) = Cardinality(T)
  BY <1>1, <1>2 DEF LinkCount
<1>3. IsFiniteSet(S)
  BY <1>1, FS_Subset
<1>4. Cardinality(S) \in Nat
  BY <1>3, FS_CardinalityType
<1>5. T = S \ {key}
  BY <1>1, <1>2 DEF Without
<1>6. CASE key[1] = a
  <2>1. Cardinality(T) = Cardinality(S) - 1
    BY <1>1, <1>3, <1>5, <1>6, FS_RemoveElement
  <2> QED
    BY <1>0, <1>6, <2>1, <1>4
<1>7. CASE key[1] # a
  <2>1. T = S
    BY <1>1, <1>5, <1>7
  <2> QED
    BY <1>0, <1>4, <1>7, <2>1
<1> QED
  BY <1>6, <1>7

\* Generated transactions.
LEMMA GtoRemoved ==
  ASSUME NEW gtos, IsFiniteSet(gtos), \A g \in gtos : g.trx \in Contents,
         NEW g \in gtos, NEW a
  PROVE  GtoTotal(gtos \ {g}, a) = GtoTotal(gtos, a) + IF g.payer = a THEN 0 - Bytes(g) ELSE 0
PROOF
<1>1. PICK f : f = [h \in gtos |-> Bytes(h)]
  OBVIOUS
<1>2. PICK e : e = [h \in gtos \ {g} |-> Bytes(h)]
  OBVIOUS
<1>3. PICK S : S = {h \in gtos : h.payer = a}
  OBVIOUS
<1>4. PICK T : T = {h \in gtos \ {g} : h.payer = a}
  OBVIOUS
<1>5. GtoTotal(gtos, a) = SumOver(f, S) /\ GtoTotal(gtos \ {g}, a) = SumOver(e, T)
  BY <1>1, <1>2, <1>3, <1>4 DEF GtoTotal
<1>6. IsFiniteSet(S) /\ IsFiniteSet(T) /\ T = S \ {g}
  BY <1>3, <1>4, FS_Subset
<1>7. (\A x \in S : f[x] \in Int) /\ (\A x \in T : e[x] = f[x] /\ f[x] \in Int)
  <2>1. \A x \in gtos : Bytes(x) \in Nat
    BY BytesIsNat
  <2> QED
    BY <1>1, <1>2, <1>3, <1>4, <2>1
<1>8. SumOver(e, T) = SumOver(f, T) /\ SumOver(f, T) \in Int
  BY <1>6, <1>7, SumAgree, SumType
<1>9. CASE g.payer # a
  <2>1. T = S
    BY <1>3, <1>6, <1>9
  <2> QED
    BY <1>5, <1>8, <1>9, <2>1
<1>10. CASE g.payer = a
  <2>1. g \in S /\ f[g] = Bytes(g)
    BY <1>1, <1>3, <1>10
  <2>2. SumOver(f, S) = f[g] + SumOver(f, S \ {g})
    BY <1>6, <1>7, <2>1, SumTake
  <2>3. f[g] \in Int
    BY <1>7, <2>1
  <2> QED
    BY <1>5, <1>6, <1>8, <1>10, <2>1, <2>2, <2>3
<1> QED
  BY <1>9, <1>10

\* A generated transaction more.
LEMMA GtoAdded ==
  ASSUME NEW gtos, IsFiniteSet(gtos), \A g \in gtos : g.trx \in Contents,
         NEW g, g \notin gtos, g.trx \in Contents, NEW a
  PROVE  GtoTotal(gtos \cup {g}, a) = GtoTotal(gtos, a) + IF g.payer = a THEN Bytes(g) ELSE 0
PROOF
<1>1. PICK all : all = gtos \cup {g}
  OBVIOUS
<1>2. IsFiniteSet(all) /\ (\A h \in all : h.trx \in Contents) /\ g \in all
  BY <1>1, FS_AddElement
<1>3. all \ {g} = gtos
  BY <1>1
<1>4. GtoTotal(all \ {g}, a) = GtoTotal(all, a) + IF g.payer = a THEN 0 - Bytes(g) ELSE 0
  BY <1>2, GtoRemoved
<1>5. GtoTotal(all, a) \in Nat /\ GtoTotal(gtos, a) \in Nat /\ Bytes(g) \in Nat
  BY <1>2, GtoTotalType, BytesIsNat
<1>6. CASE g.payer = a
  <2>1. PICK m, n, b : m = GtoTotal(all, a) /\ n = GtoTotal(gtos, a) /\ b = Bytes(g)
    OBVIOUS
  <2>2. m \in Nat /\ n \in Nat /\ b \in Nat
    BY <1>5, <2>1
  <2>3. n = m + (0 - b)
    BY <1>3, <1>4, <1>6, <2>1
  <2>4. m = n + b
    BY <2>2, <2>3
  <2> QED
    BY <1>1, <1>6, <2>1, <2>4
<1>7. CASE g.payer # a
  BY <1>1, <1>3, <1>4, <1>5, <1>7
<1> QED
  BY <1>6, <1>7

\* What a database is accounted by depends on its tables alone.
LEMMA SameTables ==
  ASSUME NEW d, NEW e, e.perms = d.perms, e.links = d.links, e.gtos = d.gtos
  PROVE  /\ Tables(d) => Tables(e)
         /\ \A a : Stored(e, a) = Stored(d, a)
PROOF
  BY DEF Tables, Stored, Exists

\* From d to f the account a comes to have n bytes more.
Grown(d, f, a, n) ==
  /\ RamTypeOK(f) /\ Tables(f)
  /\ f.ram = d.ram /\ f.correction = d.correction
  /\ f.limits = d.limits /\ f.total = d.total
  /\ \A b \in Accounts : Stored(f, b) = Stored(d, b) + IF b = a THEN n ELSE 0

\* It is charged for them.
LEMMA ChargedAccounted ==
  ASSUME NEW d, RamTypeOK(d), Accounted(d), NEW f, NEW a, NEW n \in Int, Grown(d, f, a, n),
         NEW e \in AddRam(f, a, n)
  PROVE  Accounted(e)
PROOF
<1>1. e = [f EXCEPT !.ram[a] = @ + n, !.validate = IF n > 0 THEN @ \cup {a} ELSE @]
  BY DEF AddRam
<1>2. /\ e.ram = [f.ram EXCEPT ![a] = @ + n]
      /\ e.correction = f.correction /\ e.limits = f.limits /\ e.total = f.total
      /\ e.perms = f.perms /\ e.links = f.links /\ e.gtos = f.gtos
  BY <1>1 DEF Grown, RamTypeOK, Fields
<1>3. Tables(e) /\ \A b : Stored(e, b) = Stored(f, b)
  BY <1>2, SameTables DEF Grown
<1>4. ASSUME NEW b \in Accounts \ Unbilled
      PROVE  e.ram[b] = Stored(e, b) + e.correction[b]
  <2>1. PICK s : s = Stored(d, b)
    OBVIOUS
  <2>2. s \in Nat /\ d.ram[b] \in Nat /\ d.correction[b] \in Nat
    BY <2>1, StoredIs DEF Accounted, RamTypeOK
  <2>3. d.ram[b] = s + d.correction[b]
    BY <2>1 DEF Accounted
  <2>4. Stored(e, b) = s + IF b = a THEN n ELSE 0
    BY <1>3, <2>1 DEF Grown
  <2>5. e.ram[b] = d.ram[b] + IF b = a THEN n ELSE 0
    <3>1. f.ram = d.ram /\ d.ram \in [Accounts -> Nat]
      BY DEF Grown, RamTypeOK
    <3> QED
      BY <1>2, <2>2, <3>1
  <2>6. e.correction[b] = d.correction[b]
    BY <1>2 DEF Grown
  <2> QED
    BY <2>2, <2>3, <2>4, <2>5, <2>6
<1>5. e.total = LimitTotal(e)
  BY <1>2 DEF Grown, Accounted, LimitTotal
<1> QED
  BY <1>3, <1>4, <1>5 DEF Accounted

\* A change of tables in parts.
Parts(d, f, a, o, p, l, g) ==
  \A b \in Accounts :
    /\ OfAccount(f, b) = OfAccount(d, b) + IF b = a THEN o ELSE 0
    /\ PermTotal(f.perms, b) = PermTotal(d.perms, b) + IF b = a THEN p ELSE 0
    /\ LinkCount(f.links, b) = LinkCount(d.links, b) + IF b = a THEN l ELSE 0
    /\ GtoTotal(f.gtos, b) = GtoTotal(d.gtos, b) + IF b = a THEN g ELSE 0

\* One account's tables and its RAM change by the same number of bytes.
LEMMA GrownBy ==
  ASSUME NEW d, RamTypeOK(d), Tables(d), NEW f, RamTypeOK(f), Tables(f), NEW a, NEW n \in Int,
         f.ram = d.ram, f.correction = d.correction, f.limits = d.limits, f.total = d.total,
         NEW o \in Int, NEW p \in Int, NEW l \in Int, NEW g \in Int, Parts(d, f, a, o, p, l, g),
         n = o + p + LinkBytes * l + g
  PROVE  Grown(d, f, a, n)
PROOF
<1>1. ASSUME NEW b \in Accounts
      PROVE  Stored(f, b) = Stored(d, b) + IF b = a THEN n ELSE 0
  <2>1. PICK o1, p1, l1, g1 : /\ o1 = OfAccount(d, b) /\ p1 = PermTotal(d.perms, b)
                              /\ l1 = LinkCount(d.links, b) /\ g1 = GtoTotal(d.gtos, b)
    OBVIOUS
  <2>2. /\ o1 \in Nat /\ p1 \in Nat /\ l1 \in Nat /\ g1 \in Nat
        /\ Stored(d, b) = o1 + p1 + LinkBytes * l1 + g1
    BY <2>1, StoredIs
  <2>3. Stored(f, b) = OfAccount(f, b) + PermTotal(f.perms, b)
                         + LinkBytes * LinkCount(f.links, b) + GtoTotal(f.gtos, b)
    BY StoredIs
  <2>4. LinkBytes \in Nat /\ LinkBytes * l1 \in Int /\ LinkBytes * l \in Int
    BY <2>2, AuthorizationAssumption
  <2>5. CASE b = a
    <3>1. Stored(f, b) = (o1 + o) + (p1 + p) + LinkBytes * (l1 + l) + (g1 + g)
      BY <2>1, <2>3, <2>5 DEF Parts
    <3>2. LinkBytes * (l1 + l) = LinkBytes * l1 + LinkBytes * l
      BY <2>2, <2>4
    <3> QED
      BY <2>2, <2>4, <2>5, <3>1, <3>2
  <2>6. CASE b # a
    <3>1. Stored(f, b) = (o1 + 0) + (p1 + 0) + LinkBytes * (l1 + 0) + (g1 + 0)
      BY <2>1, <2>3, <2>6 DEF Parts
    <3> QED
      BY <2>2, <2>4, <2>6, <3>1
  <2> QED
    BY <2>5, <2>6
<1> QED
  BY <1>1 DEF Grown

\* newaccount.
LEMMA NewAccountAccounted ==
  ASSUME NEW d, RamTypeOK(d), Accounted(d), NEW act, act.size \in Nat,
         NEW e \in NewAccount(d, act)
  PROVE  Accounted(e)
PROOF
<1>1. PICK owner, active, first, second :
        /\ owner = <<act.name, "owner">> /\ active = <<act.name, "active">>
        /\ first = [parent |-> NoParent, size |-> act.size]
        /\ second = [parent |-> "owner", size |-> act.size]
  OBVIOUS
<1>2. /\ owner # active /\ owner[1] = act.name /\ active[1] = act.name
      /\ first.size = act.size /\ second.size = act.size
  BY <1>1
<1>3. PICK one : one = With(d.perms, owner, first)
  OBVIOUS
<1>4. PICK perms : perms = With(one, active, second)
  OBVIOUS
<1>5. PICK n : n = AccountBytes + 2 * (PermissionBytes + act.size)
  OBVIOUS
<1>6. PICK f : f = [d EXCEPT !.perms = perms]
  OBVIOUS
<1>7. ~ Exists(d, act.name) /\ e \in AddRam(f, act.name, n)
  BY <1>1, <1>3, <1>4, <1>5, <1>6 DEF NewAccount
<1>8. owner \notin DOMAIN d.perms /\ active \notin DOMAIN d.perms
  <2>1. owner \notin DOMAIN d.perms
    BY <1>1, <1>7 DEF Exists
  <2>2. ASSUME active \in DOMAIN d.perms PROVE FALSE
    BY <1>2, <1>7, <2>2 DEF Accounted, Tables
  <2> QED
    BY <2>1, <2>2
<1>9. /\ DOMAIN one = DOMAIN d.perms \cup {owner} /\ one[owner] = first
      /\ \A k \in DOMAIN d.perms : one[k] = d.perms[k]
  BY <1>3, <1>8 DEF With
<1>10. /\ DOMAIN perms = DOMAIN d.perms \cup {owner, active}
       /\ \A k \in DOMAIN perms : perms[k].size \in Nat
       /\ \A k \in DOMAIN one : one[k].size \in Nat
  BY <1>2, <1>4, <1>9 DEF With, RamTypeOK
<1>11. IsFiniteSet(DOMAIN d.perms) /\ IsFiniteSet(DOMAIN one) /\ IsFiniteSet(DOMAIN perms)
  <2>1. IsFiniteSet(DOMAIN d.perms)
    BY DEF Accounted, Tables
  <2>2. IsFiniteSet(DOMAIN one)
    BY <1>9, <2>1, FS_AddElement
  <2>3. DOMAIN perms = DOMAIN one \cup {active}
    BY <1>9, <1>10
  <2> QED
    BY <2>1, <2>2, <2>3, FS_AddElement
<1>12. /\ f.perms = perms /\ f.links = d.links /\ f.gtos = d.gtos /\ f.ram = d.ram
       /\ f.correction = d.correction /\ f.limits = d.limits /\ f.total = d.total
  BY <1>6 DEF RamTypeOK, Fields
<1>13. RamTypeOK(f)
  BY <1>6, <1>10, PermsBilled
<1>14. Tables(f)
  <2>1. \A k \in DOMAIN perms : <<k[1], "owner">> \in DOMAIN perms
    BY <1>1, <1>2, <1>10 DEF Accounted, Tables, Exists
  <2> QED
    BY <1>11, <1>12, <2>1 DEF Accounted, Tables, Exists
<1>15. PICK p : p = PermissionBytes + act.size
  OBVIOUS
<1>16. p \in Int /\ n \in Int /\ p = PermissionSize(first) /\ p = PermissionSize(second)
         /\ n = AccountBytes + (p + p) + LinkBytes * 0 + 0
  BY <1>2, <1>5, <1>15, AuthorizationAssumption DEF PermissionSize
<1>17. ASSUME NEW b \in Accounts
       PROVE  /\ OfAccount(f, b) = OfAccount(d, b) + IF b = act.name THEN AccountBytes ELSE 0
              /\ PermTotal(f.perms, b) = PermTotal(d.perms, b)
                                           + IF b = act.name THEN p + p ELSE 0
              /\ LinkCount(f.links, b) = LinkCount(d.links, b) + IF b = act.name THEN 0 ELSE 0
              /\ GtoTotal(f.gtos, b) = GtoTotal(d.gtos, b) + IF b = act.name THEN 0 ELSE 0
  <2>1. OfAccount(f, b) = OfAccount(d, b) + IF b = act.name THEN AccountBytes ELSE 0
    <3>1. CASE b = act.name
      <4>1. Exists(f, b) /\ ~ Exists(d, b)
        BY <1>1, <1>7, <1>10, <1>12, <3>1 DEF Exists
      <4> QED
        BY <3>1, <4>1, AuthorizationAssumption DEF OfAccount
    <3>2. CASE b # act.name
      <4>1. Exists(f, b) <=> Exists(d, b)
        BY <1>1, <1>10, <1>12, <3>2 DEF Exists
      <4> QED
        BY <3>2, <4>1, AuthorizationAssumption DEF OfAccount
    <3> QED
      BY <3>1, <3>2
  <2>2. PermTotal(f.perms, b) = PermTotal(d.perms, b) + IF b = act.name THEN p + p ELSE 0
    <3>1. PermTotal(one, b) = PermTotal(d.perms, b) +
            IF owner[1] = b
            THEN PermissionSize(first)
                 - IF owner \in DOMAIN d.perms THEN PermissionSize(d.perms[owner]) ELSE 0
            ELSE 0
      BY <1>2, <1>3, <1>11, PermWritten DEF RamTypeOK
    <3>2. PermTotal(perms, b) = PermTotal(one, b) +
            IF active[1] = b
            THEN PermissionSize(second)
                 - IF active \in DOMAIN one THEN PermissionSize(one[active]) ELSE 0
            ELSE 0
      BY <1>2, <1>4, <1>10, <1>11, PermWritten
    <3>3. active \notin DOMAIN one
      BY <1>2, <1>8, <1>9
    <3>4. PICK m : m = PermTotal(d.perms, b)
      OBVIOUS
    <3>5. m \in Nat
      BY <1>11, <3>4, PermTotalType DEF RamTypeOK
    <3>6. CASE b = act.name
      <4>1. PermTotal(one, b) = m + (p - 0)
        BY <1>2, <1>8, <1>16, <3>1, <3>4, <3>6
      <4>2. PermTotal(perms, b) = PermTotal(one, b) + (p - 0)
        BY <1>2, <1>16, <3>2, <3>3, <3>6
      <4> QED
        BY <1>12, <1>16, <3>4, <3>5, <3>6, <4>1, <4>2
    <3>7. CASE b # act.name
      BY <1>2, <1>12, <3>1, <3>2, <3>4, <3>5, <3>7
    <3> QED
      BY <3>6, <3>7
  <2>3. LinkCount(d.links, b) \in Nat /\ GtoTotal(d.gtos, b) \in Nat
    BY StoredIs DEF Accounted
  <2> QED
    BY <1>12, <2>1, <2>2, <2>3
<1>18. Grown(d, f, act.name, n)
  <2>1. AccountBytes \in Int /\ p + p \in Int /\ 0 \in Int /\ Tables(d)
    BY <1>16, AuthorizationAssumption DEF Accounted
  <2>2. Parts(d, f, act.name, AccountBytes, p + p, 0, 0)
    BY <1>17 DEF Parts
  <2> QED
    BY <1>12, <1>13, <1>14, <1>16, <2>1, <2>2, GrownBy
<1> QED
  BY <1>7, <1>16, <1>18, ChargedAccounted

\* An account's permissions change by p bytes, and nothing else does.
LEMMA PermsGrown ==
  ASSUME NEW d, RamTypeOK(d), Accounted(d), NEW perms, IsFiniteSet(DOMAIN perms),
         \A k \in DOMAIN perms : perms[k].size \in Nat,
         \A k \in DOMAIN perms : <<k[1], "owner">> \in DOMAIN perms,
         \A b : <<b, "owner">> \in DOMAIN perms <=> <<b, "owner">> \in DOMAIN d.perms,
         NEW a, NEW n \in Int,
         \A b \in Accounts : PermTotal(perms, b) = PermTotal(d.perms, b) + IF b = a THEN n ELSE 0
  PROVE  Grown(d, [d EXCEPT !.perms = perms], a, n)
PROOF
<1>1. PICK f : f = [d EXCEPT !.perms = perms]
  OBVIOUS
<1>2. /\ f.perms = perms /\ f.links = d.links /\ f.gtos = d.gtos /\ f.ram = d.ram
      /\ f.correction = d.correction /\ f.limits = d.limits /\ f.total = d.total
  BY <1>1 DEF RamTypeOK, Fields
<1>3. RamTypeOK(f)
  BY <1>1, PermsBilled
<1>4. Tables(f) /\ Tables(d)
  BY <1>2 DEF Accounted, Tables, Exists
<1>5. Parts(d, f, a, 0, n, 0, 0)
  <2> SUFFICES ASSUME NEW b \in Accounts
               PROVE  /\ OfAccount(f, b) = OfAccount(d, b) + 0
                      /\ PermTotal(f.perms, b) = PermTotal(d.perms, b) + IF b = a THEN n ELSE 0
                      /\ LinkCount(f.links, b) = LinkCount(d.links, b) + 0
                      /\ GtoTotal(f.gtos, b) = GtoTotal(d.gtos, b) + 0
    BY DEF Parts
  <2>1. OfAccount(f, b) = OfAccount(d, b)
    BY <1>2 DEF OfAccount, Exists
  <2>2. OfAccount(d, b) \in Nat /\ LinkCount(d.links, b) \in Nat /\ GtoTotal(d.gtos, b) \in Nat
    BY <1>4, StoredIs
  <2> QED
    BY <1>2, <2>1, <2>2
<1>6. n = 0 + n + LinkBytes * 0 + 0
  BY AuthorizationAssumption
<1>7. 0 \in Int
  OBVIOUS
<1> QED
  BY <1>1, <1>2, <1>3, <1>4, <1>5, <1>6, <1>7, GrownBy

\* updateauth.
LEMMA UpdateAuthAccounted ==
  ASSUME NEW d, RamTypeOK(d), Accounted(d), NEW act, act.size \in Nat,
         NEW e \in UpdateAuth(d, act)
  PROVE  Accounted(e)
PROOF
<1>1. PICK key, row : key = <<act.account, act.permission>>
                      /\ row = [parent |-> act.parent, size |-> act.size]
  OBVIOUS
<1>2. PICK perms : perms = With(d.perms, key, row)
  OBVIOUS
<1>3. PICK n : n = PermissionSize(row)
                     - IF key \in DOMAIN d.perms THEN PermissionSize(d.perms[key]) ELSE 0
  OBVIOUS
<1>4. Exists(d, act.account) /\ e \in AddRam([d EXCEPT !.perms = perms], act.account, n)
  BY <1>1, <1>2, <1>3 DEF UpdateAuth
<1>5. key[1] = act.account /\ row.size = act.size
  BY <1>1
<1>6. n \in Int
  BY <1>3, <1>5, AuthorizationAssumption DEF PermissionSize, RamTypeOK
<1>7. DOMAIN perms = DOMAIN d.perms \cup {key} /\ \A k \in DOMAIN perms : perms[k].size \in Nat
  BY <1>2, <1>5 DEF With, RamTypeOK
<1>8. IsFiniteSet(DOMAIN d.perms)
  BY DEF Accounted, Tables
<1>9. IsFiniteSet(DOMAIN perms)
  BY <1>7, <1>8, FS_AddElement
<1>10. /\ \A k \in DOMAIN perms : <<k[1], "owner">> \in DOMAIN perms
       /\ \A b : <<b, "owner">> \in DOMAIN perms <=> <<b, "owner">> \in DOMAIN d.perms
  BY <1>1, <1>4, <1>5, <1>7 DEF Accounted, Tables, Exists
<1>11. ASSUME NEW b \in Accounts
       PROVE  PermTotal(perms, b) = PermTotal(d.perms, b) + IF b = act.account THEN n ELSE 0
  <2>1. PermTotal(perms, b) = PermTotal(d.perms, b) + IF key[1] = b THEN n ELSE 0
    BY <1>2, <1>3, <1>5, <1>8, PermWritten DEF RamTypeOK
  <2> QED
    BY <1>5, <2>1
<1>12. Grown(d, [d EXCEPT !.perms = perms], act.account, n)
  BY <1>6, <1>7, <1>9, <1>10, <1>11, PermsGrown
<1> QED
  BY <1>4, <1>6, <1>12, ChargedAccounted

\* deleteauth.
LEMMA DeleteAuthAccounted ==
  ASSUME NEW d, RamTypeOK(d), Accounted(d), NEW act, NEW e \in DeleteAuth(d, act)
  PROVE  Accounted(e)
PROOF
<1>1. PICK key : key = <<act.account, act.permission>>
  OBVIOUS
<1>2. PICK perms : perms = Without(d.perms, key)
  OBVIOUS
<1>3. PICK n : n = 0 - PermissionSize(d.perms[key])
  OBVIOUS
<1>4. /\ act.permission # "owner" /\ key \in DOMAIN d.perms
      /\ e \in AddRam([d EXCEPT !.perms = perms], act.account, n)
  BY <1>1, <1>2, <1>3 DEF DeleteAuth, Basic
<1>5. key[1] = act.account
  BY <1>1
<1>6. n \in Int
  BY <1>3, <1>4, AuthorizationAssumption DEF PermissionSize, RamTypeOK
<1>7. DOMAIN perms = DOMAIN d.perms \ {key} /\ \A k \in DOMAIN perms : perms[k].size \in Nat
  BY <1>2 DEF Without, RamTypeOK
<1>8. IsFiniteSet(DOMAIN d.perms)
  BY DEF Accounted, Tables
<1>9. IsFiniteSet(DOMAIN perms)
  BY <1>7, <1>8, FS_Subset
<1>10. /\ \A k \in DOMAIN perms : <<k[1], "owner">> \in DOMAIN perms
       /\ \A b : <<b, "owner">> \in DOMAIN perms <=> <<b, "owner">> \in DOMAIN d.perms
  <2>1. \A b : <<b, "owner">> # key
    BY <1>1, <1>4
  <2> QED
    BY <1>7, <2>1 DEF Accounted, Tables, Exists
<1>11. ASSUME NEW b \in Accounts
       PROVE  PermTotal(perms, b) = PermTotal(d.perms, b) + IF b = act.account THEN n ELSE 0
  <2>1. PermTotal(perms, b) = PermTotal(d.perms, b) + IF key[1] = b THEN n ELSE 0
    BY <1>2, <1>3, <1>4, <1>8, PermRemoved DEF RamTypeOK
  <2> QED
    BY <1>5, <2>1
<1>12. Grown(d, [d EXCEPT !.perms = perms], act.account, n)
  BY <1>6, <1>7, <1>9, <1>10, <1>11, PermsGrown
<1> QED
  BY <1>4, <1>6, <1>12, ChargedAccounted

\* An account has l links more.
LEMMA LinksGrown ==
  ASSUME NEW d, RamTypeOK(d), Accounted(d), NEW links, IsFiniteSet(DOMAIN links),
         NEW a, NEW l \in Int, NEW n \in Int, n = LinkBytes * l,
         \A b \in Accounts : LinkCount(links, b) = LinkCount(d.links, b) + IF b = a THEN l ELSE 0
  PROVE  Grown(d, [d EXCEPT !.links = links], a, n)
PROOF
<1>1. PICK f : f = [d EXCEPT !.links = links]
  OBVIOUS
<1>2. /\ f.perms = d.perms /\ f.links = links /\ f.gtos = d.gtos /\ f.ram = d.ram
      /\ f.correction = d.correction /\ f.limits = d.limits /\ f.total = d.total
  BY <1>1 DEF RamTypeOK, Fields
<1>3. RamTypeOK(f)
  BY <1>1, LinksBilled
<1>4. Tables(f) /\ Tables(d)
  BY <1>2 DEF Accounted, Tables, Exists
<1>5. Parts(d, f, a, 0, 0, l, 0)
  <2> SUFFICES ASSUME NEW b \in Accounts
               PROVE  /\ OfAccount(f, b) = OfAccount(d, b) + 0
                      /\ PermTotal(f.perms, b) = PermTotal(d.perms, b) + 0
                      /\ LinkCount(f.links, b) = LinkCount(d.links, b) + IF b = a THEN l ELSE 0
                      /\ GtoTotal(f.gtos, b) = GtoTotal(d.gtos, b) + 0
    BY DEF Parts
  <2>1. OfAccount(f, b) = OfAccount(d, b)
    BY <1>2 DEF OfAccount, Exists
  <2>2. OfAccount(d, b) \in Nat /\ PermTotal(d.perms, b) \in Nat /\ GtoTotal(d.gtos, b) \in Nat
    BY <1>4, StoredIs
  <2> QED
    BY <1>2, <2>1, <2>2
<1>6. n = 0 + 0 + LinkBytes * l + 0
  BY AuthorizationAssumption
<1>7. 0 \in Int
  OBVIOUS
<1> QED
  BY <1>1, <1>2, <1>3, <1>4, <1>5, <1>6, <1>7, GrownBy

\* A database with the same tables, RAM and limits is accounted.
LEMMA NothingGrown ==
  ASSUME NEW d, RamTypeOK(d), Accounted(d), NEW f, NEW a, Grown(d, f, a, 0)
  PROVE  Accounted(f)
PROOF
<1>1. ASSUME NEW b \in Accounts \ Unbilled
      PROVE  f.ram[b] = Stored(f, b) + f.correction[b]
  <2>1. Stored(d, b) \in Nat
    BY StoredIs DEF Accounted
  <2>2. Stored(f, b) = Stored(d, b)
    BY <2>1 DEF Grown
  <2> QED
    BY <2>2 DEF Grown, Accounted
<1> QED
  BY <1>1 DEF Grown, Accounted, LimitTotal

\* linkauth.
LEMMA LinkAuthAccounted ==
  ASSUME NEW d, RamTypeOK(d), Accounted(d), NEW act, NEW e \in LinkAuth(d, act)
  PROVE  Accounted(e)
PROOF
<1>1. PICK key : key = <<act.account, act.code, act.type>>
  OBVIOUS
<1>2. PICK links : links = With(d.links, key, act.requirement)
  OBVIOUS
<1>3. PICK f : f = [d EXCEPT !.links = links]
  OBVIOUS
<1>4. \/ key \notin DOMAIN d.links /\ e \in AddRam(f, act.account, LinkBytes)
      \/ key \in DOMAIN d.links /\ e = f
  BY <1>1, <1>2, <1>3 DEF LinkAuth
<1>5. key[1] = act.account
  BY <1>1
<1>6. IsFiniteSet(DOMAIN d.links)
  BY DEF Accounted, Tables
<1>7. IsFiniteSet(DOMAIN links)
  <2>1. DOMAIN links = DOMAIN d.links \cup {key}
    BY <1>2 DEF With
  <2> QED
    BY <1>6, <2>1, FS_AddElement
<1>8. \A b : LinkCount(links, b) = LinkCount(d.links, b)
                + IF key[1] = b /\ key \notin DOMAIN d.links THEN 1 ELSE 0
  BY <1>2, <1>6, LinkWritten
<1>9. LinkBytes \in Int /\ 1 \in Int /\ 0 \in Int /\ LinkBytes = LinkBytes * 1 /\ 0 = LinkBytes * 0
  BY AuthorizationAssumption
<1>10. CASE key \notin DOMAIN d.links /\ e \in AddRam(f, act.account, LinkBytes)
  <2>1. \A b \in Accounts : LinkCount(links, b) = LinkCount(d.links, b)
                              + IF b = act.account THEN 1 ELSE 0
    BY <1>5, <1>8, <1>10
  <2>2. Grown(d, f, act.account, LinkBytes)
    BY <1>3, <1>7, <1>9, <2>1, LinksGrown
  <2> QED
    BY <1>9, <1>10, <2>2, ChargedAccounted
<1>11. CASE key \in DOMAIN d.links /\ e = f
  <2>1. \A b \in Accounts : LinkCount(links, b) = LinkCount(d.links, b)
                              + IF b = act.account THEN 0 ELSE 0
    BY <1>8, <1>11
  <2>2. Grown(d, f, act.account, 0)
    BY <1>3, <1>7, <1>9, <2>1, LinksGrown
  <2> QED
    BY <1>11, <2>2, NothingGrown
<1> QED
  BY <1>4, <1>10, <1>11

\* unlinkauth.
LEMMA UnlinkAuthAccounted ==
  ASSUME NEW d, RamTypeOK(d), Accounted(d), NEW act, NEW e \in UnlinkAuth(d, act)
  PROVE  Accounted(e)
PROOF
<1>1. PICK key : key = <<act.account, act.code, act.type>>
  OBVIOUS
<1>2. PICK links : links = Without(d.links, key)
  OBVIOUS
<1>3. PICK n : n = 0 - LinkBytes
  OBVIOUS
<1>4. key \in DOMAIN d.links /\ e \in AddRam([d EXCEPT !.links = links], act.account, n)
  BY <1>1, <1>2, <1>3 DEF UnlinkAuth
<1>5. key[1] = act.account
  BY <1>1
<1>6. IsFiniteSet(DOMAIN d.links)
  BY DEF Accounted, Tables
<1>7. IsFiniteSet(DOMAIN links)
  <2>1. DOMAIN links \subseteq DOMAIN d.links
    BY <1>2 DEF Without
  <2> QED
    BY <1>6, <2>1, FS_Subset
<1>8. n \in Int /\ -1 \in Int /\ n = LinkBytes * (-1)
  BY <1>3, AuthorizationAssumption
<1>9. ASSUME NEW b \in Accounts
      PROVE  LinkCount(links, b) = LinkCount(d.links, b) + IF b = act.account THEN -1 ELSE 0
  <2>1. LinkCount(links, b) = LinkCount(d.links, b) - IF key[1] = b THEN 1 ELSE 0
    BY <1>2, <1>4, <1>6, LinkRemoved
  <2>2. LinkCount(d.links, b) \in Nat
    BY StoredIs DEF Accounted
  <2> QED
    BY <1>5, <2>1, <2>2
<1>10. Grown(d, [d EXCEPT !.links = links], act.account, n)
  BY <1>7, <1>8, <1>9, LinksGrown
<1> QED
  BY <1>4, <1>8, <1>10, ChargedAccounted

\* set_account_limits.
LEMMA SetLimitsAccounted ==
  ASSUME NEW d, RamTypeOK(d), Accounted(d), NEW act, NEW e \in SetLimits(d, act)
  PROVE  Accounted(e)
PROOF
<1>1. e = [d EXCEPT !.pending[act.target] = act.ram]
  BY DEF SetLimits
<1>2. /\ e.perms = d.perms /\ e.links = d.links /\ e.gtos = d.gtos /\ e.ram = d.ram
      /\ e.correction = d.correction /\ e.limits = d.limits /\ e.total = d.total
  BY <1>1 DEF RamTypeOK, Fields
<1> QED
  BY <1>2, SameTables DEF Accounted, LimitTotal

\* An account has generated transactions of n bytes more.
LEMMA GtosGrown ==
  ASSUME NEW d, RamTypeOK(d), Accounted(d), NEW f, RamTypeOK(f), IsFiniteSet(f.gtos),
         f.perms = d.perms, f.links = d.links, f.ram = d.ram,
         f.correction = d.correction, f.limits = d.limits, f.total = d.total,
         NEW a, NEW n \in Int,
         \A b \in Accounts : GtoTotal(f.gtos, b) = GtoTotal(d.gtos, b) + IF b = a THEN n ELSE 0
  PROVE  Grown(d, f, a, n)
PROOF
<1>1. Tables(f) /\ Tables(d)
  BY DEF Accounted, Tables, Exists
<1>2. Parts(d, f, a, 0, 0, 0, n)
  <2> SUFFICES ASSUME NEW b \in Accounts
               PROVE  /\ OfAccount(f, b) = OfAccount(d, b) + 0
                      /\ PermTotal(f.perms, b) = PermTotal(d.perms, b) + 0
                      /\ LinkCount(f.links, b) = LinkCount(d.links, b) + 0
                      /\ GtoTotal(f.gtos, b) = GtoTotal(d.gtos, b) + IF b = a THEN n ELSE 0
    BY DEF Parts
  <2>1. OfAccount(f, b) = OfAccount(d, b)
    BY DEF OfAccount, Exists
  <2>2. OfAccount(d, b) \in Nat /\ PermTotal(d.perms, b) \in Nat /\ LinkCount(d.links, b) \in Nat
    BY <1>1, StoredIs
  <2> QED
    BY <2>1, <2>2
<1>3. n = 0 + 0 + LinkBytes * 0 + n
  BY AuthorizationAssumption
<1>4. 0 \in Int
  OBVIOUS
<1> QED
  BY <1>1, <1>2, <1>3, <1>4, GrownBy

\* A generated transaction is stored.
LEMMA CreateAccounted ==
  ASSUME NEW d, RamTypeOK(d), Accounted(d), NEW g, g.trx \in Contents, NEW e \in Create(d, g)
  PROVE  Accounted(e)
PROOF
<1>1. PICK f : f = [d EXCEPT !.gtos = @ \cup {g}, !.next_id = @ + 1]
  OBVIOUS
<1>2. g \notin d.gtos /\ e \in AddRam(f, g.payer, Bytes(g))
  BY <1>1 DEF Create
<1>3. /\ DOMAIN f = Fields /\ f.perms = d.perms /\ f.links = d.links /\ f.ram = d.ram
      /\ f.correction = d.correction /\ f.limits = d.limits /\ f.pending = d.pending
      /\ f.total = d.total /\ f.gtos = d.gtos \cup {g}
  BY <1>1 DEF RamTypeOK, Fields
<1>4. RamTypeOK(f)
  BY <1>3 DEF RamTypeOK
<1>5. IsFiniteSet(d.gtos) /\ IsFiniteSet(f.gtos)
  BY <1>3, FS_AddElement DEF Accounted, Tables
<1>6. Bytes(g) \in Int
  BY BytesIsNat
<1>7. ASSUME NEW b \in Accounts
      PROVE  GtoTotal(f.gtos, b) = GtoTotal(d.gtos, b) + IF b = g.payer THEN Bytes(g) ELSE 0
  <2>1. GtoTotal(d.gtos \cup {g}, b) = GtoTotal(d.gtos, b) + IF g.payer = b THEN Bytes(g) ELSE 0
    BY <1>2, <1>5, GtoAdded DEF RamTypeOK
  <2> QED
    BY <1>3, <2>1
<1>8. Grown(d, f, g.payer, Bytes(g))
  BY <1>3, <1>4, <1>5, <1>6, <1>7, GtosGrown
<1> QED
  BY <1>2, <1>6, <1>8, ChargedAccounted

\* A generated transaction is taken out of the table.
LEMMA GtoGone ==
  ASSUME NEW d, RamTypeOK(d), Accounted(d), NEW g \in d.gtos, NEW f, RamTypeOK(f),
         f.gtos = d.gtos \ {g}, f.perms = d.perms, f.links = d.links, f.ram = d.ram,
         f.correction = d.correction, f.limits = d.limits, f.total = d.total
  PROVE  Grown(d, f, g.payer, 0 - Bytes(g)) /\ Bytes(g) \in Nat
PROOF
<1>1. IsFiniteSet(d.gtos) /\ IsFiniteSet(f.gtos)
  BY FS_Subset DEF Accounted, Tables
<1>2. Bytes(g) \in Nat /\ 0 - Bytes(g) \in Int
  BY BytesIsNat DEF RamTypeOK
<1>3. ASSUME NEW b \in Accounts
      PROVE  GtoTotal(f.gtos, b) = GtoTotal(d.gtos, b) + IF b = g.payer THEN 0 - Bytes(g) ELSE 0
  <2>0. \A h \in d.gtos : h.trx \in Contents
    BY DEF RamTypeOK
  <2>1. GtoTotal(d.gtos \ {g}, b) = GtoTotal(d.gtos, b)
                                      + IF g.payer = b THEN 0 - Bytes(g) ELSE 0
    BY <1>1, <2>0, GtoRemoved
  <2> QED
    BY <2>1
<1> QED
  BY <1>1, <1>2, <1>3, GtosGrown

\* Its payer is given the RAM back at once, or will be with the correction.
LEMMA DroppedAccounted ==
  ASSUME NEW d, RamTypeOK(d), Accounted(d), NEW g \in d.gtos,
         NEW e \in Replace(d, g) \cup AddRam(Drop(d, g), g.payer, 0 - Bytes(g))
  PROVE  Accounted(e)
PROOF
<1>1. PICK f : f = Drop(d, g)
  OBVIOUS
<1>2. /\ DOMAIN f = Fields /\ f.perms = d.perms /\ f.links = d.links /\ f.ram = d.ram
      /\ f.correction = d.correction /\ f.limits = d.limits /\ f.total = d.total
      /\ f.gtos = d.gtos \ {g}
  BY <1>1 DEF Drop, RamTypeOK, Fields
<1>3. RamTypeOK(f)
  BY <1>1, DropBilled
<1>4. Grown(d, f, g.payer, 0 - Bytes(g)) /\ Bytes(g) \in Nat
  BY <1>2, <1>3, GtoGone
<1>5. 0 - Bytes(g) \in Int
  BY <1>4
<1>6. CASE e \in AddRam(f, g.payer, 0 - Bytes(g))
  BY <1>4, <1>5, <1>6, ChargedAccounted
<1>7. CASE e = [f EXCEPT !.correction[g.payer] = @ + Bytes(g)]
  <2>1. /\ e.perms = f.perms /\ e.links = f.links /\ e.ram = f.ram
        /\ e.limits = f.limits /\ e.total = f.total /\ e.gtos = f.gtos
        /\ e.correction = [f.correction EXCEPT ![g.payer] = @ + Bytes(g)]
    BY <1>2, <1>7 DEF Fields
  <2>2. Tables(e) /\ \A b : Stored(e, b) = Stored(f, b)
    BY <1>4, <2>1, SameTables DEF Grown
  <2>3. ASSUME NEW b \in Accounts \ Unbilled
        PROVE  e.ram[b] = Stored(e, b) + e.correction[b]
    <3>1. PICK s : s = Stored(d, b)
      OBVIOUS
    <3>2. s \in Nat /\ d.ram[b] \in Nat /\ d.correction[b] \in Nat
      BY <3>1, StoredIs DEF Accounted, RamTypeOK
    <3>3. d.ram[b] = s + d.correction[b]
      BY <3>1 DEF Accounted
    <3>4. Stored(e, b) = s + IF b = g.payer THEN 0 - Bytes(g) ELSE 0
      BY <1>4, <2>2, <3>1 DEF Grown
    <3>5. e.correction[b] = d.correction[b] + IF b = g.payer THEN Bytes(g) ELSE 0
      <4>1. d.correction \in [Accounts -> Nat]
        BY DEF RamTypeOK
      <4> QED
        BY <1>2, <2>1, <3>2, <4>1
    <3>6. e.ram[b] = d.ram[b]
      BY <1>2, <2>1
    <3> QED
      BY <1>4, <3>2, <3>3, <3>4, <3>5, <3>6
  <2>4. e.total = LimitTotal(e)
    BY <1>2, <2>1 DEF Accounted, LimitTotal
  <2> QED
    BY <2>2, <2>3, <2>4 DEF Accounted
<1> QED
  BY <1>1, <1>6, <1>7 DEF Replace

\* A delayed input transaction.
LEMMA ScheduleDelayedAccounted ==
  ASSUME NEW d, RamTypeOK(d), Accounted(d), NEW t, NEW trx \in Contents,
         NEW e \in ScheduleDelayed(d, t, trx)
  PROVE  Accounted(e)
PROOF
<1>1. PICK g : e \in Create(d, g) /\ g.trx = trx
  BY DEF ScheduleDelayed, Generated
<1> QED
  BY <1>1, CreateAccounted

\* send_deferred.
LEMMA ScheduleDeferredAccounted ==
  ASSUME NEW d, RamTypeOK(d), Accounted(d), NEW t, NEW act, act.trx \in Contents,
         NEW e \in ScheduleDeferred(d, t, act)
  PROVE  Accounted(e)
PROOF
<1> DEFINE old == {g \in d.gtos : g.sender = act.code /\ g.sender_id = act.sender_id}
           G(f, id) == Generated(f, t, act.trx, act.code, act.sender_id, act.payer, id)
<1>1. \/ \E id : e \in Create(d, G(d, id))
      \/ \E g \in old : \E f \in Replace(d, g) : \E id : e \in Create(f, G(f, id))
  BY DEF ScheduleDeferred
<1>2. ASSUME NEW f, NEW id PROVE G(f, id).trx \in Contents
  BY DEF Generated
<1>3. ASSUME NEW f, NEW id, RamTypeOK(f), Accounted(f), e \in Create(f, G(f, id))
      PROVE  Accounted(e)
  <2> HIDE DEF G
  <2> QED
    BY <1>2, <1>3, CreateAccounted
<1>4. ASSUME NEW g \in old, NEW f \in Replace(d, g)
      PROVE  Accounted(f) /\ RamTypeOK(f)
  BY <1>4, DroppedBilled, DroppedAccounted DEF Billed
<1> HIDE DEF G, old
<1> QED
  BY <1>1, <1>3, <1>4

\* cancel_deferred and canceldelay.
LEMMA CancelDeferredAccounted ==
  ASSUME NEW d, RamTypeOK(d), Accounted(d), NEW found \in SUBSET d.gtos,
         NEW e \in CancelDeferred(d, found)
  PROVE  Accounted(e)
PROOF
<1>1. CASE e = d
  BY <1>1
<1>2. ASSUME NEW g \in found, e \in AddRam(Drop(d, g), g.payer, 0 - Bytes(g))
      PROVE  Accounted(e)
  BY <1>2, DroppedAccounted
<1> QED
  BY <1>1, <1>2 DEF CancelDeferred

\* A transaction_context starts with nobody to verify.
LEMMA ValidateAccounted ==
  ASSUME NEW d, RamTypeOK(d), Accounted(d)
  PROVE  Accounted([d EXCEPT !.validate = {}])
PROOF
<1>1. PICK e : e = [d EXCEPT !.validate = {}]
  OBVIOUS
<1>2. /\ e.perms = d.perms /\ e.links = d.links /\ e.gtos = d.gtos /\ e.ram = d.ram
      /\ e.correction = d.correction /\ e.limits = d.limits /\ e.total = d.total
  BY <1>1 DEF RamTypeOK, Fields
<1>3. Accounted(e)
  BY <1>2, SameTables DEF Accounted, LimitTotal
<1> QED
  BY <1>1, <1>3

\* A transaction that succeeds, whatever its action.
LEMMA ExecuteAccounted ==
  ASSUME NEW d, RamTypeOK(d), Accounted(d), NEW t, NEW trx,
         trx \in Contents \/ (trx.op = "send" /\ trx.trx \in Contents),
         NEW e \in Execute(d, t, trx)
  PROVE  Accounted(e)
PROOF
<1>1. PICK f : f = [d EXCEPT !.validate = {}]
  OBVIOUS
<1>2. RamTypeOK(f) /\ Accounted(f)
  BY <1>1, EmptyValidateTypeOK, ValidateAccounted
<1>3. e \in Apply(f, t, trx)
  BY <1>1 DEF Execute
<1>4. /\ trx.op \in {"newaccount", "updateauth"} => trx.size \in Nat
      /\ trx.op = "send" => trx.trx \in Contents
  BY ContentsAssumption
<1> DEFINE mine == {g \in f.gtos : g.sender = trx.code /\ g.sender_id = trx.sender_id}
<1>5. Delayed(f, trx.of) \in SUBSET f.gtos /\ mine \in SUBSET f.gtos
  BY DEF Delayed
<1>6. \/ trx.op = "newaccount" /\ e \in NewAccount(f, trx)
      \/ trx.op = "updateauth" /\ e \in UpdateAuth(f, trx)
      \/ e \in DeleteAuth(f, trx) \/ e \in LinkAuth(f, trx)
      \/ e \in UnlinkAuth(f, trx) \/ e \in SetLimits(f, trx)
      \/ e \in CancelDeferred(f, Delayed(f, trx.of))
      \/ trx.op = "send" /\ e \in ScheduleDeferred(f, t, trx)
      \/ e \in CancelDeferred(f, mine)
  BY <1>3 DEF Apply
<1> HIDE DEF mine
<1> QED
  BY <1>2, <1>4, <1>5, <1>6, NewAccountAccounted, UpdateAuthAccounted, DeleteAuthAccounted,
     LinkAuthAccounted, UnlinkAuthAccounted, SetLimitsAccounted, CancelDeferredAccounted,
     ScheduleDeferredAccounted

\* remove_scheduled_transaction.
LEMMA RemovedAccounted ==
  ASSUME RamTypeOK(db), Accounted(db), NEW g \in db.gtos, db.ram[g.payer] >= Bytes(g)
  PROVE  Accounted(Removed(g))
PROOF
<1>1. PICK f : f = [db EXCEPT !.gtos = @ \ {g}]
  OBVIOUS
<1>2. PICK e : e = Removed(g)
  OBVIOUS
<1>3. /\ DOMAIN f = Fields /\ f.perms = db.perms /\ f.links = db.links /\ f.ram = db.ram
      /\ f.correction = db.correction /\ f.limits = db.limits /\ f.total = db.total
      /\ f.pending = db.pending /\ f.gtos = db.gtos \ {g}
  BY <1>1 DEF RamTypeOK, Fields
<1>4. RamTypeOK(f)
  BY <1>3 DEF RamTypeOK
<1>5. Grown(db, f, g.payer, 0 - Bytes(g)) /\ Bytes(g) \in Nat
  BY <1>3, <1>4, GtoGone
<1>6. /\ e.perms = f.perms /\ e.links = f.links /\ e.gtos = f.gtos
      /\ e.correction = f.correction /\ e.limits = f.limits /\ e.total = f.total
      /\ e.ram = [f.ram EXCEPT ![g.payer] = @ - Bytes(g)]
  BY <1>2, <1>3 DEF Removed, RamTypeOK, Fields
<1>7. Tables(e) /\ \A b : Stored(e, b) = Stored(f, b)
  BY <1>5, <1>6, SameTables DEF Grown
<1>8. ASSUME NEW b \in Accounts \ Unbilled
      PROVE  e.ram[b] = Stored(e, b) + e.correction[b]
  <2>1. PICK s : s = Stored(db, b)
    OBVIOUS
  <2>2. s \in Nat /\ db.ram[b] \in Nat /\ db.correction[b] \in Nat
    BY <2>1, StoredIs DEF Accounted, RamTypeOK
  <2>3. db.ram[b] = s + db.correction[b]
    BY <2>1 DEF Accounted
  <2>4. Stored(e, b) = s + IF b = g.payer THEN 0 - Bytes(g) ELSE 0
    BY <1>5, <1>7, <2>1 DEF Grown
  <2>5. e.ram[b] = db.ram[b] + IF b = g.payer THEN 0 - Bytes(g) ELSE 0
    <3>1. f.ram = db.ram /\ db.ram \in [Accounts -> Nat]
      BY <1>3 DEF RamTypeOK
    <3> QED
      BY <1>5, <1>6, <2>2, <3>1
  <2>6. e.correction[b] = db.correction[b]
    BY <1>3, <1>6
  <2> QED
    BY <1>5, <2>2, <2>3, <2>4, <2>5, <2>6
<1>9. e.total = LimitTotal(e)
  BY <1>3, <1>6 DEF Accounted, LimitTotal
<1> QED
  BY <1>2, <1>7, <1>8, <1>9 DEF Accounted

\* The limits of a block take effect: their sum is kept, however many change.
LEMMA ApplyLimitsAccounted ==
  ASSUME NEW d, RamTypeOK(d), Accounted(d)
  PROVE  RamTypeOK(ApplyLimits(d)) /\ Accounted(ApplyLimits(d))
PROOF
<1>1. PICK e : e = ApplyLimits(d)
  OBVIOUS
<1>2. PICK due : due = {a \in Accounts : d.pending[a] # Unset}
  OBVIOUS
<1>3. PICK delta : delta = [a \in Accounts |-> Positive(d.pending[a]) - Positive(d.limits[a])]
  OBVIOUS
<1>4. /\ DOMAIN e = Fields /\ e.perms = d.perms /\ e.links = d.links /\ e.gtos = d.gtos
      /\ e.ram = d.ram /\ e.correction = d.correction
      /\ e.limits = [a \in Accounts |-> Limit(d, a)]
      /\ e.pending = [a \in Accounts |-> Unset]
      /\ e.total = d.total + SumOver(delta, due)
  BY <1>1, <1>2, <1>3 DEF ApplyLimits, RamTypeOK, Fields, SumOver
<1>5. RamTypeOK(e)
  <2>1. e.limits \in [Accounts -> Int] /\ e.pending \in [Accounts -> Int]
    BY <1>4 DEF Limit, Unset, RamTypeOK
  <2> QED
    BY <1>4, <2>1 DEF RamTypeOK
<1>6. Tables(e) /\ \A b : Stored(e, b) = Stored(d, b)
  BY <1>4, SameTables DEF Accounted
<1>7. PICK f : f = [a \in Accounts |-> Positive(d.limits[a])]
  OBVIOUS
<1>8. PICK h : h = [a \in Accounts |-> Positive(e.limits[a])]
  OBVIOUS
<1>9. IsFiniteSet(Accounts) /\ due \in SUBSET Accounts
  BY <1>2, GenesisAssumption
<1>10. /\ \A a \in Accounts : f[a] \in Int /\ h[a] \in Int
       /\ \A a \in Accounts \ due : h[a] = f[a]
       /\ \A a \in due : h[a] - f[a] = delta[a]
  BY <1>2, <1>3, <1>4, <1>7, <1>8 DEF Positive, Limit, RamTypeOK
<1>11. LimitTotal(d) = SumOver(f, Accounts) /\ LimitTotal(e) = SumOver(h, Accounts)
  <2>1. LimitTotal(d) = Sum(f) /\ LimitTotal(e) = Sum(h)
    BY <1>7, <1>8 DEF LimitTotal
  <2>2. DOMAIN f = Accounts /\ DOMAIN h = Accounts
    BY <1>7, <1>8
  <2> QED
    BY <1>9, <2>1, <2>2, SumIsOver
<1>12. SumOver(h, Accounts) = SumOver(f, Accounts) + SumOver([a \in Accounts |-> h[a] - f[a]], due)
  BY <1>9, <1>10, SumChanges
<1>13. SumOver([a \in Accounts |-> h[a] - f[a]], due) = SumOver(delta, due)
  <2>1. PICK c : c = [a \in Accounts |-> h[a] - f[a]]
    OBVIOUS
  <2>2. IsFiniteSet(due) /\ \A a \in due : c[a] = delta[a]
    BY <1>9, <1>10, <2>1, FS_Subset
  <2> QED
    BY <2>1, <2>2, SumAgree
<1>14. e.total = LimitTotal(e)
  BY <1>4, <1>11, <1>12, <1>13 DEF Accounted
<1>15. Accounted(e)
  BY <1>4, <1>6, <1>14 DEF Accounted
<1> QED
  BY <1>1, <1>5, <1>15

\* A feature is activated: what the corrections exceed is taken off.
LEMMA ActivateAccounted ==
  ASSUME NEW d, RamTypeOK(d), Accounted(d), NEW f
  PROVE  Accounted(Activate(d, f))
PROOF
<1>1. PICK e : e = [d EXCEPT !.features = @ \cup {f}]
  OBVIOUS
<1>2. /\ DOMAIN e = Fields /\ e.perms = d.perms /\ e.links = d.links /\ e.ram = d.ram
      /\ e.gtos = d.gtos /\ e.correction = d.correction /\ e.limits = d.limits
      /\ e.total = d.total
  BY <1>1 DEF RamTypeOK, Fields
<1>3. PICK new : new = Activate(d, f)
  OBVIOUS
<1>4. CASE new = e
  <2>1. Accounted(e)
    BY <1>2, SameTables DEF Accounted, LimitTotal
  <2> QED
    BY <1>3, <1>4, <2>1
<1>5. CASE new = [e EXCEPT !.ram = [a \in Accounts |-> Max({0, @[a] - d.correction[a]})],
                           !.correction = [a \in Accounts |-> 0]]
  <2>1. /\ new.perms = d.perms /\ new.links = d.links /\ new.gtos = d.gtos
        /\ new.ram = [a \in Accounts |-> Max({0, d.ram[a] - d.correction[a]})]
        /\ new.correction = [a \in Accounts |-> 0]
        /\ new.limits = d.limits /\ new.total = d.total
    BY <1>2, <1>5 DEF Fields
  <2>2. Tables(new) /\ \A b : Stored(new, b) = Stored(d, b)
    BY <2>1, SameTables DEF Accounted
  <2>3. ASSUME NEW b \in Accounts \ Unbilled
        PROVE  new.ram[b] = Stored(new, b) + new.correction[b]
    <3>1. PICK s : s = Stored(d, b)
      OBVIOUS
    <3>2. s \in Nat /\ d.ram[b] \in Nat /\ d.correction[b] \in Nat
      BY <3>1, StoredIs DEF Accounted, RamTypeOK
    <3>3. d.ram[b] = s + d.correction[b]
      BY <3>1 DEF Accounted
    <3>4. d.ram[b] - d.correction[b] = s
      BY <3>2, <3>3
    <3>5. Max({0, s}) = s
      <4>1. PICK m : m = Max({0, s})
        OBVIOUS
      <4>2. m \in {0, s} /\ m >= 0 /\ m >= s
        BY <3>2, <4>1 DEF Max
      <4> QED
        BY <3>2, <4>1, <4>2
    <3>6. new.ram[b] = s /\ new.correction[b] = 0
      BY <2>1, <3>4, <3>5
    <3> QED
      BY <2>2, <3>1, <3>2, <3>6
  <2>4. new.total = LimitTotal(new)
    BY <2>1 DEF Accounted, LimitTotal
  <2>5. Accounted(new)
    BY <2>2, <2>3, <2>4 DEF Accounted
  <2> QED
    BY <1>3, <2>5
<1> QED
  BY <1>1, <1>3, <1>4, <1>5 DEF Activate

\* Every step keeps the accounts.
LEMMA StepAccounted ==
  ASSUME RamTypeOK(db), Accounted(db), [Next]_vars
  PROVE  Accounted(db')
PROOF
<1>1. ASSUME NEW trx \in Trxs, PushTransaction(trx)
      PROVE  Accounted(db')
  <2>1. trx \in Contents
    BY DEF Contents
  <2>2. CASE db' \in Execute(db, now, trx)
    BY <2>1, <2>2, ExecuteAccounted
  <2>3. CASE db' \in ScheduleDelayed([db EXCEPT !.validate = {}], now, trx)
    BY <2>1, <2>3, EmptyValidateTypeOK, ValidateAccounted, ScheduleDelayedAccounted
  <2> QED
    BY <1>1, <2>2, <2>3 DEF PushTransaction
<1>2. ASSUME NEW g \in db.gtos, PushScheduled(g)
      PROVE  Accounted(db')
  <2>1. PICK d : d = Removed(g)
    OBVIOUS
  <2>2. RamTypeOK(d) /\ Accounted(d)
    BY <1>2, <2>1, RemovedBilled, RemovedAccounted DEF PushScheduled
  <2>3. g.trx \in Contents
    BY DEF RamTypeOK
  <2>4. \/ UNCHANGED db
        \/ db' = d
        \/ \E trx : /\ trx \in Contents \/ (trx.op = "send" /\ trx.trx \in Contents)
                    /\ db' \in Execute(d, now, trx)
    BY <1>2, <2>1, <2>3 DEF PushScheduled, Expire, Executed, SoftFail, HardFail,
         SubjectiveFail, OnError
  <2>5. CASE UNCHANGED db
    BY <2>5
  <2>6. CASE db' = d
    BY <2>2, <2>6
  <2>7. ASSUME NEW trx, trx \in Contents \/ (trx.op = "send" /\ trx.trx \in Contents),
               db' \in Execute(d, now, trx)
        PROVE  Accounted(db')
    BY <2>2, <2>7, ExecuteAccounted
  <2> QED
    BY <2>4, <2>5, <2>6, <2>7
<1>3. CASE NextBlock
  <2>1. db' = ApplyLimits(db) \/ \E f : db' = Activate(ApplyLimits(db), f)
    BY <1>3 DEF NextBlock
  <2> QED
    BY <2>1, ApplyLimitsAccounted, ActivateAccounted
<1>4. CASE BlockExhausted \/ UNCHANGED vars
  BY <1>4 DEF BlockExhausted, vars
<1> QED
  BY <1>1, <1>2, <1>3, <1>4 DEF Next

\* Whatever transactions are pushed, and however they end, the RAM usage kept for
\* an account is what it has in the tables, and before replace_deferred the
\* correction more; each operation adds or gives back exactly the bytes of the
\* rows that it makes, changes or removes.  The total of the limits is their sum,
\* though only the changes of a block are added to it.
THEOREM RamStaysAccounted == Spec => []RamIsAccounted
PROOF
<1>1. Init => RamTypeOK(db) /\ Accounted(db)
  <2> SUFFICES ASSUME Init PROVE RamTypeOK(db) /\ Accounted(db)
    OBVIOUS
  <2>1. db = Genesis /\ RamTypeOK(db)
    BY DeferredAssumption, GenesisAssumption DEF Init, RamTypeOK
  <2>2. Tables(db)
    BY <2>1, DeferredAssumption, GenesisAssumption, FS_EmptySet DEF Tables
  <2>3. \A a \in Accounts \ Unbilled : db.ram[a] = Stored(db, a) + db.correction[a]
    BY <2>1 DEF Unbilled
  <2>4. db.total = LimitTotal(db)
    BY <2>1, GenesisAssumption DEF LimitTotal
  <2> QED
    BY <2>1, <2>2, <2>3, <2>4 DEF Accounted
<1>2. RamTypeOK(db) /\ Accounted(db) /\ [Next]_vars => RamTypeOK(db)' /\ Accounted(db)'
  BY StepVerified, StepAccounted
<1>3. RamTypeOK(db) /\ Accounted(db) => RamIsAccounted
  BY DEF Accounted, RamIsAccounted, LimitTotal
<1> QED
  BY <1>1, <1>2, <1>3, PTL DEF Spec
=============================================================================

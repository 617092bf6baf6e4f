----------------------------- MODULE MCDeferred -----------------------------
(* One user, one contract that sends deferred transactions and sets limits.*)
EXTENDS Deferred, TLC

MCAccounts == {"user", "code", "new"}
MCFirst == {"user", "code"}
MCNames == {"owner", "active", "p"}

Act(op, auth) == [op |-> op, account |-> "user", auth |-> auth, delay |-> 0, bytes |-> 0]

MakeP(size) == Act("updateauth", "active") @@
  [permission |-> "p", parent |-> "active", size |-> size]
DropP(auth, delay) == [Act("deleteauth", auth) EXCEPT !.delay = delay, !.bytes = 1] @@
  [permission |-> "p"]
Link == Act("linkauth", "active") @@
  [code |-> "code", type |-> "send", requirement |-> "p"]
Unlink == Act("unlinkauth", "active") @@ [code |-> "code", type |-> "send"]
LaterDropP == DropP("p", 1)
CancelDrop == Act("canceldelay", "p") @@ [of |-> LaterDropP]
SetRam(n) == Act("setlimits", "active") @@
  [code |-> "code", type |-> "setlimits", target |-> "user", ram |-> n]
Send(payer, replace, trx) == Act("send", "p") @@
  [code |-> "code", type |-> "send", sender_id |-> 1, payer |-> payer,
   replace |-> replace, trx |-> trx]

NewUser == [Act("newaccount", "active") EXCEPT !.bytes = 2] @@
  [code |-> "code", type |-> "newaccount", name |-> "new", size |-> 0]

Cancel == Act("cancel", "active") @@
  [code |-> "code", type |-> "cancel", sender_id |-> 1]

MCTrxs == {MakeP(0), MakeP(2), DropP("active", 0), LaterDropP, CancelDrop,
           Link, Unlink, SetRam(10), Cancel,
           Send("user", FALSE, Link), Send("code", TRUE, NewUser)}

MCGenesis ==
  [perms |-> [k \in MCFirst \X Basic |->
                [parent |-> IF k[2] = "owner" THEN NoParent ELSE "owner", size |-> 1]],
   links |-> << >>,
   ram |-> [a \in MCAccounts |-> IF a \in MCFirst THEN 5 ELSE 0], validate |-> {},
   limits |-> [a \in MCAccounts |-> -1], pending |-> [a \in MCAccounts |-> Unset],
   total |-> 0, gtos |-> {}, next_id |-> 1,
   correction |-> [a \in MCAccounts |-> 0], features |-> {"only_link"},
   dropped |-> {}]
==============================================================================

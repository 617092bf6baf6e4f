---------------------------- MODULE MCDreamoji ----------------------------
EXTENDS Dreamoji

CONSTANTS self, alice, emoji

\* A type that is created as a non-fungible or as a fungible token.
Nft == [type |-> emoji, fungible |-> FALSE, burnable |-> TRUE, sellable |-> TRUE,
        transferable |-> TRUE, partner |-> alice, split |-> 15, max |-> 2, days |-> 0]
Ft == [type |-> emoji, fungible |-> TRUE, burnable |-> TRUE, sellable |-> TRUE,
       transferable |-> TRUE, partner |-> self, split |-> 0, max |-> 2, days |-> 1]
NftAndFt == {Nft, Ft}
OneOther == {alice}
\* The share of 15/16 is rounded up to a double, and leaves a rest for two tokens.
OnePrice == {210}
===========================================================================

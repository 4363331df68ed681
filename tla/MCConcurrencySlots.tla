------------------------- MODULE MCConcurrencySlots -------------------------
EXTENDS ConcurrencySlots

\* One slot of the user and no limit on the account, and the other way round.
OneSlot == {[user |-> 1, account |-> 0], [user |-> 0, account |-> 1]}
=============================================================================

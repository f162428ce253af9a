--------------------------- MODULE MCRelayBilling ---------------------------
(* Instance of RelayBilling: one user with a limited and an unlimited token. *)
EXTENDS RelayBilling, TLC

CONSTANTS user, lim, unl

MCUsers == {user}
MCTokens == {lim, unl}
MCOwner == [t \in MCTokens |-> user]
MCUnlimited == {unl}
MCInitQuota == [i \in MCUsers |-> 3]
MCInitRemain == [t \in MCTokens |-> 2]
Symmetry == Permutations(Relays)
=============================================================================

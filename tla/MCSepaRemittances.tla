------------------------- MODULE MCSepaRemittances -------------------------
(* One invoice, two remittances it may be put in, two requests to confirm   *)
(* and two to mark a return.                                                *)
EXTENDS SepaRemittances, TLC

CONSTANTS k1, k2, k3, s1, s2, m1, m2, m3, r1, r2

NoGateway == [c \in {} |-> "none"]
Symmetry  == Permutations(Confirms) \cup Permutations(Returns)
             \cup Permutations(Receipts \ Cash) \cup Permutations(Remittances)

=============================================================================

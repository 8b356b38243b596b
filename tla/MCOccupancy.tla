---------------------------- MODULE MCOccupancy ----------------------------
(* Two customers, a contract each, on two units.                            *)
EXTENDS Occupancy, TLC

CONSTANTS u1, u2, A, B, k1, k2, q1, q2, r1, e1

OneEach == (k1 :> A) @@ (k2 :> B)

(* The customers may change places with their contracts.                   *)
Swap == (k1 :> k2) @@ (k2 :> k1) @@ (A :> B) @@ (B :> A)
Symmetry == Permutations(Units) \cup Permutations(Requests)
            \cup {Swap @@ p : p \in Permutations(Units)}
            \cup {Swap @@ p : p \in Permutations(Requests)}
            \cup {p @@ q : p \in Permutations(Units), q \in Permutations(Requests)}
            \cup {Swap @@ p @@ q : p \in Permutations(Units), q \in Permutations(Requests)}

=============================================================================

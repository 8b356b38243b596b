----------------------------- MODULE MCSessions -----------------------------
(* A user with a browser.                                                    *)
EXTENDS Sessions, TLC

CONSTANTS s1, s2, s3, s4, d1, q1, q2

Symmetry == {p @@ q @@ r : p \in Permutations(Sessions), q \in Permutations(Devices),
                           r \in Permutations(Requests)}
=============================================================================

---------------------------- MODULE MCVerifactu ----------------------------
(* Invoices of one issuer, the first and the last in one series.           *)
EXTENDS Verifactu, TLC

CONSTANTS a, b, c, s1, s2, self, q1, q2

TwoSeries == (a :> s1) @@ (b :> s2) @@ (c :> s1)
OneIssuer == [i \in {a, b, c} |-> self]
Of(f) == [i \in Invoices |-> f[i]]
SeriesOf == Of(TwoSeries)
IssuerOf == Of(OneIssuer)
Symmetry == Permutations(Requests)

=============================================================================

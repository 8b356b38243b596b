--------------------------- MODULE MCRedsysOrders ---------------------------
(* One invoice collected by a saved card and by requests of the payment     *)
(* page, all through Redsys.                                                *)
EXTENDS RedsysOrders, TLC

CONSTANTS c1, c2, o1, o2, m1, m2, m3

OneRedsys == c1 :> "redsys"

=============================================================================

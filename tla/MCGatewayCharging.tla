------------------------- MODULE MCGatewayCharging -------------------------
(* One invoice charged by two requests, with the gateways the run names.    *)
EXTENDS GatewayCharging, TLC

CONSTANTS c1, c2, m1, r1

BothStripe     == (c1 :> "stripe") @@ (c2 :> "stripe")
BothGoCardless == (c1 :> "gocardless") @@ (c2 :> "gocardless")
OneStripe      == c1 :> "stripe"
OneGoCardless  == c1 :> "gocardless"

=============================================================================

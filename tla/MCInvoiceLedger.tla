-------------------------- MODULE MCInvoiceLedger --------------------------
(* One invoice of 2 cents, a Stripe and a Redsys charge, a cash receipt.    *)
EXTENDS InvoiceLedger, TLC

CONSTANTS c1, c2, m1

StripeAndRedsys == (c1 :> "stripe") @@ (c2 :> "redsys")

=============================================================================

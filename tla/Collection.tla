----------------------------- MODULE Collection -----------------------------
(***************************************************************************)
(* What charging an invoice through a gateway promises, without payment    *)
(* rows, webhooks or sweeps: the customer's money is with at most one      *)
(* charge at a time, a charge is tried once, and the invoice is credited   *)
(* only for money a gateway really collected.  GatewayCharging implements  *)
(* it.                                                                     *)
(***************************************************************************)
CONSTANT Charges

VARIABLES
    money,   \* of each charge: where the customer's money is
    booked   \* charges whose money counts in the invoice

collectionVars == <<money, booked>>

Money == {"untried", "held", "collected", "declined", "given_back"}
Taken(c) == money[c] \in {"held", "collected"}

Init ==
    /\ money = [c \in Charges |-> "untried"]
    /\ booked = {}

Move(c, place) == money' = [money EXCEPT ![c] = place] /\ UNCHANGED booked

(* A card is collected at once, a direct debit is held for some days.      *)
Take(c) ==
    /\ money[c] = "untried"
    /\ \A d \in Charges : ~Taken(d)
    /\ \E place \in {"held", "collected"} : Move(c, place)

Decline(c)  == money[c] \in {"untried", "held"} /\ Move(c, "declined")
Settle(c)   == money[c] = "held" /\ Move(c, "collected")
GiveBack(c) == money[c] = "collected" /\ Move(c, "given_back")

(* A charge given back may still be booked: the gateway's events may come  *)
(* in any order.                                                           *)
Book(c) ==
    /\ money[c] \in {"collected", "given_back"}
    /\ booked' = booked \cup {c}
    /\ UNCHANGED money

Unbook(c) == booked' = booked \ {c} /\ UNCHANGED money

Next ==
    \E c \in Charges :
        Take(c) \/ Decline(c) \/ Settle(c) \/ GiveBack(c) \/ Book(c) \/ Unbook(c)

Spec == Init /\ [][Next]_collectionVars
=============================================================================

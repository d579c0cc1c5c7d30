------------------------------ MODULE FareSale ------------------------------
(***************************************************************************)
(* What selling a fare through a reservation or a hosted checkout promises *)
(* (NamastePayCheckout's docstring, ticketing/models.py): a sale appears   *)
(* for a fare only against money -- cash handed to the conductor, or the   *)
(* gateway's own record that exactly that amount was paid for exactly that *)
(* fare -- and, if AtMostOnce, a fare is never sold a second time.         *)
(* FareCheckout, the model of the request handlers, implements it.         *)
(***************************************************************************)

CONSTANTS
    Refs,        \* fares on offer: NamastePayCheckout.reference_id
    Gids,        \* checkouts the gateway opens: NamastePayCheckout.checkout_id
    Bookings,    \* primary keys of Booking
    Amounts,     \* fares, in paisa
    None,        \* no value
    AtMostOnce   \* TRUE: a second sale of a fare is forbidden

VARIABLES
    paid,        \* paid[g]: what the gateway collected through checkout g
    sale         \* sale[b]: the sale recorded as booking b

vars == <<paid, sale>>

Payment == [ref : Refs, amount : Amounts]
Sale == [ref : Refs, amount : Amounts, method : {"CASH", "NAMASTEPAY"}, gid : Gids \cup {None}]

\* Money that backs a sale: in hand, or in the gateway's books for this fare.
Backed(s) ==
    \/ s.method = "CASH"
    \/ /\ s.gid \in Gids
       /\ paid[s.gid] = [ref |-> s.ref, amount |-> s.amount]

Sold(r) == \E b \in Bookings : sale[b] # None /\ sale[b].ref = r

Init ==
    /\ paid = [g \in Gids |-> None]
    /\ sale = [b \in Bookings |-> None]

Collect(g, p) ==
    /\ paid[g] = None
    /\ paid' = [paid EXCEPT ![g] = p]
    /\ UNCHANGED sale

Sell(b, s) ==
    /\ sale[b] = None
    /\ Backed(s)
    /\ AtMostOnce => ~Sold(s.ref)
    /\ sale' = [sale EXCEPT ![b] = s]
    /\ UNCHANGED paid

Next ==
    \/ \E g \in Gids, p \in Payment : Collect(g, p)
    \/ \E b \in Bookings, s \in Sale : Sell(b, s)

Spec == Init /\ [][Next]_vars
=============================================================================

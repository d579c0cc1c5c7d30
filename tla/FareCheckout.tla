---------------------------- MODULE FareCheckout ----------------------------
(***************************************************************************)
(* The reservation / hosted-checkout handlers of apps/ticketing/views.py:  *)
(* every row of NamastePayCheckout, the Bookings settled from it, the      *)
(* NamastePay gateway (external) and the requests in flight.               *)
(*                                                                         *)
(* Django runs in autocommit mode and these views take no row lock: each   *)
(* reads its row into a Python object, may call the gateway (up to 15 s),  *)
(* and later saves a few columns of the row.  A request is therefore a     *)
(* process of one step per database statement or gateway call, and `seen'  *)
(* is its (possibly stale) copy of the row.                                *)
(***************************************************************************)
EXTENDS Naturals, FiniteSets

CONSTANTS
    Refs,        \* reference_ids (random, never reused)
    Gids,        \* checkout_ids the gateway can hand out
    Bookings,    \* Booking ids the database can hand out
    Workers,     \* requests the web servers run at the same time
    Amounts,     \* sums of fares a passenger list can come to, in paisa
    None,        \* SQL NULL
    Crashes      \* TRUE: a worker may die between the two commits of a settlement

ASSUME ConstantsAssumption ==
    /\ Amounts \subseteq Nat \ {0}
    /\ None \notin Refs \cup Gids \cup Bookings
    /\ Crashes \in BOOLEAN

VARIABLES
    row,         \* row[r]: the NamastePayCheckout row with reference_id r
    gateway,     \* gateway[g]: what NamastePay knows of checkout g
    booking,     \* booking[b]: the Booking b, its tickets included
    request,     \* request[w]: the request worker w is running
    config       \* NamastePayConfig: its api_key and is_active

vars == <<row, gateway, booking, request, config>>

-----------------------------------------------------------------------------
\* Types and empty values.

Row == [status : {"absent", "PENDING", "CONFIRMED", "FAILED", "REJECTED"},
        gid : Gids \cup {None}, amount : Amounts \cup {0}, booking : Bookings \cup {None}]
NoRow == [status |-> "absent", gid |-> None, amount |-> 0, booking |-> None]

\* The statuses enquire_checkout documents: "open" stands for initiated and pending,
\* "refused" for failed, canceled and expired; "none" is an id not handed out.
GatewayStatus == {"none", "open", "success", "refunded", "refused"}
Collected == {"success", "refunded"}
GatewayCheckout == [status : GatewayStatus, ref : Refs \cup {None}, amount : Amounts \cup {0}]
NoCheckout == [status |-> "none", ref |-> None, amount |-> 0]

\* gid is history: the checkout whose success the settlement relied on.
Booking == [ref : Refs, amount : Amounts, method : {"CASH", "NAMASTEPAY"}, gid : Gids \cup {None}]

ASSUME NoneAssumption == None \notin Booking

\* What a request does next; the field names are the local variables of the views.
Step == {"idle", "insert", "reject", "cash", "initiate", "saveGid",
         "enquire", "digital", "confirm", "fail", "edit"}
Request == [step : Step, ref : Refs \cup {None}, seen : Row, gid : Gids \cup {None},
            amount : Amounts \cup {0}, booking : Bookings \cup {None}]
NoRequest == [step |-> "idle", ref |-> None, seen |-> NoRow, gid |-> None,
              amount |-> 0, booking |-> None]

\* A row in the table always has the amount it was reserved for.
TypeOK ==
    /\ row \in [Refs -> Row]
    /\ \A r \in Refs : row[r].status # "absent" => row[r].amount \in Amounts
    /\ gateway \in [Gids -> GatewayCheckout]
    /\ booking \in [Bookings -> Booking \cup {None}]
    /\ request \in [Workers -> Request]
    /\ config \in {"unset", "inactive", "active"}

Init ==
    /\ row = [r \in Refs |-> NoRow]
    /\ gateway = [g \in Gids |-> NoCheckout]
    /\ booking = [b \in Bookings |-> None]
    /\ request = [w \in Workers |-> NoRequest]
    /\ config = "unset"

-----------------------------------------------------------------------------
\* Helpers.

\* uuid4: a reference no row and no gateway checkout carries yet.
Fresh(r) ==
    /\ row[r].status = "absent"
    /\ \A g \in Gids : gateway[g].ref # r

\* A row as it is first inserted.
NewRow(gid, amount) ==
    [status |-> "PENDING", gid |-> gid, amount |-> amount, booking |-> None]

\* Worker w takes up a request on row r: NamastePayCheckout.objects.get(...).
Begin(w, r, step, gid, amount) ==
    /\ request[w].step = "idle"
    /\ request' = [request EXCEPT ![w] =
           [step |-> step, ref |-> r, seen |-> row[r], gid |-> gid,
            amount |-> amount, booking |-> None]]

\* The request of w goes on, having learnt a checkout_id or a Booking's id.
Continue(w, step, gid, b) ==
    request' = [request EXCEPT ![w] =
        [step |-> step, ref |-> request[w].ref, seen |-> request[w].seen, gid |-> gid,
         amount |-> request[w].amount, booking |-> b]]

\* The request of w answers its caller.
Done(w) == request' = [request EXCEPT ![w] = NoRequest]

\* initiate_checkout: the gateway opens checkout g for `amount' under reference r.
Open(g, r, amount) ==
    /\ gateway[g].status = "none"
    /\ gateway' = [gateway EXCEPT ![g] =
           [status |-> "open", ref |-> r, amount |-> amount]]

-----------------------------------------------------------------------------
\* TicketReservationCreateView.post: one insert, no gateway call.
Reserve(r, amount) ==
    /\ Fresh(r)
    /\ row' = [row EXCEPT ![r] = NewRow(None, amount)]
    /\ UNCHANGED <<gateway, booking, request, config>>

\* NamastePayCheckoutCreateView.post: the gateway opens the checkout first ...
StartWalkIn(w, r, amount, g) ==
    /\ config = "active"
    /\ Fresh(r)
    /\ Begin(w, r, "insert", g, amount)
    /\ Open(g, r, amount)
    /\ UNCHANGED <<row, booking, config>>

\* ... and the row is inserted after its answer.
InsertWalkIn(w) ==
    /\ request[w].step = "insert"
    /\ row' = [row EXCEPT ![request[w].ref] = NewRow(request[w].gid, request[w].amount)]
    /\ Done(w)
    /\ UNCHANGED <<gateway, booking, config>>

-----------------------------------------------------------------------------
\* TicketReservationValidateView.post: the row is read, its status and the decision tested.
StartValidate(w, r, step) ==
    /\ row[r].status = "PENDING"
    /\ step \in {"reject", "cash", "initiate"}     \* "invalid", "cash", "valid"
    /\ Begin(w, r, step, None, 0)
    /\ UNCHANGED <<row, gateway, booking, config>>

\* "invalid": save(update_fields=["status"]).
RejectSave(w) ==
    /\ request[w].step = "reject"
    /\ row' = [row EXCEPT ![request[w].ref].status = "REJECTED"]
    /\ Done(w)
    /\ UNCHANGED <<gateway, booking, config>>

\* "valid": the gateway opens a checkout for the amount the request has seen ...
Initiate(w, g) ==
    /\ request[w].step = "initiate"
    /\ config = "active"
    /\ Open(g, request[w].ref, request[w].seen.amount)
    /\ Continue(w, "saveGid", g, None)
    /\ UNCHANGED <<row, booking, config>>

\* ... whose id replaces whatever checkout_id the row has by now.
SaveGid(w) ==
    /\ request[w].step = "saveGid"
    /\ row' = [row EXCEPT ![request[w].ref].gid = request[w].gid]
    /\ Done(w)
    /\ UNCHANGED <<gateway, booking, config>>

-----------------------------------------------------------------------------
\* A slip: a CONFIRMED row is not answered at once.
StartConfirmAgain(w, r) ==
    /\ row[r].gid # None
    /\ Begin(w, r, "enquire", None, 0)
    /\ UNCHANGED <<row, gateway, booking, config>>

\* NamastePayCheckoutConfirmView.get: found by checkout_id; a CONFIRMED row is answered at once.
StartConfirm(w, r) ==
    /\ row[r].gid # None
    /\ row[r].status # "CONFIRMED"
    /\ Begin(w, r, "enquire", None, 0)
    /\ UNCHANGED <<row, gateway, booking, config>>

\* What the gateway's answer makes the request do.
AfterEnquiry(status, charged, expected) ==
    CASE status = "success" /\ charged = expected -> "digital"
      [] status = "refused" -> "fail"
      [] OTHER -> "idle"          \* still open, refunded, or a 409 on the amount

Enquire(w) ==
    /\ request[w].step = "enquire"
    /\ config # "unset"
    /\ LET asked == gateway[request[w].seen.gid]
           next == AfterEnquiry(asked.status, asked.amount, request[w].seen.amount)
       IN  IF next = "idle" THEN Done(w) ELSE Continue(w, next, None, None)
    /\ UNCHANGED <<row, gateway, booking, config>>

FailSave(w) ==
    /\ request[w].step = "fail"
    /\ row' = [row EXCEPT ![request[w].ref].status = "FAILED"]
    /\ Done(w)
    /\ UNCHANGED <<gateway, booking, config>>

-----------------------------------------------------------------------------
\* A slip: the Booking is made from the row as it is by now, not from the copy whose
\* amount was compared with the gateway's.
BookRefreshed(w, b) ==
    /\ request[w].step \in {"cash", "digital"}
    /\ booking[b] = None
    /\ LET cash == request[w].step = "cash"
       IN  booking' = [booking EXCEPT ![b] =
               [ref |-> request[w].ref, amount |-> row[request[w].ref].amount,
                method |-> IF cash THEN "CASH" ELSE "NAMASTEPAY",
                gid |-> IF cash THEN None ELSE request[w].seen.gid]]
    /\ Continue(w, "confirm", None, b)
    /\ UNCHANGED <<row, gateway, config>>

\* _settle_reservation, first commit: the Booking and its tickets, from the copy of the row.
Book(w, b) ==
    /\ request[w].step \in {"cash", "digital"}
    /\ booking[b] = None
    /\ LET cash == request[w].step = "cash"
       IN  booking' = [booking EXCEPT ![b] =
               [ref |-> request[w].ref, amount |-> request[w].seen.amount,
                method |-> IF cash THEN "CASH" ELSE "NAMASTEPAY",
                gid |-> IF cash THEN None ELSE request[w].seen.gid]]
    /\ Continue(w, "confirm", None, b)
    /\ UNCHANGED <<row, gateway, config>>

\* A slip: "booking" is missing from update_fields.
ConfirmSaveStatusOnly(w) ==
    /\ request[w].step = "confirm"
    /\ row' = [row EXCEPT ![request[w].ref].status = "CONFIRMED"]
    /\ Done(w)
    /\ UNCHANGED <<gateway, booking, config>>

\* _settle_reservation, second commit: save(update_fields=["status", "booking", "confirmed_at"]).
ConfirmSave(w) ==
    /\ request[w].step = "confirm"
    /\ row' = [row EXCEPT ![request[w].ref].status = "CONFIRMED",
                          ![request[w].ref].booking = request[w].booking]
    /\ Done(w)
    /\ UNCHANGED <<gateway, booking, config>>

-----------------------------------------------------------------------------
\* A slip: the status of the row is not tested before the edit.
StartEditAnyStatus(w, r, amount) ==
    /\ row[r].status # "absent"
    /\ Begin(w, r, "edit", None, amount)
    /\ UNCHANGED <<row, gateway, booking, config>>

\* TicketReservationUpdateView.patch: amount is 0 when the body names no passengers.
StartEdit(w, r, amount) ==
    /\ row[r].status = "PENDING"
    /\ Begin(w, r, "edit", None, amount)
    /\ UNCHANGED <<row, gateway, booking, config>>

\* A slip: save() without update_fields writes the whole stale copy.
EditSaveWholeRow(w) ==
    /\ request[w].step = "edit"
    /\ row' = [row EXCEPT ![request[w].ref] = [request[w].seen EXCEPT !.amount =
           IF request[w].amount = 0 THEN request[w].seen.amount ELSE request[w].amount]]
    /\ Done(w)
    /\ UNCHANGED <<gateway, booking, config>>

\* A slip: the sum is taken even of a passenger list the body does not have.
EditSaveEmptySum(w) ==
    /\ request[w].step = "edit"
    /\ row' = [row EXCEPT ![request[w].ref].amount = request[w].amount]
    /\ Done(w)
    /\ UNCHANGED <<gateway, booking, config>>

\* The save writes passengers and amount back even when the body did not change them.
EditSave(w) ==
    /\ request[w].step = "edit"
    /\ row' = [row EXCEPT ![request[w].ref].amount =
           IF request[w].amount = 0 THEN request[w].seen.amount ELSE request[w].amount]
    /\ Done(w)
    /\ UNCHANGED <<gateway, booking, config>>

-----------------------------------------------------------------------------
\* A request ends early: the gateway or the database refuses the next call, the
\* gateway's answer is lost, or the worker dies.
Abort(w) ==
    /\ request[w].step # "idle"
    /\ request[w].step = "confirm" => Crashes
    /\ Done(w)
    /\ UNCHANGED <<row, gateway, booking, config>>

\* NamastePayConfigView.update: a key once saved is never blanked again.
SaveConfig(c) ==
    /\ c \in {"inactive", "active"}
    /\ config' = c
    /\ UNCHANGED <<row, gateway, booking, request>>

\* NamastePay: the payer pays, or fails, gives up or is too late; the merchant refunds.
GatewayMove(g, status) ==
    /\ \/ gateway[g].status = "open" /\ status \in {"success", "refused"}
       \/ gateway[g].status = "success" /\ status = "refunded"
    /\ gateway' = [gateway EXCEPT ![g].status = status]
    /\ UNCHANGED <<row, booking, request, config>>

-----------------------------------------------------------------------------
Handle(w) ==
    \/ \E r \in Refs, amount \in Amounts, g \in Gids : StartWalkIn(w, r, amount, g)
    \/ InsertWalkIn(w)
    \/ \E r \in Refs, step \in Step : StartValidate(w, r, step)
    \/ RejectSave(w)
    \/ \E g \in Gids : Initiate(w, g)
    \/ SaveGid(w)
    \/ \E r \in Refs : StartConfirm(w, r)
    \/ Enquire(w)
    \/ FailSave(w)
    \/ \E b \in Bookings : Book(w, b)
    \/ ConfirmSave(w)
    \/ \E r \in Refs, amount \in Amounts \cup {0} : StartEdit(w, r, amount)
    \/ EditSave(w)
    \/ Abort(w)

Next ==
    \/ \E r \in Refs, amount \in Amounts : Reserve(r, amount)
    \/ \E w \in Workers : Handle(w)
    \/ \E c \in {"inactive", "active"} : SaveConfig(c)
    \/ \E g \in Gids, status \in GatewayStatus : GatewayMove(g, status)

Spec == Init /\ [][Next]_vars

-----------------------------------------------------------------------------
\* What was promised (FareSale), seen through this state.

Payments == [g \in Gids |->
    IF gateway[g].status \in Collected
    THEN [ref |-> gateway[g].ref, amount |-> gateway[g].amount] ELSE None]

AnyTimes == INSTANCE FareSale WITH paid <- Payments, sale <- booking, AtMostOnce <- FALSE
Once     == INSTANCE FareSale WITH paid <- Payments, sale <- booking, AtMostOnce <- TRUE

\* However requests interleave and workers die, a Booking is created only for cash or
\* for money the gateway collected for this very fare and amount: "a Ticket must never
\* be created on an unconfirmed payment" (NamastePayCheckout).
SoldAgainstMoney == AnyTimes!Spec

\* While the requests on a tenant's fares come one after the other and no worker dies in
\* a settlement, each fare is sold at most once, whatever the order of the decisions.
SoldOnce == Once!Spec

Closed == {"CONFIRMED", "FAILED", "REJECTED"}

\* A stale request cannot reopen a closed reservation, nor cut a row from the Booking
\* settled for it: the saves name the columns they write.
NothingReopened ==
    [][\A r \in Refs :
          /\ row[r].status \in Closed => row'[r].status \in Closed
          /\ row[r].booking # None => row'[r].booking # None]_vars

\* The Booking a row links to is a sale of this row, and a CONFIRMED row has one.
ConfirmedIsSold ==
    \A r \in Refs :
        /\ row[r].status = "CONFIRMED" => row[r].booking # None
        /\ row[r].booking # None => /\ booking[row[r].booking] # None
                                    /\ booking[row[r].booking].ref = r

\* A receipt agrees with the row it settled: CONFIRMED rows carry the amount sold.  It
\* needs requests one after the other; an edit in flight breaks it.
ReceiptMatchesRow ==
    \A r \in Refs : row[r].status = "CONFIRMED" => row[r].amount = booking[row[r].booking].amount

-----------------------------------------------------------------------------
\* What comments say of the views.

\* "no payment is ever attempted, and it can't be validated again"
\* (TicketReservationValidateView): a rejected reservation is never sold.
RejectedNeverSold ==
    [][\A r \in Refs : row[r].status = "REJECTED" => row'[r].status # "CONFIRMED"]_vars

\* "no duplicate" (NamastePayCheckoutConfirmView): one payment makes one Booking.
OneSalePerPayment ==
    \A b, c \in Bookings :
        /\ booking[b] # None
        /\ booking[c] # None
        /\ booking[b].gid # None
        /\ booking[b].gid = booking[c].gid
        => b = c
=============================================================================

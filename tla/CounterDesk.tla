---------------------------- MODULE CounterDesk ----------------------------
(***************************************************************************)
(* The ticket counter, TicketingPage.tsx: the point of sale with the fare  *)
(* it suggests, the check of a ticket number, the voiding of a ticket; and *)
(* the issue, scan and cancellation of ticketing/views.py, the scans       *)
(* coming from conductors elsewhere.                                       *)
(*                                                                         *)
(* A leg is a route with its two stops.  A price is known by the leg and   *)
(* the ticket type it was suggested for, or is one the cashier typed.  The *)
(* list of ticket types has been loaded.  `blind` is history of a request: *)
(* it was sent while its leg had no fare at all, or none was known yet.    *)
(***************************************************************************)
EXTENDS Desk

CONSTANTS
    Legs,
    Types,        \* a set of numbers, in the order the page lists them
    MaxTickets,   \* bound on the tickets ever issued
    MaxPicks      \* bound on the choices made on the form of the point of sale

\* There are tickets and types, and the types are in an order in which some come first.
CounterAssumption ==
    /\ MaxTickets \in Nat \ {0} /\ None \notin Legs /\ Types # {}
    /\ \A S \in SUBSET Types : S # {} => \E t \in S : \A u \in S : t <= u

Numbers == 1..MaxTickets
Statuses == {"VALID", "USED", "CANCELLED", "EXPIRED"}

Fares == [leg: Legs, type: Types]
Hand == [leg |-> None, type |-> None]
Prices == Fares \cup {Hand, None}
Sale == [leg |-> None, type |-> None, price |-> None, edited |-> FALSE]
Sales == [leg: Legs \cup {None}, type: Types \cup {None}, price: Prices, edited: BOOLEAN]
Verdicts == [no: Numbers \cup {0}, status: Statuses]

Rows == [status: Statuses, of: [leg: Legs, type: Types \cup {None}], price: Prices, blind: BOOLEAN]

TypeOK ==
    /\ DOMAIN db.tickets \subseteq Numbers
    /\ \A n \in DOMAIN db.tickets : db.tickets[n] \in Rows
    /\ db.priced \subseteq Fares /\ db.over \in BOOLEAN
    /\ \A n \in DOMAIN shown["tickets"] : shown["tickets"][n] \in Statuses
    /\ due \subseteq {"tickets"} \cup Legs
    /\ dialog \in [kind: {"pos", "verify"}] \cup [kind: {"qr", "void"}, no: Numbers, status: Statuses] \cup {None}
    /\ form.sale \in Sales /\ form.eticket \in BOOLEAN /\ form.known \subseteq Legs
    /\ form.number \in Numbers \cup {0, None} /\ form.verdict \in Verdicts \cup {None}

\* One fare is set; a ticket was sold, at a price that was typed.
Init ==
    /\ \E fare \in Fares :
        db = [tickets |-> <<[status |-> "VALID", of |-> fare, price |-> Hand, blind |-> FALSE]>>,
              priced |-> {fare}, over |-> FALSE]
    /\ shown = [tickets |-> <<>>]
    /\ due = {"tickets"} /\ dialog = None /\ wire = {}
    /\ form = [sale |-> Sale, eticket |-> FALSE, known |-> {}, number |-> None, verdict |-> None]
    /\ hist = [opens |-> 0, sends |-> 0, boarded |-> [n \in Numbers |-> 0], crossed |-> {}, picks |-> 0]

\* ---- the list ------------------------------------------------------------------

LoadTickets == Arrive("tickets", [n \in DOMAIN db.tickets |-> db.tickets[n].status])

Browse == Ask("tickets")

OpenQr(n) == Open([kind |-> "qr", no |-> n, status |-> shown["tickets"][n]])

\* ---- the point of sale ---------------------------------------------------------------

First(types) == CHOOSE t \in types : \A u \in types : t <= u

Matches(leg) == {t \in Types : [leg |-> leg, type |-> t] \in db.priced}

\* The effect on fareMatches, those of the leg on the form, `found` telling
\* whether its fares are known.
Suggested(sale, found) ==
    LET types == IF found THEN Matches(sale.leg) ELSE {} IN
    IF types = {} THEN [sale EXCEPT !.type = First(Types)]
    ELSE [sale EXCEPT !.type = First(types),
                      !.price = IF sale.edited THEN @ ELSE [leg |-> sale.leg, type |-> First(types)]]

\* The form after a handler; the effect runs when the fares at hand are others.
Settled(sale) ==
    IF sale.leg = form.sale.leg \/ {sale.leg, form.sale.leg} \cap form.known = {}
    THEN sale ELSE Suggested(sale, sale.leg \in form.known)

NewSale == [form EXCEPT !.sale = Settled(Sale), !.eticket = FALSE]

Selling == dialog # None /\ dialog.kind = "pos" /\ ~form.eticket

OpenPos ==
    /\ dialog = None /\ hist.opens < MaxOpens
    /\ dialog' = [kind |-> "pos"]
    /\ form' = NewSale
    /\ hist' = [hist EXCEPT !.opens = @ + 1]
    /\ UNCHANGED <<db, shown, due, wire>>

HandleClosePOS ==
    /\ dialog # None /\ dialog.kind = "pos"
    /\ dialog' = None
    /\ form' = NewSale
    /\ UNCHANGED <<db, shown, due, wire, hist>>

OnNewTicket ==
    /\ dialog # None /\ dialog.kind = "pos" /\ form.eticket
    /\ form' = NewSale
    /\ UNCHANGED <<db, shown, due, dialog, wire, hist>>

Pick ==
    /\ Selling /\ hist.picks < MaxPicks
    /\ hist' = [hist EXCEPT !.picks = @ + 1]

\* Another route: its stops are to be chosen again, the price stays.
ChooseRoute ==
    /\ Pick
    /\ form' = [form EXCEPT !.sale = Settled([@ EXCEPT !.leg = None, !.edited = FALSE])]
    /\ UNCHANGED <<db, shown, due, dialog, wire>>

\* The two stops of the route.
ChooseStops(leg) ==
    /\ Pick /\ leg # form.sale.leg
    /\ form' = [form EXCEPT !.sale = Settled([@ EXCEPT !.leg = leg])]
    /\ due' = IF leg \in form.known THEN due ELSE due \cup {leg}
    /\ UNCHANGED <<db, shown, dialog, wire>>

\* fareForStops answers, or fails and is not retried.
FaresFound(leg) ==
    /\ leg \in due
    /\ due' = due \ {leg}
    /\ form' = [form EXCEPT !.known = @ \cup {leg},
                            !.sale = IF @.leg = leg THEN Suggested(@, TRUE) ELSE @]
    /\ UNCHANGED <<db, shown, dialog, wire, hist>>

FaresLost(leg) ==
    /\ leg \in due
    /\ due' = due \ {leg}
    /\ UNCHANGED <<db, shown, dialog, form, wire, hist>>

\* A slip: a type with no fare leaves the price of the one before.
HandleTicketTypeChangeKeeping(t) ==
    /\ Pick
    /\ form' = [form EXCEPT !.sale.type = t,
                            !.sale.price = IF ~form.sale.edited /\ form.sale.leg \in form.known /\ t \in Matches(form.sale.leg)
                                           THEN [leg |-> form.sale.leg, type |-> t] ELSE @]
    /\ UNCHANGED <<db, shown, due, dialog, wire>>

HandleTicketTypeChange(t) ==
    /\ Pick
    /\ form' = [form EXCEPT !.sale.type = t,
                            !.sale.price = IF form.sale.edited THEN @
                                           ELSE IF form.sale.leg \in form.known /\ t \in Matches(form.sale.leg)
                                                THEN [leg |-> form.sale.leg, type |-> t] ELSE None]
    /\ UNCHANGED <<db, shown, due, dialog, wire>>

TypePrice ==
    /\ Pick
    /\ form' = [form EXCEPT !.sale.price = Hand, !.sale.edited = TRUE]
    /\ UNCHANGED <<db, shown, due, dialog, wire>>

SubmitIssue ==
    /\ Selling /\ ~Pending("issue")
    /\ form.sale.leg # None /\ form.sale.price # None
    /\ Send([kind |-> "issue", who |-> "desk", phase |-> "sent", sale |-> form.sale,
             blind |-> form.sale.leg \notin form.known \/ Matches(form.sale.leg) = {}])
    /\ UNCHANGED <<db, shown, due, dialog, form>>

\* ---- the other dialogs ------------------------------------------------------------------

OpenVerify == Open([kind |-> "verify"])

CloseVerify ==
    /\ dialog # None /\ dialog.kind = "verify"
    /\ dialog' = None
    /\ form' = [form EXCEPT !.number = None, !.verdict = None]
    /\ UNCHANGED <<db, shown, due, wire, hist>>

\* A number is typed and looked up; 0 is no ticket's.
HandleVerify(n) ==
    /\ dialog # None /\ dialog.kind = "verify"
    /\ Send([kind |-> "verify", who |-> "desk", phase |-> "sent", no |-> n, status |-> None])
    /\ form' = [form EXCEPT !.number = n]
    /\ UNCHANGED <<db, shown, due, dialog>>

\* The confirmation lies over the ticket it is of.
OpenVoid ==
    /\ dialog # None /\ dialog.kind = "qr" /\ dialog.status = "VALID"
    /\ dialog' = [dialog EXCEPT !.kind = "void"]
    /\ UNCHANGED <<db, shown, due, form, wire, hist>>

CloseQr ==
    /\ dialog # None /\ dialog.kind \in {"qr", "void"}
    /\ dialog' = IF dialog.kind = "void" THEN [dialog EXCEPT !.kind = "qr"] ELSE None
    /\ UNCHANGED <<db, shown, due, form, wire, hist>>

SubmitVoid ==
    /\ dialog # None /\ dialog.kind = "void" /\ ~Pending("void")
    /\ Send([kind |-> "void", who |-> "desk", phase |-> "sent", no |-> dialog.no, saw |-> None])
    /\ UNCHANGED <<db, shown, due, dialog, form>>

\* A conductor scans a passenger's ticket.
Scan(n) ==
    /\ Send([kind |-> "scan", who |-> "other", phase |-> "sent", no |-> n, saw |-> None, nth |-> hist.sends])
    /\ UNCHANGED <<db, shown, due, dialog, form>>

\* ---- the server ----------------------------------------------------------------------------

\* The fare is taken as sent.  A ticket whose journal entry could not be
\* numbered is issued and answered with an error.
ServeIssue(r) ==
    /\ r.kind = "issue" /\ r.phase = "sent"
    /\ LET n == Cardinality(DOMAIN db.tickets) + 1
           row == [status |-> "VALID", of |-> [leg |-> r.sale.leg, type |-> r.sale.type],
                   price |-> r.sale.price, blind |-> r.blind] IN
       /\ n \in Numbers
       /\ db' = [db EXCEPT !.tickets = [k \in DOMAIN @ \cup {n} |-> IF k \in DOMAIN @ THEN @[k] ELSE row]]
       /\ \E phase \in {"ok", "error"} : Answer(r, phase)
    /\ UNCHANGED <<shown, due, dialog, form, hist>>

\* The search, or its failure.
ServeVerify(r) ==
    /\ r.kind = "verify" /\ r.phase = "sent"
    /\ \/ r.no \in DOMAIN db.tickets /\ Replace(r, [r EXCEPT !.phase = "ok", !.status = db.tickets[r.no].status])
       \/ Answer(r, "error")
    /\ UNCHANGED <<db, shown, due, dialog, form, hist>>

\* CancelTicketView: what it read of the ticket decides ...
ReadCancel(r) ==
    /\ r.kind = "void" /\ r.phase = "sent"
    /\ LET status == db.tickets[r.no].status IN
       CASE status = "CANCELLED" -> Answer(r, "ok")
         [] status \in {"USED", "EXPIRED"} -> Answer(r, "error")
         [] OTHER -> Replace(r, [r EXCEPT !.phase = "read", !.saw = status])
    /\ UNCHANGED <<db, shown, due, dialog, form, hist>>

\* A slip: the status is not looked at.
ReadScanBlind(r) ==
    /\ r.kind = "scan" /\ r.phase = "sent"
    /\ Replace(r, [r EXCEPT !.phase = "read", !.saw = db.tickets[r.no].status])
    /\ UNCHANGED <<db, shown, due, dialog, form, hist>>

\* VerifyTicketView, likewise.
ReadScan(r) ==
    /\ r.kind = "scan" /\ r.phase = "sent"
    /\ LET status == db.tickets[r.no].status IN
       IF status = "USED" THEN Answer(r, "error")
                          ELSE Replace(r, [r EXCEPT !.phase = "read", !.saw = status])
    /\ UNCHANGED <<db, shown, due, dialog, form, hist>>

\* ... and the status alone is saved, whatever it is by now.
Save(r, status) ==
    /\ r.phase = "read"
    /\ db' = [db EXCEPT !.tickets[r.no].status = status]
    /\ hist' = [hist EXCEPT !.crossed = IF db.tickets[r.no].status = r.saw THEN @ ELSE @ \cup {r.no},
                            !.boarded[r.no] = IF status = "USED" THEN @ + 1 ELSE @]
    /\ Answer(r, "ok")
    /\ UNCHANGED <<shown, due, dialog, form>>

SaveCancel(r) == r.kind = "void" /\ Save(r, "CANCELLED")

SaveScan(r) == r.kind = "scan" /\ Save(r, IF db.over THEN "EXPIRED" ELSE "USED")

\* A ticket is valid until 23:59:59.
EndDay ==
    /\ ~db.over
    /\ db' = [db EXCEPT !.over = TRUE]
    /\ UNCHANGED <<shown, due, dialog, form, wire, hist>>

\* ---- the page hears of it -----------------------------------------------------------------------

\* The e-ticket is put on the point of sale, the one it was sold on or the next.
SucceedIssue(r) ==
    /\ r.kind = "issue" /\ r.phase = "ok" /\ Settle(r)
    /\ form' = [form EXCEPT !.eticket = TRUE]
    /\ Invalidate({"tickets"})
    /\ UNCHANGED <<db, shown, dialog, hist>>

SucceedVoid(r) ==
    /\ r.kind = "void" /\ r.phase = "ok" /\ Settle(r)
    /\ dialog' = IF dialog # None /\ dialog.kind \in {"qr", "void"} THEN None ELSE dialog
    /\ Invalidate({"tickets"})
    /\ UNCHANGED <<db, shown, form, hist>>

\* No answer is cancelled: one of an earlier number, or for a dialog closed
\* since, is shown like any other.
HearVerdict(r) ==
    /\ r.kind = "verify" /\ r.phase \in {"ok", "error"} /\ Settle(r)
    /\ form' = [form EXCEPT !.verdict = IF r.phase = "ok" THEN [no |-> r.no, status |-> r.status] ELSE None]
    /\ UNCHANGED <<db, shown, due, dialog, hist>>

Fail(r) ==
    /\ r.kind # "verify" /\ r.phase = "error" /\ Settle(r)
    /\ UNCHANGED <<db, shown, due, dialog, form, hist>>

\* A search that is given up is answered with an error above.
Lapse == GiveUp /\ \A r \in wire : r.kind = "verify" => r \in wire'

Next ==
    \/ LoadTickets \/ Browse \/ OpenPos \/ HandleClosePOS \/ OnNewTicket \/ ChooseRoute \/ TypePrice \/ SubmitIssue
    \/ OpenVerify \/ CloseVerify \/ OpenVoid \/ CloseQr \/ SubmitVoid \/ EndDay \/ Lapse
    \/ \E n \in DOMAIN shown["tickets"] : OpenQr(n)
    \/ \E leg \in Legs : ChooseStops(leg) \/ FaresFound(leg) \/ FaresLost(leg)
    \/ \E t \in Types : HandleTicketTypeChange(t)
    \/ \E n \in DOMAIN db.tickets \cup {0} : HandleVerify(n)
    \/ \E n \in DOMAIN db.tickets : Scan(n)
    \/ \E r \in wire : \/ ServeIssue(r) \/ ServeVerify(r) \/ ReadCancel(r) \/ SaveCancel(r) \/ ReadScan(r) \/ SaveScan(r)
                       \/ SucceedIssue(r) \/ SucceedVoid(r) \/ HearVerdict(r) \/ Fail(r)

Spec == Init /\ [][Next]_deskVars

\* ---- what it promises ----------------------------------------------------------------------------

\* A ticket sold at a price the page suggested is sold at the price of its own
\* leg and type, unless that leg had no fare, or none was known when it was sent.
SoldAtItsFare ==
    \A n \in DOMAIN db.tickets :
        LET row == db.tickets[n] IN row.price \in Fares => row.blind \/ row.price = row.of

\* A ticket has one use: a passenger boards on it once, and what was ridden on is
\* not voided, unless two requests on it crossed.
OneUse ==
    \A n \in DOMAIN db.tickets :
        \/ n \in hist.crossed
        \/ /\ hist.boarded[n] <= 1
           /\ db.tickets[n].status = "CANCELLED" => hist.boarded[n] = 0

\* "This permanently voids ticket ... This cannot be undone": a voided ticket
\* stays void (TicketingPage.tsx).
VoidIsForGood ==
    \A n \in DOMAIN db.tickets :
        db.tickets[n].status = "CANCELLED" => db'.tickets[n].status = "CANCELLED"

\* ---- why it holds: true of every state, and kept by every step ------------------------------------

Tables(V) == UNION {[S -> V] : S \in SUBSET Numbers}

Dbs == [tickets: Tables(Rows), priced: SUBSET Fares, over: BOOLEAN]
Forms == [sale: Sales, eticket: BOOLEAN, known: SUBSET Legs, number: Numbers \cup {0, None},
          verdict: Verdicts \cup {None}]
Hists == [opens: Nat, sends: Nat, boarded: [Numbers -> Nat], crossed: SUBSET Numbers, picks: Nat]
Shows == [tickets: Tables(Statuses)]
Dialogs == [kind: {"pos", "verify"}] \cup [kind: {"qr", "void"}, no: Numbers, status: Statuses] \cup {None}

Shape ==
    /\ db \in Dbs /\ form \in Forms /\ hist \in Hists
    /\ shown \in Shows /\ due \subseteq {"tickets"} \cup Legs /\ dialog \in Dialogs

IssueReq == [kind: {"issue"}, who: {"desk", "gone"}, phase: {"sent", "ok", "error"}, sale: Sales, blind: BOOLEAN]
VerifyReq == [kind: {"verify"}, who: {"desk", "gone"}, phase: {"sent", "ok", "error"}, no: Numbers \cup {0},
              status: Statuses \cup {None}]
VoidReq == [kind: {"void"}, who: {"desk", "gone"}, phase: {"sent", "read", "ok", "error"}, no: Numbers,
            saw: Statuses \cup {None}]
ScanReq == [kind: {"scan"}, who: {"other"}, phase: {"sent", "read"}, no: Numbers, saw: Statuses \cup {None},
            nth: Nat]
Requests == IssueReq \cup VerifyReq \cup VoidReq \cup ScanReq

\* A sale is of some leg; what is looked at or changed is a ticket that is
\* there; what was read of a ticket to change it was not a use.
Sound(r, there) ==
    /\ r.kind = "issue" => r.sale.leg # None
    /\ r.kind \in {"void", "scan"} => r.no \in there
    /\ r.kind \in {"void", "scan"} /\ r.phase = "read" => r.saw \in Statuses \ {"USED"}
    /\ r.kind = "verify" /\ r.phase = "ok" => r.status \in Statuses

WireInv == \A r \in wire : r \in Requests /\ Sound(r, DOMAIN db.tickets)

\* What the page shows, and what a dialog is open on, is a ticket.
SeenInv ==
    /\ DOMAIN shown["tickets"] \subseteq DOMAIN db.tickets
    /\ dialog # None => (dialog.kind \in {"qr", "void"} => dialog.no \in DOMAIN db.tickets)

\* A ticket whose requests never crossed was never ridden on, or once and is USED.
UseInv ==
    \A n \in Numbers \ hist.crossed :
        \/ hist.boarded[n] = 0
        \/ hist.boarded[n] = 1 /\ n \in DOMAIN db.tickets /\ db.tickets[n].status = "USED"

Own(sale) == [leg |-> sale.leg, type |-> sale.type]

\* A price on the form was typed, or, once the fares of its leg are known and
\* there are some, it is the one of the leg and type on the form.
Fits(sale, known) ==
    IF sale.edited THEN sale.price = Hand
    ELSE sale.leg \in known /\ Matches(sale.leg) # {} => sale.price \in {None, Own(sale)}

PriceInv ==
    /\ Fits(form.sale, form.known)
    /\ \A r \in wire : r.kind = "issue" /\ r.sale.price \in Fares => r.blind \/ r.sale.price = Own(r.sale)
    /\ SoldAtItsFare

IInv == Shape /\ SeenInv /\ WireInv /\ UseInv /\ PriceInv
=============================================================================

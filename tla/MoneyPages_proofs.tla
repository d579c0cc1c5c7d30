-------------------------- MODULE MoneyPages_proofs -------------------------
(***************************************************************************)
(* Theorems about the pages of what the network earns, of the instances    *)
(* Counter, Fares and Chart: for any legs, types and tickets, lines and    *)
(* accounts, and any number of requests.                                   *)
(***************************************************************************)
EXTENDS MoneyPages, Integers, Sequences, TLAPS

\* ---- the ticket counter ---------------------------------------------------------------

\* What an order of the types is needed for.
LEMMA CounterFirstOf ==
  ASSUME Counter!CounterAssumption, NEW S \in SUBSET Types, S # {}
  PROVE  Counter!First(S) \in S
  BY DEF Counter!CounterAssumption, Counter!First

\* The suggestion keeps a sale a sale: only its type and its price are others.
LEMMA CounterSuggestedSale ==
  ASSUME Counter!CounterAssumption, db.priced \subseteq Counter!Fares, NEW sale \in Counter!Sales,
             NEW found \in BOOLEAN
  PROVE  Counter!Suggested(sale, found) \in Counter!Sales
<1> DEFINE types == IF found THEN Counter!Matches(sale.leg) ELSE {}
           own == [leg |-> sale.leg, type |-> Counter!First(types)]
<1>1. types \in SUBSET Types
  BY DEF Counter!Matches
<1>2. Counter!First(Types) \in Types
  BY CounterFirstOf DEF Counter!CounterAssumption
<1>3. CASE types = {}
  <2>1. Counter!Suggested(sale, found) = [sale EXCEPT !.type = Counter!First(Types)]
    BY <1>3 DEF Counter!Suggested
  <2> QED
    BY <1>2, <2>1 DEF Counter!Sales
<1>4. CASE types # {}
  <2>1. Counter!First(types) \in types
    BY <1>1, <1>4, CounterFirstOf
  <2>2. own \in Counter!Fares
    BY <2>1 DEF Counter!Matches
  <2>3. Counter!Suggested(sale, found)
            = [sale EXCEPT !.type = Counter!First(types), !.price = IF sale.edited THEN @ ELSE own]
    BY <1>4 DEF Counter!Suggested
  <2>4. own \in Counter!Prices /\ Counter!First(types) \in Types
    BY <1>1, <2>1, <2>2 DEF Counter!Prices
  <2> HIDE DEF types, own
  <2> QED
    BY <2>3, <2>4 DEF Counter!Sales
<1> QED
  BY <1>3, <1>4

LEMMA CounterSettledSale ==
  ASSUME Counter!CounterAssumption, Counter!Shape, NEW sale \in Counter!Sales
  PROVE  Counter!Settled(sale) \in Counter!Sales
<1>1. db.priced \subseteq Counter!Fares
  BY DEF Counter!Shape, Counter!Dbs
<1>2. (sale.leg \in form.known) \in BOOLEAN
  OBVIOUS
<1>3. Counter!Suggested(sale, sale.leg \in form.known) \in Counter!Sales
  BY <1>1, <1>2, CounterSuggestedSale
<1> QED
  BY <1>3 DEF Counter!Settled

\* A suggested price fits, one that was typed stays.
LEMMA CounterSuggestedFits ==
  ASSUME NEW sale \in Counter!Sales, sale.edited => sale.price = Counter!Hand, NEW found \in BOOLEAN, NEW known,
         sale.leg \in known => found
  PROVE  Counter!Fits(Counter!Suggested(sale, found), known)
<1> DEFINE types == IF found THEN Counter!Matches(sale.leg) ELSE {}
           own == [leg |-> sale.leg, type |-> Counter!First(types)]
<1>1. CASE types = {}
  <2> DEFINE s == [sale EXCEPT !.type = Counter!First(Types)]
  <2>1. Counter!Suggested(sale, found) = s
    BY <1>1 DEF Counter!Suggested
  <2>2. s.leg = sale.leg /\ s.price = sale.price /\ s.edited = sale.edited
    BY DEF Counter!Sales
  <2>3. ~ (sale.leg \in known /\ Counter!Matches(sale.leg) # {})
    BY <1>1
  <2> HIDE DEF s
  <2> QED
    BY <2>1, <2>2, <2>3 DEF Counter!Fits
<1>2. CASE types # {}
  <2> DEFINE s == [sale EXCEPT !.type = Counter!First(types), !.price = IF sale.edited THEN @ ELSE own]
  <2>1. Counter!Suggested(sale, found) = s
    BY <1>2 DEF Counter!Suggested
  <2>2. s.leg = sale.leg /\ s.edited = sale.edited /\ s.type = Counter!First(types)
    BY DEF Counter!Sales
  <2>3. s.price = IF sale.edited THEN sale.price ELSE own
    BY DEF Counter!Sales
  <2>4. own = Counter!Own(s)
    BY <2>2 DEF Counter!Own
  <2> HIDE DEF s, own, types
  <2> QED
    BY <2>1, <2>2, <2>3, <2>4 DEF Counter!Fits
<1> QED
  BY <1>1, <1>2

\* So does the form after a handler that chose another leg, or none.
LEMMA CounterSettledFits ==
  ASSUME Counter!CounterAssumption, Counter!Shape, NEW sale \in Counter!Sales, sale.edited
             => sale.price = Counter!Hand,
         sale.leg = None \/ sale.leg # form.sale.leg
  PROVE  Counter!Fits(Counter!Settled(sale), form.known)
<1>1. None \notin form.known
  BY DEF Counter!CounterAssumption, Counter!Shape, Counter!Forms
<1>2. CASE sale.leg = form.sale.leg \/ {sale.leg, form.sale.leg} \cap form.known = {}
  <2>1. sale.leg \notin form.known
    BY <1>1, <1>2
  <2> QED
    BY <1>2, <2>1 DEF Counter!Settled, Counter!Fits
<1>3. CASE ~(sale.leg = form.sale.leg \/ {sale.leg, form.sale.leg} \cap form.known = {})
  <2> DEFINE found == sale.leg \in form.known
  <2>1. Counter!Settled(sale) = Counter!Suggested(sale, found)
    BY <1>3 DEF Counter!Settled
  <2>2. found \in BOOLEAN /\ (sale.leg \in form.known => found)
    OBVIOUS
  <2> HIDE DEF found
  <2> QED
    BY <2>1, <2>2, CounterSuggestedFits
<1> QED
  BY <1>2, <1>3
\* The rows change when the server writes them, or the day is over; so do the
\* boardings.
LEMMA CounterDbFrame ==
  ASSUME hist \in Counter!Hists, [Counter!Next]_deskVars
  PROVE  \/ UNCHANGED <<db, hist.boarded, hist.crossed>>
         \/ Counter!EndDay
         \/ \E r \in wire : Counter!ServeIssue(r) \/ Counter!SaveCancel(r) \/ Counter!SaveScan(r)
<1> DEFINE Same == UNCHANGED <<db, hist.boarded, hist.crossed>>
<1>1. CASE Counter!LoadTickets \/ Counter!Browse
  BY <1>1 DEF Counter!LoadTickets, Counter!Browse, Counter!Arrive, Counter!Ask
<1>2. CASE Counter!OpenVerify \/ Counter!OpenPos \/ \E n \in DOMAIN shown["tickets"] : Counter!OpenQr(n)
  BY <1>2 DEF Counter!OpenVerify, Counter!OpenPos, Counter!OpenQr, Counter!Open, Counter!Hists
<1>3. CASE Counter!HandleClosePOS \/ Counter!OnNewTicket \/ Counter!CloseVerify \/ Counter!OpenVoid
               \/ Counter!CloseQr
  BY <1>3 DEF Counter!HandleClosePOS, Counter!OnNewTicket, Counter!CloseVerify, Counter!OpenVoid, Counter!CloseQr
<1>4. CASE Counter!ChooseRoute \/ Counter!TypePrice \/ (\E leg \in CounterLegs : Counter!ChooseStops(leg))
           \/ \E t \in Types : Counter!HandleTicketTypeChange(t)
  BY <1>4 DEF Counter!ChooseRoute, Counter!TypePrice, Counter!ChooseStops, Counter!HandleTicketTypeChange,
     Counter!Pick, Counter!Hists
<1>5. CASE \E leg \in CounterLegs : Counter!FaresFound(leg) \/ Counter!FaresLost(leg)
  BY <1>5 DEF Counter!FaresFound, Counter!FaresLost
<1>6. CASE \/ Counter!SubmitIssue \/ Counter!SubmitVoid
                  \/ \E n \in DOMAIN db.tickets \cup {0} : Counter!HandleVerify(n)
           \/ \E n \in DOMAIN db.tickets : Counter!Scan(n)
  BY <1>6 DEF Counter!SubmitIssue, Counter!SubmitVoid, Counter!HandleVerify, Counter!Scan, Counter!Send,
     Counter!Hists
<1>7. CASE \E r \in wire : Counter!ServeVerify(r) \/ Counter!ReadCancel(r) \/ Counter!ReadScan(r)
  BY <1>7 DEF Counter!ServeVerify, Counter!ReadCancel, Counter!ReadScan
<1>8. CASE \E r \in wire : Counter!SucceedIssue(r) \/ Counter!SucceedVoid(r) \/ Counter!HearVerdict(r)
               \/ Counter!Fail(r)
  BY <1>8 DEF Counter!SucceedIssue, Counter!SucceedVoid, Counter!HearVerdict, Counter!Fail
<1>9. CASE Counter!Lapse
  BY <1>9 DEF Counter!Lapse, Counter!GiveUp
<1>10. CASE UNCHANGED deskVars
  BY <1>10 DEF deskVars
<1> HIDE DEF Same
<1> QED
  BY <1>1, <1>2, <1>3, <1>4, <1>5, <1>6, <1>7, <1>8, <1>9, <1>10 DEF Counter!Next, Same

\* The form changes when the cashier or an answer changes it.
LEMMA CounterFormFrame ==
  ASSUME [Counter!Next]_deskVars
  PROVE  \/ UNCHANGED form
         \/ Counter!OpenPos \/ Counter!HandleClosePOS \/ Counter!OnNewTicket \/ Counter!ChooseRoute
                \/ Counter!TypePrice \/ Counter!CloseVerify
         \/ \E leg \in CounterLegs : Counter!ChooseStops(leg) \/ Counter!FaresFound(leg)
         \/ \E t \in Types : Counter!HandleTicketTypeChange(t)
         \/ \E n \in DOMAIN db.tickets \cup {0} : Counter!HandleVerify(n)
         \/ \E r \in wire : Counter!SucceedIssue(r) \/ Counter!HearVerdict(r)
<1> DEFINE Same == UNCHANGED form
<1>1. CASE Counter!LoadTickets \/ Counter!Browse
  BY <1>1 DEF Counter!LoadTickets, Counter!Browse, Counter!Arrive, Counter!Ask
<1>2. CASE Counter!OpenVerify \/ \E n \in DOMAIN shown["tickets"] : Counter!OpenQr(n)
  BY <1>2 DEF Counter!OpenVerify, Counter!OpenQr, Counter!Open
<1>3. CASE Counter!OpenVoid \/ Counter!CloseQr \/ Counter!EndDay \/ \E leg \in CounterLegs : Counter!FaresLost(leg)
  BY <1>3 DEF Counter!OpenVoid, Counter!CloseQr, Counter!EndDay, Counter!FaresLost
<1>4. CASE Counter!SubmitIssue \/ Counter!SubmitVoid \/ \E n \in DOMAIN db.tickets : Counter!Scan(n)
  BY <1>4 DEF Counter!SubmitIssue, Counter!SubmitVoid, Counter!Scan
<1>5. CASE \E r \in wire : Counter!ServeIssue(r) \/ Counter!ServeVerify(r) \/ Counter!ReadCancel(r)
               \/ Counter!ReadScan(r)
  BY <1>5 DEF Counter!ServeIssue, Counter!ServeVerify, Counter!ReadCancel, Counter!ReadScan
<1>6. CASE \E r \in wire : Counter!SaveCancel(r) \/ Counter!SaveScan(r) \/ Counter!SucceedVoid(r) \/ Counter!Fail(r)
  BY <1>6 DEF Counter!SaveCancel, Counter!SaveScan, Counter!Save, Counter!SucceedVoid, Counter!Fail
<1>7. CASE Counter!Lapse
  BY <1>7 DEF Counter!Lapse, Counter!GiveUp
<1>8. CASE UNCHANGED deskVars
  BY <1>8 DEF deskVars
<1> HIDE DEF Same
<1> QED
  BY <1>1, <1>2, <1>3, <1>4, <1>5, <1>6, <1>7, <1>8 DEF Counter!Next, Same
\* A table with one row written.
LEMMA CounterWritten ==
  ASSUME NEW V, NEW f \in Counter!Tables(V), NEW n \in DOMAIN f, NEW row \in V
  PROVE  [f EXCEPT ![n] = row] \in Counter!Tables(V)
<1>1. PICK S \in SUBSET Counter!Numbers : f \in [S -> V]
  BY DEF Counter!Tables
<1>2. [f EXCEPT ![n] = row] \in [S -> V]
  BY <1>1
<1> QED
  BY <1>2 DEF Counter!Tables

LEMMA CounterRowOf ==
  ASSUME NEW V, NEW f \in Counter!Tables(V)
  PROVE  DOMAIN f \in SUBSET Counter!Numbers /\ \A n \in DOMAIN f : f[n] \in V
<1>1. PICK S \in SUBSET Counter!Numbers : f \in [S -> V]
  BY DEF Counter!Tables
<1> QED
  BY <1>1

\* A sale served is a row more, as it was sent.
LEMMA CounterServedIssue ==
  ASSUME Counter!Shape, Counter!WireInv, NEW r \in wire, Counter!ServeIssue(r)
  PROVE  /\ db' \in Counter!Dbs /\ db'.priced = db.priced
         /\ UNCHANGED <<shown, due, dialog, form, hist>>
         /\ \E phase \in {"ok", "error"} : r.kind = "issue" /\ Counter!Answer(r, phase)
         /\ \E n \in Counter!Numbers, row \in Counter!Rows :
              /\ row.status = "VALID" /\ row.of = Counter!Own(r.sale) /\ row.price = r.sale.price
                     /\ row.blind = r.blind
              /\ DOMAIN db'.tickets = DOMAIN db.tickets \cup {n}
              /\ \A k \in DOMAIN db.tickets : db'.tickets[k] = db.tickets[k]
              /\ n \notin DOMAIN db.tickets => db'.tickets[n] = row
<1> DEFINE n == Counter!Cardinality(DOMAIN db.tickets) + 1
           row == [status |-> "VALID", of |-> [leg |-> r.sale.leg, type |-> r.sale.type],
                   price |-> r.sale.price, blind |-> r.blind]
           g == [k \in DOMAIN db.tickets \cup {n} |-> IF k \in DOMAIN db.tickets THEN db.tickets[k] ELSE row]
<1>1. r \in Counter!IssueReq
  BY DEF Counter!WireInv, Counter!ServeIssue, Counter!Requests, Counter!IssueReq, Counter!VerifyReq,
     Counter!VoidReq, Counter!ScanReq
<1>2. r.sale \in Counter!Sales /\ r.blind \in BOOLEAN /\ r.sale.leg # None
  BY <1>1 DEF Counter!IssueReq, Counter!WireInv, Counter!Sound
<1>3. row \in Counter!Rows
  BY <1>2 DEF Counter!Rows, Counter!Sales, Counter!Statuses
<1>4. n \in Counter!Numbers /\ db' = [db EXCEPT !.tickets = g]
  BY DEF Counter!ServeIssue
<1>5. db.tickets \in Counter!Tables(Counter!Rows)
  BY DEF Counter!Shape, Counter!Dbs
<1> HIDE DEF n
<1>6. /\ g \in Counter!Tables(Counter!Rows) /\ DOMAIN g = DOMAIN db.tickets \cup {n}
      /\ \A k \in DOMAIN db.tickets : g[k] = db.tickets[k]
      /\ n \notin DOMAIN db.tickets => g[n] = row
  <2> HIDE DEF row
  <2>1. PICK S \in SUBSET Counter!Numbers : db.tickets \in [S -> Counter!Rows]
    BY <1>5 DEF Counter!Tables
  <2>2. g \in [S \cup {n} -> Counter!Rows] /\ S \cup {n} \in SUBSET Counter!Numbers
    BY <1>3, <1>4, <2>1
  <2>3. g \in Counter!Tables(Counter!Rows)
    BY <2>2 DEF Counter!Tables
  <2> QED
    BY <2>3
<1> HIDE DEF g
<1>7. db' \in Counter!Dbs /\ db'.priced = db.priced /\ db'.tickets = g
  BY <1>4, <1>6 DEF Counter!Shape, Counter!Dbs
<1>8. row.status = "VALID" /\ row.of = Counter!Own(r.sale) /\ row.price = r.sale.price /\ row.blind = r.blind
  BY DEF Counter!Own
<1>9. r.kind = "issue" /\ \E phase \in {"ok", "error"} : Counter!Answer(r, phase)
  BY DEF Counter!ServeIssue
<1>10. UNCHANGED <<shown, due, dialog, form, hist>>
  BY DEF Counter!ServeIssue
<1> HIDE DEF row
<1> QED
  BY <1>3, <1>4, <1>6, <1>7, <1>8, <1>9, <1>10

\* A status saved: the row has it, and only the history tells what was there.
LEMMA CounterSavedStatus ==
  ASSUME Counter!Shape, Counter!WireInv, NEW r \in wire, NEW status \in Counter!Statuses,
             r.kind \in {"void", "scan"}, Counter!Save(r, status)
  PROVE  /\ db' \in Counter!Dbs /\ db'.priced = db.priced /\ hist' \in Counter!Hists
         /\ UNCHANGED <<shown, due, dialog, form>> /\ Counter!Answer(r, "ok")
         /\ r.no \in DOMAIN db.tickets /\ r.no \in Counter!Numbers /\ r.saw # "USED"
         /\ DOMAIN db'.tickets = DOMAIN db.tickets
         /\ \A k \in DOMAIN db.tickets \ {r.no} : db'.tickets[k] = db.tickets[k]
         /\ db'.tickets[r.no].status = status /\ db'.tickets[r.no].of = db.tickets[r.no].of
         /\ db'.tickets[r.no].price = db.tickets[r.no].price /\ db'.tickets[r.no].blind = db.tickets[r.no].blind
         /\ hist'.crossed = IF db.tickets[r.no].status = r.saw THEN hist.crossed ELSE hist.crossed \cup {r.no}
         /\ hist'.boarded = [hist.boarded EXCEPT ![r.no] = IF status = "USED" THEN @ + 1 ELSE @]
<1> DEFINE old == db.tickets[r.no]
           row == [old EXCEPT !.status = status]
           g == [db.tickets EXCEPT ![r.no] = row]
<1>1. r.no \in DOMAIN db.tickets /\ r.saw # "USED"
  BY DEF Counter!WireInv, Counter!Sound, Counter!Save
<1>2. db.tickets \in Counter!Tables(Counter!Rows)
  BY DEF Counter!Shape, Counter!Dbs
<1>3. r.no \in Counter!Numbers /\ old \in Counter!Rows
  BY <1>1, <1>2, CounterRowOf
<1>4. row \in Counter!Rows /\ row.status = status /\ row.of = old.of /\ row.price = old.price
          /\ row.blind = old.blind
  BY <1>3 DEF Counter!Rows
<1>5. db' = [db EXCEPT !.tickets = g]
  BY DEF Counter!Save
<1> HIDE DEF row
<1>6. g \in Counter!Tables(Counter!Rows)
  BY <1>1, <1>2, <1>4, CounterWritten
<1>7. DOMAIN g = DOMAIN db.tickets /\ g[r.no] = row /\ \A k \in DOMAIN db.tickets \ {r.no} : g[k] = db.tickets[k]
  BY <1>1
<1> HIDE DEF g
<1>8. db' \in Counter!Dbs /\ db'.priced = db.priced /\ db'.tickets = g
  BY <1>5, <1>6 DEF Counter!Shape, Counter!Dbs
<1>9. /\ hist' = [hist EXCEPT !.crossed = IF old.status = r.saw THEN @ ELSE @ \cup {r.no},
                              !.boarded[r.no] = IF status = "USED" THEN @ + 1 ELSE @]
      /\ Counter!Answer(r, "ok") /\ UNCHANGED <<shown, due, dialog, form>>
  BY DEF Counter!Save
<1>10. /\ hist' \in Counter!Hists
       /\ hist'.crossed = IF old.status = r.saw THEN hist.crossed ELSE hist.crossed \cup {r.no}
       /\ hist'.boarded = [hist.boarded EXCEPT ![r.no] = IF status = "USED" THEN @ + 1 ELSE @]
  <2>1. hist \in Counter!Hists /\ r.no \in Counter!Numbers
    BY <1>3 DEF Counter!Shape
  <2> DEFINE crossed == IF old.status = r.saw THEN hist.crossed ELSE hist.crossed \cup {r.no}
             boarded == [hist.boarded EXCEPT ![r.no] = IF status = "USED" THEN @ + 1 ELSE @]
  <2>2. crossed \in SUBSET Counter!Numbers /\ boarded \in [Counter!Numbers -> Nat]
    BY <2>1 DEF Counter!Hists
  <2>3. hist' = [hist EXCEPT !.crossed = crossed, !.boarded = boarded]
    BY <1>9, <2>1 DEF Counter!Hists
  <2> HIDE DEF crossed, boarded
  <2>4. hist' \in Counter!Hists /\ hist'.crossed = crossed /\ hist'.boarded = boarded
    BY <2>1, <2>2, <2>3 DEF Counter!Hists
  <2> QED
    BY <2>4 DEF crossed, boarded
<1> QED
  BY <1>1, <1>3, <1>4, <1>7, <1>8, <1>9, <1>10
\* Tickets are never taken away, so requests may go, and one may be added or
\* take the place of another.
LEMMA CounterWireStep ==
  ASSUME Counter!WireInv, DOMAIN db.tickets \subseteq DOMAIN db'.tickets, NEW q, wire' \subseteq wire \cup {q},
         q \in Counter!Requests, Counter!Sound(q, DOMAIN db.tickets)
  PROVE  Counter!WireInv'
<1>1. \A r : Counter!Sound(r, DOMAIN db.tickets) => Counter!Sound(r, DOMAIN db'.tickets)
  BY DEF Counter!Sound
<1> QED
  BY <1>1 DEF Counter!WireInv

LEMMA CounterWireLess ==
  ASSUME Counter!WireInv, DOMAIN db.tickets \subseteq DOMAIN db'.tickets, wire' \subseteq wire
  PROVE  Counter!WireInv'
<1>1. \A r : Counter!Sound(r, DOMAIN db.tickets) => Counter!Sound(r, DOMAIN db'.tickets)
  BY DEF Counter!Sound
<1> QED
  BY <1>1 DEF Counter!WireInv

\* An answer is a request of its kind in another phase.
LEMMA CounterAnswered ==
  ASSUME Counter!WireInv, DOMAIN db.tickets \subseteq DOMAIN db'.tickets, NEW r \in wire,
             NEW phase \in {"ok", "error"},
         r.kind = "verify" => phase = "error", Counter!Answer(r, phase)
  PROVE  Counter!WireInv'
<1> DEFINE q == [r EXCEPT !.phase = phase]
<1>1. CASE r.who # "desk"
  BY <1>1, CounterWireLess DEF Counter!Answer
<1>2. CASE r.who = "desk"
  <2>1. r \in Counter!Requests /\ Counter!Sound(r, DOMAIN db.tickets)
    BY DEF Counter!WireInv
  <2>2. r \in Counter!IssueReq => q \in Counter!IssueReq
    BY DEF Counter!IssueReq
  <2>3. r \in Counter!VerifyReq => q \in Counter!VerifyReq
    BY DEF Counter!VerifyReq
  <2>4. r \in Counter!VoidReq => q \in Counter!VoidReq
    BY DEF Counter!VoidReq
  <2>5. r \notin Counter!ScanReq
    BY <1>2 DEF Counter!ScanReq
  <2>6. q \in Counter!Requests
    BY <2>1, <2>2, <2>3, <2>4, <2>5 DEF Counter!Requests
  <2>7. /\ q.kind = r.kind /\ q.phase = phase
        /\ r.kind = "issue" => q.sale = r.sale
        /\ r.kind \in {"void", "scan"} => q.no = r.no
    BY <2>1 DEF Counter!Requests, Counter!IssueReq, Counter!VerifyReq, Counter!VoidReq, Counter!ScanReq
  <2>8. Counter!Sound(q, DOMAIN db.tickets)
    <3> HIDE DEF q
    <3> QED
      BY <2>1, <2>7 DEF Counter!Sound
  <2>9. wire' \subseteq wire \cup {q}
    BY <1>2 DEF Counter!Answer
  <2> HIDE DEF q
  <2> QED
    BY <2>6, <2>8, <2>9, CounterWireStep
<1> QED
  BY <1>1, <1>2

\* The server keeps what it read in the request.
LEMMA CounterHeldRead ==
  ASSUME Counter!WireInv, DOMAIN db.tickets \subseteq DOMAIN db'.tickets, NEW r \in wire,
             r.kind \in {"void", "scan"},
         NEW status \in Counter!Statuses \ {"USED"}, Counter!Replace(r, [r EXCEPT !.phase = "read", !.saw = status])
  PROVE  Counter!WireInv'
<1> DEFINE q == [r EXCEPT !.phase = "read", !.saw = status]
<1>1. r \in Counter!Requests /\ Counter!Sound(r, DOMAIN db.tickets)
  BY DEF Counter!WireInv
<1>2. r \in Counter!VoidReq \cup Counter!ScanReq
  BY <1>1 DEF Counter!Requests, Counter!IssueReq, Counter!VerifyReq
<1>3. r \in Counter!VoidReq => q \in Counter!VoidReq /\ q.kind = r.kind /\ q.no = r.no /\ q.saw = status
  BY DEF Counter!VoidReq
<1>4. r \in Counter!ScanReq => q \in Counter!ScanReq /\ q.kind = r.kind /\ q.no = r.no /\ q.saw = status
  BY DEF Counter!ScanReq
<1> HIDE DEF q
<1>5. q \in Counter!Requests
  BY <1>2, <1>3, <1>4 DEF Counter!Requests
<1>6. Counter!Sound(q, DOMAIN db.tickets)
  BY <1>1, <1>2, <1>3, <1>4 DEF Counter!Sound
<1>7. wire' \subseteq wire \cup {q}
  BY DEF Counter!Replace, q
<1> QED
  BY <1>5, <1>6, <1>7, CounterWireStep

\* A sender that gave up changes nothing of its request but whose it is.
LEMMA CounterGivenUp ==
  ASSUME Counter!WireInv, UNCHANGED db, NEW r \in wire, r.who = "desk",
             Counter!Replace(r, [r EXCEPT !.who = "gone"])
  PROVE  Counter!WireInv'
<1> DEFINE q == [r EXCEPT !.who = "gone"]
<1>1. r \in Counter!Requests /\ Counter!Sound(r, DOMAIN db.tickets)
  BY DEF Counter!WireInv
<1>2. r \in Counter!IssueReq => q \in Counter!IssueReq /\ q.kind = r.kind /\ q.sale = r.sale
  BY DEF Counter!IssueReq
<1>3. r \in Counter!VerifyReq => q \in Counter!VerifyReq /\ q.kind = r.kind /\ q.phase = r.phase
          /\ q.status = r.status
  BY DEF Counter!VerifyReq
<1>4. r \in Counter!VoidReq => q \in Counter!VoidReq /\ q.kind = r.kind /\ q.no = r.no /\ q.phase = r.phase
          /\ q.saw = r.saw
  BY DEF Counter!VoidReq
<1>5. r \notin Counter!ScanReq
  BY DEF Counter!ScanReq
<1>6. /\ r \in Counter!IssueReq => r.kind = "issue"
      /\ r \in Counter!VerifyReq => r.kind = "verify"
      /\ r \in Counter!VoidReq => r.kind = "void"
  BY DEF Counter!IssueReq, Counter!VerifyReq, Counter!VoidReq
<1> HIDE DEF q
<1>7. q \in Counter!Requests
  BY <1>1, <1>2, <1>3, <1>4, <1>5 DEF Counter!Requests
<1>8. Counter!Sound(q, DOMAIN db.tickets)
  BY <1>1, <1>2, <1>3, <1>4, <1>5, <1>6 DEF Counter!Sound, Counter!Requests
<1>9. wire' \subseteq wire \cup {q}
  BY DEF Counter!Replace, q
<1> QED
  BY <1>7, <1>8, <1>9, CounterWireStep
\* Every step keeps the rows rows, no fare is set or removed, no ticket goes.
LEMMA CounterDbKept ==
  ASSUME Counter!Shape, Counter!WireInv, [Counter!Next]_deskVars
  PROVE  /\ db' \in Counter!Dbs /\ db'.priced = db.priced
         /\ DOMAIN db.tickets \subseteq DOMAIN db'.tickets
<1>1. CASE UNCHANGED db
  BY <1>1 DEF Counter!Shape
<1>2. CASE Counter!EndDay
  BY <1>2 DEF Counter!EndDay, Counter!Shape, Counter!Dbs
<1>3. ASSUME NEW r \in wire, Counter!ServeIssue(r)
      PROVE  db' \in Counter!Dbs /\ db'.priced = db.priced /\ DOMAIN db.tickets \subseteq DOMAIN db'.tickets
  BY <1>3, CounterServedIssue
<1>4. ASSUME NEW r \in wire, Counter!SaveCancel(r) \/ Counter!SaveScan(r)
      PROVE  db' \in Counter!Dbs /\ db'.priced = db.priced /\ DOMAIN db.tickets \subseteq DOMAIN db'.tickets
  <2>1. PICK status \in Counter!Statuses : Counter!Save(r, status)
    BY <1>4 DEF Counter!SaveCancel, Counter!SaveScan, Counter!Statuses
  <2>2. r.kind \in {"void", "scan"}
    BY <1>4 DEF Counter!SaveCancel, Counter!SaveScan
  <2> QED
    BY <2>1, <2>2, CounterSavedStatus
<1>5. hist \in Counter!Hists
  BY DEF Counter!Shape
<1> QED
  BY <1>1, <1>2, <1>3, <1>4, <1>5, CounterDbFrame

\* Every step keeps the requests requests, on tickets that are there.
LEMMA CounterWireKept ==
  ASSUME Counter!Shape, Counter!SeenInv, Counter!WireInv, [Counter!Next]_deskVars
  PROVE  Counter!WireInv'
<1> DEFINE there == DOMAIN db.tickets
<1>1. there \subseteq DOMAIN db'.tickets
  BY CounterDbKept
<1>2. there \subseteq Counter!Numbers /\ \A n \in there : db.tickets[n] \in Counter!Rows
  BY CounterRowOf DEF Counter!Shape, Counter!Dbs
<1>3. CASE UNCHANGED wire
  BY <1>1, <1>3, CounterWireLess
<1>4. CASE Counter!SubmitIssue
  <2> DEFINE q == [kind |-> "issue", who |-> "desk", phase |-> "sent", sale |-> form.sale,
                   blind |-> form.sale.leg \notin form.known \/ Counter!Matches(form.sale.leg) = {}]
  <2>1. q \in Counter!IssueReq
    BY DEF Counter!IssueReq, Counter!Shape, Counter!Forms
  <2>2. Counter!Sound(q, there)
    BY <1>4 DEF Counter!Sound, Counter!SubmitIssue
  <2>3. wire' \subseteq wire \cup {q}
    BY <1>4 DEF Counter!SubmitIssue, Counter!Send
  <2> HIDE DEF q
  <2> QED
    BY <1>1, <2>1, <2>2, <2>3, CounterWireStep DEF Counter!Requests
<1>5. ASSUME NEW n \in there \cup {0}, Counter!HandleVerify(n) PROVE Counter!WireInv'
  <2> DEFINE q == [kind |-> "verify", who |-> "desk", phase |-> "sent", no |-> n, status |-> None]
  <2>1. q \in Counter!VerifyReq
    BY <1>2 DEF Counter!VerifyReq
  <2>2. Counter!Sound(q, there)
    BY DEF Counter!Sound
  <2>3. wire' \subseteq wire \cup {q}
    BY <1>5 DEF Counter!HandleVerify, Counter!Send
  <2> HIDE DEF q
  <2> QED
    BY <1>1, <2>1, <2>2, <2>3, CounterWireStep DEF Counter!Requests
<1>6. CASE Counter!SubmitVoid
  <2> DEFINE q == [kind |-> "void", who |-> "desk", phase |-> "sent", no |-> dialog.no, saw |-> None]
  <2>1. dialog.no \in there
    BY <1>6 DEF Counter!SubmitVoid, Counter!SeenInv
  <2>2. q \in Counter!VoidReq
    BY <1>2, <2>1 DEF Counter!VoidReq
  <2>3. Counter!Sound(q, there)
    BY <2>1 DEF Counter!Sound
  <2>4. wire' \subseteq wire \cup {q}
    BY <1>6 DEF Counter!SubmitVoid, Counter!Send
  <2> HIDE DEF q
  <2> QED
    BY <1>1, <2>2, <2>3, <2>4, CounterWireStep DEF Counter!Requests
<1>7. ASSUME NEW n \in there, Counter!Scan(n) PROVE Counter!WireInv'
  <2> DEFINE q == [kind |-> "scan", who |-> "other", phase |-> "sent", no |-> n, saw |-> None, nth |-> hist.sends]
  <2>1. q \in Counter!ScanReq
    BY <1>2 DEF Counter!ScanReq, Counter!Shape, Counter!Hists
  <2>2. Counter!Sound(q, there)
    BY DEF Counter!Sound
  <2>3. wire' \subseteq wire \cup {q}
    BY <1>7 DEF Counter!Scan, Counter!Send
  <2> HIDE DEF q
  <2> QED
    BY <1>1, <2>1, <2>2, <2>3, CounterWireStep DEF Counter!Requests
<1>8. ASSUME NEW r \in wire, Counter!ServeIssue(r) PROVE Counter!WireInv'
  <2>1. PICK phase \in {"ok", "error"} : r.kind = "issue" /\ Counter!Answer(r, phase)
    BY <1>8 DEF Counter!ServeIssue
  <2> QED
    BY <1>1, <2>1, CounterAnswered
<1>9. ASSUME NEW r \in wire, Counter!ServeVerify(r) PROVE Counter!WireInv'
  <2>1. CASE Counter!Answer(r, "error")
    BY <1>1, <2>1, CounterAnswered
  <2>2. CASE r.no \in there /\ Counter!Replace(r, [r EXCEPT !.phase = "ok", !.status = db.tickets[r.no].status])
    <3> DEFINE q == [r EXCEPT !.phase = "ok", !.status = db.tickets[r.no].status]
    <3>1. db.tickets[r.no].status \in Counter!Statuses
      BY <1>2, <2>2 DEF Counter!Rows
    <3>2. r \in Counter!VerifyReq
      BY <1>9 DEF Counter!ServeVerify, Counter!WireInv, Counter!Requests, Counter!IssueReq, Counter!VoidReq,
         Counter!ScanReq
    <3>3. q \in Counter!VerifyReq /\ q.kind = "verify" /\ q.status \in Counter!Statuses
      BY <3>1, <3>2 DEF Counter!VerifyReq
    <3>4. wire' \subseteq wire \cup {q}
      BY <2>2 DEF Counter!Replace
    <3> HIDE DEF q
    <3>5. Counter!Sound(q, there)
      BY <3>3 DEF Counter!Sound
    <3> QED
      BY <1>1, <3>3, <3>4, <3>5, CounterWireStep DEF Counter!Requests
  <2> QED
    BY <1>9, <2>1, <2>2 DEF Counter!ServeVerify
<1>10. ASSUME NEW r \in wire, Counter!ReadCancel(r) \/ Counter!ReadScan(r) PROVE Counter!WireInv'
  <2> DEFINE status == db.tickets[r.no].status
  <2>1. r.kind \in {"void", "scan"}
    BY <1>10 DEF Counter!ReadCancel, Counter!ReadScan
  <2>2. status \in Counter!Statuses
    BY <1>2, <2>1 DEF Counter!WireInv, Counter!Sound, Counter!Rows
  <2>3. \/ \E phase \in {"ok", "error"} : Counter!Answer(r, phase)
        \/ status # "USED" /\ Counter!Replace(r, [r EXCEPT !.phase = "read", !.saw = status])
    BY <1>10 DEF Counter!ReadCancel, Counter!ReadScan
  <2> HIDE DEF status
  <2>4. CASE \E phase \in {"ok", "error"} : Counter!Answer(r, phase)
    BY <1>1, <2>1, <2>4, CounterAnswered
  <2>5. CASE status # "USED" /\ Counter!Replace(r, [r EXCEPT !.phase = "read", !.saw = status])
    BY <1>1, <2>1, <2>2, <2>5, CounterHeldRead
  <2> QED
    BY <2>3, <2>4, <2>5
<1>11. ASSUME NEW r \in wire, Counter!SaveCancel(r) \/ Counter!SaveScan(r) PROVE Counter!WireInv'
  <2>1. r.kind \in {"void", "scan"} /\ Counter!Answer(r, "ok")
    BY <1>11 DEF Counter!SaveCancel, Counter!SaveScan, Counter!Save
  <2> QED
    BY <1>1, <2>1, CounterAnswered
<1>12. ASSUME NEW r \in wire, Counter!Settle(r) PROVE Counter!WireInv'
  BY <1>1, <1>12, CounterWireLess DEF Counter!Settle
<1>13. CASE Counter!Lapse
  <2>1. PICK r \in wire : /\ r.who = "desk" /\ UNCHANGED db
                          /\ wire' = wire \ {r} \/ Counter!Replace(r, [r EXCEPT !.who = "gone"])
    BY <1>13 DEF Counter!Lapse, Counter!GiveUp
  <2> QED
    BY <1>1, <2>1, CounterWireLess, CounterGivenUp
<1>14. \/ UNCHANGED wire \/ Counter!SubmitIssue \/ Counter!SubmitVoid \/ Counter!Lapse
       \/ \E n \in there \cup {0} : Counter!HandleVerify(n)
       \/ \E n \in there : Counter!Scan(n)
       \/ \E r \in wire : \/ Counter!ServeIssue(r) \/ Counter!ServeVerify(r) \/ Counter!ReadCancel(r)
                              \/ Counter!ReadScan(r) \/ Counter!SaveCancel(r)
                          \/ Counter!SaveScan(r) \/ Counter!Settle(r)
  <2>1. CASE Counter!LoadTickets \/ Counter!Browse
    BY <2>1 DEF Counter!LoadTickets, Counter!Browse, Counter!Arrive, Counter!Ask
  <2>2. CASE Counter!OpenVerify \/ \E n \in DOMAIN shown["tickets"] : Counter!OpenQr(n)
    BY <2>2 DEF Counter!OpenVerify, Counter!OpenQr, Counter!Open
  <2>3. CASE Counter!OpenPos \/ Counter!HandleClosePOS \/ Counter!OnNewTicket \/ Counter!CloseVerify
                 \/ Counter!OpenVoid \/ Counter!CloseQr \/ Counter!EndDay
    BY <2>3 DEF Counter!OpenPos, Counter!HandleClosePOS, Counter!OnNewTicket, Counter!CloseVerify,
       Counter!OpenVoid, Counter!CloseQr, Counter!EndDay
  <2>4. CASE Counter!ChooseRoute \/ Counter!TypePrice \/ \E t \in Types : Counter!HandleTicketTypeChange(t)
    BY <2>4 DEF Counter!ChooseRoute, Counter!TypePrice, Counter!HandleTicketTypeChange
  <2>5. CASE \E leg \in CounterLegs : Counter!ChooseStops(leg) \/ Counter!FaresFound(leg) \/ Counter!FaresLost(leg)
    BY <2>5 DEF Counter!ChooseStops, Counter!FaresFound, Counter!FaresLost
  <2>6. CASE \E r \in wire : Counter!SucceedIssue(r) \/ Counter!SucceedVoid(r) \/ Counter!HearVerdict(r)
                 \/ Counter!Fail(r)
    BY <2>6 DEF Counter!SucceedIssue, Counter!SucceedVoid, Counter!HearVerdict, Counter!Fail
  <2>7. CASE UNCHANGED deskVars
    BY <2>7 DEF deskVars
  <2> QED
    BY <2>1, <2>2, <2>3, <2>4, <2>5, <2>6, <2>7 DEF Counter!Next
<1> QED
  BY <1>3, <1>4, <1>5, <1>6, <1>7, <1>8, <1>9, <1>10, <1>11, <1>12, <1>13, <1>14
\* Every step keeps the history, the list and the dialog what they are, and of
\* tickets that are there.
LEMMA CounterShownKept ==
  ASSUME Counter!Shape, Counter!SeenInv, Counter!WireInv, [Counter!Next]_deskVars
  PROVE  /\ hist' \in Counter!Hists /\ shown' \in Counter!Shows /\ due' \subseteq {"tickets"} \cup CounterLegs
                /\ dialog' \in Counter!Dialogs
         /\ Counter!SeenInv'
<1> DEFINE there == DOMAIN db.tickets
           Kept == /\ hist' \in Counter!Hists /\ shown' \in Counter!Shows
               /\ due' \subseteq {"tickets"} \cup CounterLegs
                   /\ dialog' \in Counter!Dialogs /\ Counter!SeenInv'
<1>1. there \subseteq DOMAIN db'.tickets
  BY CounterDbKept
<1>2. there \in SUBSET Counter!Numbers /\ \A n \in there : db.tickets[n] \in Counter!Rows
  BY CounterRowOf DEF Counter!Shape, Counter!Dbs
<1>3. /\ hist \in Counter!Hists /\ shown \in Counter!Shows /\ due \subseteq {"tickets"} \cup CounterLegs
             /\ dialog \in Counter!Dialogs
      /\ DOMAIN shown["tickets"] \subseteq there
      /\ dialog # None => (dialog.kind \in {"qr", "void"} => dialog.no \in there)
  BY DEF Counter!Shape, Counter!SeenInv
<1> USE DEF Counter!Hists, Counter!Dialogs, Counter!SeenInv
<1>4. CASE UNCHANGED <<hist, shown, due, dialog>>
  BY <1>1, <1>3, <1>4
<1>5. CASE Counter!LoadTickets
  <2> DEFINE list == [n \in there |-> db.tickets[n].status]
  <2>1. list \in [there -> Counter!Statuses]
    BY <1>2 DEF Counter!Rows
  <2>2. list \in Counter!Tables(Counter!Statuses) /\ DOMAIN list = there
    BY <1>2, <2>1 DEF Counter!Tables
  <2>3. shown' = [shown EXCEPT !["tickets"] = list] /\ due' = due \ {"tickets"} /\ UNCHANGED <<db, dialog, hist>>
    BY <1>5 DEF Counter!LoadTickets, Counter!Arrive
  <2> HIDE DEF list
  <2>4. shown' \in Counter!Shows /\ DOMAIN shown'["tickets"] = there
    BY <1>3, <2>2, <2>3 DEF Counter!Shows
  <2> QED
    BY <1>3, <2>3, <2>4
<1>6. CASE Counter!Browse
  BY <1>1, <1>3, <1>6 DEF Counter!Browse, Counter!Ask
<1>7. ASSUME NEW n \in DOMAIN shown["tickets"], Counter!OpenQr(n) PROVE Kept
  <2>1. shown["tickets"][n] \in Counter!Statuses /\ n \in Counter!Numbers /\ n \in there
    BY <1>2, <1>3, CounterRowOf DEF Counter!Shows
  <2>2. /\ dialog' = [kind |-> "qr", no |-> n, status |-> shown["tickets"][n]]
        /\ hist' = [hist EXCEPT !.opens = @ + 1] /\ UNCHANGED <<db, shown, due>>
    BY <1>7 DEF Counter!OpenQr, Counter!Open
  <2> QED
    BY <1>3, <2>1, <2>2
<1>8. CASE Counter!OpenPos \/ Counter!OpenVerify
  BY <1>1, <1>3, <1>8 DEF Counter!OpenPos, Counter!OpenVerify, Counter!Open
<1>9. CASE Counter!HandleClosePOS \/ Counter!CloseVerify
  BY <1>1, <1>3, <1>9 DEF Counter!HandleClosePOS, Counter!CloseVerify
<1>10. CASE Counter!Pick /\ UNCHANGED <<shown, dialog>> /\ due' \subseteq due \cup CounterLegs
  BY <1>1, <1>3, <1>10 DEF Counter!Pick
<1>11. CASE due' \subseteq due \cup {"tickets"} /\ UNCHANGED <<hist, shown, dialog>>
  BY <1>1, <1>3, <1>11
<1>12. CASE hist' = [hist EXCEPT !.sends = @ + 1] /\ UNCHANGED <<shown, due, dialog>>
  BY <1>1, <1>3, <1>12
<1>13. CASE Counter!OpenVoid
  <2>1. dialog \in [kind: {"qr", "void"}, no: Counter!Numbers, status: Counter!Statuses]
    BY <1>3, <1>13 DEF Counter!OpenVoid
  <2> QED
    BY <1>1, <1>3, <1>13, <2>1 DEF Counter!OpenVoid
<1>14. CASE Counter!CloseQr
  <2>1. dialog \in [kind: {"qr", "void"}, no: Counter!Numbers, status: Counter!Statuses]
    BY <1>3, <1>14 DEF Counter!CloseQr
  <2> QED
    BY <1>1, <1>3, <1>14, <2>1 DEF Counter!CloseQr
<1>15. ASSUME NEW r \in wire, Counter!SaveCancel(r) \/ Counter!SaveScan(r) PROVE Kept
  <2>1. PICK status \in Counter!Statuses : Counter!Save(r, status)
    BY <1>15 DEF Counter!SaveCancel, Counter!SaveScan, Counter!Statuses
  <2>2. hist' \in Counter!Hists /\ UNCHANGED <<shown, due, dialog>>
    BY <1>15, <2>1, CounterSavedStatus DEF Counter!SaveCancel, Counter!SaveScan
  <2> QED
    BY <1>1, <1>3, <2>2
<1>16. ASSUME NEW r \in wire, Counter!SucceedVoid(r) PROVE Kept
  BY <1>1, <1>3, <1>16 DEF Counter!SucceedVoid, Counter!Invalidate
<1>17. \/ UNCHANGED <<hist, shown, due, dialog>>
       \/ Counter!LoadTickets \/ Counter!Browse \/ Counter!OpenPos \/ Counter!OpenVerify \/ Counter!HandleClosePOS
              \/ Counter!CloseVerify \/ Counter!OpenVoid \/ Counter!CloseQr
       \/ \E n \in DOMAIN shown["tickets"] : Counter!OpenQr(n)
       \/ Counter!Pick /\ UNCHANGED <<shown, dialog>> /\ due' \subseteq due \cup CounterLegs
       \/ due' \subseteq due \cup {"tickets"} /\ UNCHANGED <<hist, shown, dialog>>
       \/ hist' = [hist EXCEPT !.sends = @ + 1] /\ UNCHANGED <<shown, due, dialog>>
       \/ \E r \in wire : Counter!SaveCancel(r) \/ Counter!SaveScan(r) \/ Counter!SucceedVoid(r)
  <2>1. CASE Counter!ChooseRoute \/ Counter!TypePrice \/ \E t \in Types : Counter!HandleTicketTypeChange(t)
    BY <2>1 DEF Counter!ChooseRoute, Counter!TypePrice, Counter!HandleTicketTypeChange
  <2>2. CASE \E leg \in CounterLegs : Counter!ChooseStops(leg)
    BY <2>2 DEF Counter!ChooseStops
  <2>3. CASE \E leg \in CounterLegs : Counter!FaresFound(leg) \/ Counter!FaresLost(leg)
    BY <2>3 DEF Counter!FaresFound, Counter!FaresLost
  <2>4. CASE \/ Counter!SubmitIssue \/ Counter!SubmitVoid \/ \E n \in there \cup {0} : Counter!HandleVerify(n)
             \/ \E n \in there : Counter!Scan(n)
    BY <2>4 DEF Counter!SubmitIssue, Counter!SubmitVoid, Counter!HandleVerify, Counter!Scan, Counter!Send
  <2>5. CASE \E r \in wire : Counter!ServeIssue(r) \/ Counter!ServeVerify(r) \/ Counter!ReadCancel(r)
                 \/ Counter!ReadScan(r)
    BY <2>5 DEF Counter!ServeIssue, Counter!ServeVerify, Counter!ReadCancel, Counter!ReadScan
  <2>6. CASE \E r \in wire : Counter!SucceedIssue(r) \/ Counter!HearVerdict(r) \/ Counter!Fail(r)
    BY <2>6 DEF Counter!SucceedIssue, Counter!HearVerdict, Counter!Fail, Counter!Invalidate
  <2>7. CASE Counter!OnNewTicket \/ Counter!EndDay \/ Counter!Lapse
    BY <2>7 DEF Counter!OnNewTicket, Counter!EndDay, Counter!Lapse, Counter!GiveUp
  <2>8. CASE UNCHANGED deskVars
    BY <2>8 DEF deskVars
  <2> QED
    BY <2>1, <2>2, <2>3, <2>4, <2>5, <2>6, <2>7, <2>8 DEF Counter!Next
<1> QED
  BY <1>4, <1>5, <1>6, <1>7, <1>8, <1>9, <1>10, <1>11, <1>12, <1>13, <1>14, <1>15, <1>16, <1>17
\* What a new sale puts on the form.
LEMMA CounterNewSaleFits ==
  ASSUME Counter!CounterAssumption, Counter!Shape
  PROVE  Counter!NewSale \in Counter!Forms /\ Counter!NewSale.known = form.known
             /\ Counter!Fits(Counter!NewSale.sale, form.known)
<1> DEFINE s == Counter!Settled(Counter!Sale)
<1>1. Counter!Sale \in Counter!Sales /\ Counter!Sale.leg = None /\ ~Counter!Sale.edited
  BY DEF Counter!Sale, Counter!Sales, Counter!Prices
<1>2. s \in Counter!Sales /\ Counter!Fits(s, form.known)
  BY <1>1, CounterSettledSale, CounterSettledFits
<1>3. Counter!NewSale = [form EXCEPT !.sale = s, !.eticket = FALSE]
  BY DEF Counter!NewSale
<1> HIDE DEF s
<1>4. Counter!NewSale \in Counter!Forms /\ Counter!NewSale.known = form.known /\ Counter!NewSale.sale = s
  BY <1>2, <1>3 DEF Counter!Shape, Counter!Forms
<1> QED
  BY <1>2, <1>4

\* The form with another sale on it.
LEMMA CounterFormWith ==
  ASSUME Counter!Shape, NEW s \in Counter!Sales, form' = [form EXCEPT !.sale = s]
  PROVE  form' \in Counter!Forms /\ form'.sale = s /\ form'.known = form.known
  BY DEF Counter!Shape, Counter!Forms

\* Every step keeps the form a form, whose price fits.
LEMMA CounterFormKept ==
  ASSUME Counter!CounterAssumption, Counter!Shape, Counter!WireInv, Counter!Fits(form.sale, form.known),
             [Counter!Next]_deskVars
  PROVE  form' \in Counter!Forms /\ Counter!Fits(form'.sale, form'.known)
<1> DEFINE Kept == form' \in Counter!Forms /\ Counter!Fits(form'.sale, form'.known)
           sale == form.sale
<1>1. form \in Counter!Forms /\ sale \in Counter!Sales /\ form.known \subseteq CounterLegs
          /\ None \notin CounterLegs
  BY DEF Counter!Shape, Counter!Forms, Counter!CounterAssumption
<1>2. sale.edited => sale.price = Counter!Hand
  BY DEF Counter!Fits
<1>3. CASE UNCHANGED form
  BY <1>1, <1>3
<1>4. CASE Counter!OpenPos \/ Counter!HandleClosePOS \/ Counter!OnNewTicket
  BY <1>4, CounterNewSaleFits DEF Counter!OpenPos, Counter!HandleClosePOS, Counter!OnNewTicket
<1>5. CASE Counter!ChooseRoute
  <2> DEFINE s == [sale EXCEPT !.leg = None, !.edited = FALSE]
             t == Counter!Settled(s)
  <2>1. s \in Counter!Sales /\ s.leg = None /\ ~s.edited
    BY <1>1 DEF Counter!Sales
  <2>2. form' = [form EXCEPT !.sale = t]
    BY <1>5 DEF Counter!ChooseRoute
  <2> HIDE DEF s
  <2>3. t \in Counter!Sales /\ Counter!Fits(t, form.known)
    BY <2>1, CounterSettledSale, CounterSettledFits
  <2> HIDE DEF t
  <2> QED
    BY <2>2, <2>3, CounterFormWith
<1>6. ASSUME NEW leg \in CounterLegs, Counter!ChooseStops(leg) PROVE Kept
  <2> DEFINE s == [sale EXCEPT !.leg = leg]
             t == Counter!Settled(s)
  <2>1. s \in Counter!Sales /\ s.leg = leg /\ s.edited = sale.edited /\ s.price = sale.price
    BY <1>1 DEF Counter!Sales
  <2>2. form' = [form EXCEPT !.sale = t] /\ leg # form.sale.leg
    BY <1>6 DEF Counter!ChooseStops
  <2> HIDE DEF s
  <2>3. t \in Counter!Sales /\ Counter!Fits(t, form.known)
    BY <1>2, <2>1, <2>2, CounterSettledSale, CounterSettledFits
  <2> HIDE DEF t
  <2> QED
    BY <2>2, <2>3, CounterFormWith
<1>7. ASSUME NEW leg \in CounterLegs, Counter!FaresFound(leg) PROVE Kept
  <2> DEFINE s == IF sale.leg = leg THEN Counter!Suggested(sale, TRUE) ELSE sale
             known == form.known \cup {leg}
  <2>1. s \in Counter!Sales
    BY <1>1, CounterSuggestedSale DEF Counter!Shape, Counter!Dbs
  <2>2. Counter!Fits(s, known)
    <3>1. CASE sale.leg = leg
      BY <1>1, <1>2, <3>1, CounterSuggestedFits
    <3>2. CASE sale.leg # leg
      BY <3>2 DEF Counter!Fits
    <3> QED
      BY <3>1, <3>2
  <2>3. form' = [form EXCEPT !.known = known, !.sale = s]
    BY <1>1, <1>7 DEF Counter!FaresFound, Counter!Forms
  <2>4. known \subseteq CounterLegs
    BY <1>1
  <2> HIDE DEF s, known
  <2>5. form' \in Counter!Forms /\ form'.sale = s /\ form'.known = known
    BY <1>1, <2>1, <2>3, <2>4 DEF Counter!Forms
  <2> QED
    BY <2>2, <2>5
<1>8. ASSUME NEW t \in Types, Counter!HandleTicketTypeChange(t) PROVE Kept
  <2> DEFINE priced == sale.leg \in form.known /\ t \in Counter!Matches(sale.leg)
             price == IF sale.edited THEN sale.price
                      ELSE IF priced THEN [leg |-> sale.leg, type |-> t] ELSE None
             s == [sale EXCEPT !.type = t, !.price = price]
  <2>1. price \in Counter!Prices
    BY <1>1 DEF Counter!Prices, Counter!Fares, Counter!Sales, Counter!Matches
  <2>2. form' = [form EXCEPT !.sale = s]
    BY <1>1, <1>8 DEF Counter!HandleTicketTypeChange, Counter!Forms, Counter!Sales
  <2> HIDE DEF price
  <2>3. s \in Counter!Sales /\ s.leg = sale.leg /\ s.type = t /\ s.price = price /\ s.edited = sale.edited
    BY <1>1, <2>1 DEF Counter!Sales
  <2> HIDE DEF s
  <2>4. Counter!Fits(s, form.known)
    BY <1>2, <2>3 DEF Counter!Fits, Counter!Own, price
  <2> QED
    BY <2>2, <2>3, <2>4, CounterFormWith
<1>9. CASE Counter!TypePrice
  <2> DEFINE s == [sale EXCEPT !.price = Counter!Hand, !.edited = TRUE]
  <2>1. s \in Counter!Sales /\ s.price = Counter!Hand /\ s.edited
    BY <1>1 DEF Counter!Sales, Counter!Prices
  <2>2. form' = [form EXCEPT !.sale = s]
    BY <1>1, <1>9 DEF Counter!TypePrice, Counter!Forms, Counter!Sales
  <2> HIDE DEF s
  <2>3. Counter!Fits(s, form.known)
    BY <2>1 DEF Counter!Fits
  <2> QED
    BY <2>1, <2>2, <2>3, CounterFormWith
<1>10. CASE form' \in Counter!Forms /\ form'.sale = sale /\ form'.known = form.known
  BY <1>10
<1>11. CASE Counter!CloseVerify
  BY <1>1, <1>10, <1>11 DEF Counter!CloseVerify, Counter!Forms
<1>12. ASSUME NEW n \in DOMAIN db.tickets \cup {0}, Counter!HandleVerify(n) PROVE Kept
  <2>1. n \in Counter!Numbers \cup {0}
    BY CounterRowOf DEF Counter!Shape, Counter!Dbs
  <2> QED
    BY <1>1, <1>10, <1>12, <2>1 DEF Counter!HandleVerify, Counter!Forms
<1>13. ASSUME NEW r \in wire, Counter!SucceedIssue(r) PROVE Kept
  BY <1>1, <1>10, <1>13 DEF Counter!SucceedIssue, Counter!Forms
<1>14. ASSUME NEW r \in wire, Counter!HearVerdict(r) PROVE Kept
  <2> DEFINE verdict == IF r.phase = "ok" THEN [no |-> r.no, status |-> r.status] ELSE None
  <2>1. r \in Counter!VerifyReq /\ (r.phase = "ok" => r.status \in Counter!Statuses)
    BY <1>14 DEF Counter!HearVerdict, Counter!WireInv, Counter!Sound, Counter!Requests, Counter!IssueReq,
       Counter!VoidReq, Counter!ScanReq
  <2>2. verdict \in Counter!Verdicts \cup {None}
    BY <2>1 DEF Counter!VerifyReq, Counter!Verdicts
  <2>3. form' = [form EXCEPT !.verdict = verdict]
    BY <1>14 DEF Counter!HearVerdict
  <2> HIDE DEF verdict
  <2> QED
    BY <1>1, <1>10, <2>2, <2>3 DEF Counter!Forms
<1> HIDE DEF Kept
<1> QED
  BY <1>3, <1>4, <1>5, <1>6, <1>7, <1>8, <1>9, <1>11, <1>12, <1>13, <1>14, CounterFormFrame DEF Kept
\* Every step keeps a ticket from a second use: a scan that was not crossed
\* saves what it read not to be used, and a cancellation likewise.
LEMMA CounterUseKept ==
  ASSUME Counter!Shape, Counter!WireInv, Counter!UseInv, [Counter!Next]_deskVars
  PROVE  Counter!UseInv'
<1>1. CASE UNCHANGED <<db, hist.boarded, hist.crossed>>
  BY <1>1 DEF Counter!UseInv
<1>2. CASE Counter!EndDay
  BY <1>2 DEF Counter!EndDay, Counter!UseInv, Counter!Shape, Counter!Dbs
<1>3. ASSUME NEW r \in wire, Counter!ServeIssue(r) PROVE Counter!UseInv'
  BY <1>3, CounterServedIssue DEF Counter!UseInv
<1>4. ASSUME NEW r \in wire, Counter!SaveCancel(r) \/ Counter!SaveScan(r) PROVE Counter!UseInv'
  <2>1. PICK status \in Counter!Statuses : Counter!Save(r, status)
    BY <1>4 DEF Counter!SaveCancel, Counter!SaveScan, Counter!Statuses
  <2>2. r.kind \in {"void", "scan"}
    BY <1>4 DEF Counter!SaveCancel, Counter!SaveScan
  <2>3. /\ r.no \in DOMAIN db.tickets /\ r.no \in Counter!Numbers /\ r.saw # "USED"
        /\ DOMAIN db'.tickets = DOMAIN db.tickets
        /\ \A k \in DOMAIN db.tickets \ {r.no} : db'.tickets[k] = db.tickets[k]
        /\ db'.tickets[r.no].status = status
        /\ hist'.crossed = IF db.tickets[r.no].status = r.saw THEN hist.crossed ELSE hist.crossed \cup {r.no}
        /\ hist'.boarded = [hist.boarded EXCEPT ![r.no] = IF status = "USED" THEN @ + 1 ELSE @]
    BY <2>1, <2>2, CounterSavedStatus
  <2>4. hist.boarded \in [Counter!Numbers -> Nat]
    BY DEF Counter!Shape, Counter!Hists
  <2>5. ASSUME NEW n \in Counter!Numbers \ hist'.crossed
        PROVE  \/ hist'.boarded[n] = 0
               \/ hist'.boarded[n] = 1 /\ n \in DOMAIN db'.tickets /\ db'.tickets[n].status = "USED"
    <3>1. CASE n # r.no
      BY <2>3, <2>4, <2>5, <3>1 DEF Counter!UseInv
    <3>2. CASE n = r.no
      <4>1. db.tickets[n].status = r.saw /\ n \notin hist.crossed
        BY <2>3, <2>5, <3>2
      <4>2. hist.boarded[n] = 0
        BY <2>3, <2>5, <4>1 DEF Counter!UseInv
      <4>3. hist'.boarded[n] = IF status = "USED" THEN 1 ELSE 0
        BY <2>3, <2>4, <3>2, <4>2
      <4> QED
        BY <2>3, <3>2, <4>3
    <3> QED
      BY <3>1, <3>2
  <2> QED
    BY <2>5 DEF Counter!UseInv
<1>5. hist \in Counter!Hists
  BY DEF Counter!Shape
<1> QED
  BY <1>1, <1>2, <1>3, <1>4, <1>5, CounterDbFrame

\* A sale on its way keeps the sale and whether it was blind; one that is new
\* is the one on the form.
CounterPriced(r) == r.kind = "issue" /\ r.sale.price \in Counter!Fares
    => r.blind \/ r.sale.price = Counter!Own(r.sale)

LEMMA CounterSubmittedPriced ==
  ASSUME Counter!CounterAssumption, Counter!Shape, Counter!Fits(form.sale, form.known), Counter!SubmitIssue
  PROVE  \A r \in wire' \ wire : CounterPriced(r)
<1> DEFINE q == [kind |-> "issue", who |-> "desk", phase |-> "sent", sale |-> form.sale,
                 blind |-> form.sale.leg \notin form.known \/ Counter!Matches(form.sale.leg) = {}]
<1>1. wire' = wire \cup {q} /\ form.sale.price # None
  BY DEF Counter!SubmitIssue, Counter!Send
<1>2. Counter!Hand \notin Counter!Fares
  BY DEF Counter!CounterAssumption, Counter!Hand, Counter!Fares
<1>3. form.sale.price \in Counter!Fares =>
        (form.sale.leg \in form.known /\ Counter!Matches(form.sale.leg) # {}
            => form.sale.price = Counter!Own(form.sale))
  BY <1>1, <1>2 DEF Counter!Fits
<1>4. CounterPriced(q)
  BY <1>3 DEF CounterPriced
<1> QED
  BY <1>1, <1>4

\* Every other request is what it was, in another phase or another's.
LEMMA CounterSameSales ==
  ASSUME Counter!WireInv, [Counter!Next]_deskVars, ~Counter!SubmitIssue, NEW q \in wire', q.kind = "issue"
  PROVE  \E r \in wire : r.kind = "issue" /\ q.sale = r.sale /\ q.blind = r.blind
<1> DEFINE Was == \E r \in wire : r.kind = "issue" /\ q.sale = r.sale /\ q.blind = r.blind
<1>1. CASE q \in wire
  BY <1>1
<1>2. ASSUME NEW r \in wire, NEW phase, q = [r EXCEPT !.phase = phase] PROVE Was
  <2>1. r \in Counter!Requests
    BY DEF Counter!WireInv
  <2>2. r.kind = q.kind
    BY <1>2, <2>1 DEF Counter!Requests, Counter!IssueReq, Counter!VerifyReq, Counter!VoidReq, Counter!ScanReq
  <2>3. r \in Counter!IssueReq
    BY <2>1, <2>2 DEF Counter!Requests, Counter!IssueReq, Counter!VerifyReq, Counter!VoidReq, Counter!ScanReq
  <2> QED
    BY <1>2, <2>2, <2>3 DEF Counter!IssueReq
<1>3. ASSUME NEW r \in wire, q = [r EXCEPT !.who = "gone"] PROVE Was
  <2>1. r \in Counter!Requests
    BY DEF Counter!WireInv
  <2>2. r.kind = q.kind
    BY <1>3, <2>1 DEF Counter!Requests, Counter!IssueReq, Counter!VerifyReq, Counter!VoidReq, Counter!ScanReq
  <2>3. r \in Counter!IssueReq
    BY <2>1, <2>2 DEF Counter!Requests, Counter!IssueReq, Counter!VerifyReq, Counter!VoidReq, Counter!ScanReq
  <2> QED
    BY <1>3, <2>2, <2>3 DEF Counter!IssueReq
<1>4. ASSUME NEW r \in wire, NEW phase, Counter!Answer(r, phase) PROVE Was
  BY <1>1, <1>2, <1>4 DEF Counter!Answer
<1>5. ASSUME NEW r \in wire, r.kind = "verify", NEW status,
                 Counter!Replace(r, [r EXCEPT !.phase = "ok", !.status = status])
      PROVE  Was
  <2>1. r \in Counter!VerifyReq
    BY <1>5 DEF Counter!WireInv, Counter!Requests, Counter!IssueReq, Counter!VoidReq, Counter!ScanReq
  <2>2. [r EXCEPT !.phase = "ok", !.status = status].kind = "verify"
    BY <2>1 DEF Counter!VerifyReq
  <2> QED
    BY <1>1, <1>5, <2>2 DEF Counter!Replace
<1>6. ASSUME NEW r \in wire, r.kind \in {"void", "scan"}, NEW status,
             Counter!Replace(r, [r EXCEPT !.phase = "read", !.saw = status])
      PROVE  Was
  <2>1. r \in Counter!VoidReq \cup Counter!ScanReq
    BY <1>6 DEF Counter!WireInv, Counter!Requests, Counter!IssueReq, Counter!VerifyReq
  <2>2. [r EXCEPT !.phase = "read", !.saw = status].kind = r.kind
    BY <2>1 DEF Counter!VoidReq, Counter!ScanReq
  <2> QED
    BY <1>1, <1>6, <2>2 DEF Counter!Replace
<1> HIDE DEF Was
<1>7. CASE wire' \subseteq wire
  BY <1>1, <1>7
<1>8. CASE Counter!LoadTickets \/ Counter!Browse \/ \E n \in DOMAIN shown["tickets"] : Counter!OpenQr(n)
  BY <1>7, <1>8 DEF Counter!LoadTickets, Counter!Browse, Counter!OpenQr, Counter!Arrive, Counter!Ask, Counter!Open
<1>9. CASE \/ Counter!OpenVerify \/ Counter!OpenPos \/ Counter!HandleClosePOS \/ Counter!OnNewTicket
                  \/ Counter!CloseVerify \/ Counter!OpenVoid \/ Counter!CloseQr \/ Counter!EndDay
  BY <1>7, <1>9 DEF Counter!OpenVerify, Counter!Open, Counter!OpenPos, Counter!HandleClosePOS, Counter!OnNewTicket,
     Counter!CloseVerify, Counter!OpenVoid, Counter!CloseQr, Counter!EndDay
<1>10. CASE \/ Counter!ChooseRoute \/ Counter!TypePrice \/ (\E t \in Types : Counter!HandleTicketTypeChange(t))
            \/ \E leg \in CounterLegs : Counter!ChooseStops(leg) \/ Counter!FaresFound(leg)
                   \/ Counter!FaresLost(leg)
  BY <1>7, <1>10 DEF Counter!ChooseRoute, Counter!TypePrice, Counter!HandleTicketTypeChange, Counter!ChooseStops,
     Counter!FaresFound, Counter!FaresLost
<1>11. CASE \/ Counter!SubmitVoid \/ (\E n \in DOMAIN db.tickets \cup {0} : Counter!HandleVerify(n))
            \/ \E n \in DOMAIN db.tickets : Counter!Scan(n)
  BY <1>1, <1>11 DEF Counter!SubmitVoid, Counter!HandleVerify, Counter!Scan, Counter!Send
<1>12. ASSUME NEW r \in wire,
              Counter!ServeIssue(r) \/ Counter!ServeVerify(r) \/ Counter!ReadCancel(r) \/ Counter!ReadScan(r)
                  \/ Counter!SaveCancel(r) \/ Counter!SaveScan(r)
       PROVE  Was
  <2>1. CASE Counter!ServeIssue(r)
    BY <1>4, <2>1 DEF Counter!ServeIssue
  <2>2. CASE Counter!ServeVerify(r)
    BY <1>4, <1>5, <2>2 DEF Counter!ServeVerify
  <2>3. CASE Counter!ReadCancel(r)
    BY <1>4, <1>6, <2>3 DEF Counter!ReadCancel
  <2>4. CASE Counter!ReadScan(r)
    BY <1>4, <1>6, <2>4 DEF Counter!ReadScan
  <2>5. CASE Counter!SaveCancel(r) \/ Counter!SaveScan(r)
    BY <1>4, <2>5 DEF Counter!SaveCancel, Counter!SaveScan, Counter!Save
  <2> QED
    BY <1>12, <2>1, <2>2, <2>3, <2>4, <2>5
<1>13. CASE \E r \in wire : Counter!SucceedIssue(r) \/ Counter!SucceedVoid(r) \/ Counter!HearVerdict(r)
                \/ Counter!Fail(r)
  BY <1>7, <1>13 DEF Counter!SucceedIssue, Counter!SucceedVoid, Counter!HearVerdict, Counter!Fail, Counter!Settle
<1>14. CASE Counter!Lapse
  <2>1. PICK r \in wire : wire' = wire \ {r} \/ wire' = (wire \ {r}) \cup {[r EXCEPT !.who = "gone"]}
    BY <1>14 DEF Counter!Lapse, Counter!GiveUp, Counter!Replace
  <2>2. CASE q \in wire
    BY <1>1, <2>2
  <2>3. CASE q = [r EXCEPT !.who = "gone"]
    BY <1>3, <2>3
  <2> QED
    BY <2>1, <2>2, <2>3
<1>15. CASE UNCHANGED deskVars
  BY <1>7, <1>15 DEF deskVars
<1> QED
  BY <1>8, <1>9, <1>10, <1>11, <1>12, <1>13, <1>14, <1>15 DEF Counter!Next, Was

\* Every step keeps the sales under way and the tickets at the price of their own
\* leg and type.
LEMMA CounterPriceKept ==
  ASSUME Counter!CounterAssumption, Counter!Shape, Counter!WireInv, Counter!PriceInv, [Counter!Next]_deskVars
  PROVE  Counter!PriceInv'
<1>1. Counter!Fits(form.sale, form.known) /\ (\A r \in wire : CounterPriced(r)) /\ Counter!SoldAtItsFare
  BY DEF Counter!PriceInv, CounterPriced
<1>2. Counter!Fits(form'.sale, form'.known) /\ db'.priced = db.priced
  BY <1>1, CounterFormKept, CounterDbKept
<1>3. Counter!Fits(form.sale, form.known)'
  BY <1>2 DEF Counter!Fits, Counter!Matches
<1>4. ASSUME NEW q \in wire' PROVE CounterPriced(q)
  <2>1. CASE Counter!SubmitIssue
    BY <1>1, <2>1, CounterSubmittedPriced
  <2>2. CASE ~Counter!SubmitIssue
    BY <1>1, <2>2, CounterSameSales DEF CounterPriced
  <2> QED
    BY <2>1, <2>2
<1>5. Counter!SoldAtItsFare'
  <2>1. CASE UNCHANGED db
    BY <1>1, <2>1 DEF Counter!SoldAtItsFare
  <2>2. CASE Counter!EndDay
    BY <1>1, <2>2 DEF Counter!EndDay, Counter!SoldAtItsFare, Counter!Shape, Counter!Dbs
  <2>3. ASSUME NEW r \in wire, Counter!ServeIssue(r) PROVE Counter!SoldAtItsFare'
    <3>1. PICK n \in Counter!Numbers, row \in Counter!Rows :
            /\ r.kind = "issue" /\ row.of = Counter!Own(r.sale) /\ row.price = r.sale.price /\ row.blind = r.blind
            /\ DOMAIN db'.tickets = DOMAIN db.tickets \cup {n}
            /\ \A k \in DOMAIN db.tickets : db'.tickets[k] = db.tickets[k]
            /\ n \notin DOMAIN db.tickets => db'.tickets[n] = row
      BY <2>3, CounterServedIssue
    <3>2. row.price \in Counter!Fares => row.blind \/ row.price = row.of
      BY <1>1, <3>1 DEF CounterPriced
    <3> QED
      BY <1>1, <3>1, <3>2 DEF Counter!SoldAtItsFare
  <2>4. ASSUME NEW r \in wire, Counter!SaveCancel(r) \/ Counter!SaveScan(r) PROVE Counter!SoldAtItsFare'
    <3>1. PICK status \in Counter!Statuses : Counter!Save(r, status)
      BY <2>4 DEF Counter!SaveCancel, Counter!SaveScan, Counter!Statuses
    <3>2. r.kind \in {"void", "scan"}
      BY <2>4 DEF Counter!SaveCancel, Counter!SaveScan
    <3>3. /\ DOMAIN db'.tickets = DOMAIN db.tickets /\ r.no \in DOMAIN db.tickets
          /\ \A k \in DOMAIN db.tickets :
               /\ db'.tickets[k].price = db.tickets[k].price /\ db'.tickets[k].blind = db.tickets[k].blind
               /\ db'.tickets[k].of = db.tickets[k].of
      <4>1. /\ DOMAIN db'.tickets = DOMAIN db.tickets /\ r.no \in DOMAIN db.tickets
            /\ \A k \in DOMAIN db.tickets \ {r.no} : db'.tickets[k] = db.tickets[k]
            /\ db'.tickets[r.no].of = db.tickets[r.no].of /\ db'.tickets[r.no].price = db.tickets[r.no].price
            /\ db'.tickets[r.no].blind = db.tickets[r.no].blind
        BY <3>1, <3>2, CounterSavedStatus
      <4> QED
        BY <4>1
    <3> QED
      BY <1>1, <3>3 DEF Counter!SoldAtItsFare
  <2>5. hist \in Counter!Hists
    BY DEF Counter!Shape
  <2> QED
    BY <2>1, <2>2, <2>3, <2>4, <2>5, CounterDbFrame
<1> QED
  BY <1>3, <1>4, <1>5 DEF Counter!PriceInv, CounterPriced
\* At the start one ticket was sold, by hand, and nothing is under way.
LEMMA CounterInitIInv == ASSUME Counter!CounterAssumption, Counter!Init PROVE Counter!IInv
<1>1. PICK fare \in Counter!Fares :
        db = [tickets |-> <<[status |-> "VALID", of |-> fare, price |-> Counter!Hand, blind |-> FALSE]>>,
              priced |-> {fare}, over |-> FALSE]
  BY DEF Counter!Init
<1> DEFINE row == [status |-> "VALID", of |-> fare, price |-> Counter!Hand, blind |-> FALSE]
<1>2. row \in Counter!Rows
  BY DEF Counter!Rows, Counter!Fares, Counter!Prices, Counter!Statuses
<1>3. row.price \notin Counter!Fares
  BY DEF Counter!CounterAssumption, Counter!Hand, Counter!Fares
<1>4. {1} \in SUBSET Counter!Numbers
  BY DEF Counter!CounterAssumption, Counter!Numbers
<1>5. db = [tickets |-> <<row>>, priced |-> {fare}, over |-> FALSE]
  BY <1>1
<1> HIDE DEF row
<1>6. <<row>> \in [{1} -> Counter!Rows] /\ DOMAIN <<row>> = {1} /\ <<row>>[1] = row
  BY <1>2
<1>7. <<row>> \in Counter!Tables(Counter!Rows)
  BY <1>4, <1>6 DEF Counter!Tables
<1>8. /\ db \in Counter!Dbs /\ DOMAIN db.tickets = {1} /\ db.tickets[1] = row
  BY <1>5, <1>6, <1>7 DEF Counter!Dbs
<1>9. /\ shown = [tickets |-> <<>>] /\ due = {"tickets"} /\ dialog = None /\ wire = {}
      /\ form = [sale |-> Counter!Sale, eticket |-> FALSE, known |-> {}, number |-> None, verdict |-> None]
      /\ hist = [opens |-> 0, sends |-> 0, boarded |-> [n \in Counter!Numbers |-> 0], crossed |-> {}, picks |-> 0]
  BY DEF Counter!Init
<1>10. <<>> \in Counter!Tables(Counter!Statuses)
  <2>1. {} \in SUBSET Counter!Numbers /\ <<>> \in [{} -> Counter!Statuses]
    OBVIOUS
  <2> QED
    BY <2>1 DEF Counter!Tables
<1>11. Counter!Shape
  <2>1. form \in Counter!Forms
    BY <1>9 DEF Counter!Forms, Counter!Sale, Counter!Sales, Counter!Prices
  <2>2. hist \in Counter!Hists
    BY <1>9 DEF Counter!Hists
  <2>3. shown \in Counter!Shows
    BY <1>9, <1>10 DEF Counter!Shows
  <2> QED
    BY <1>8, <1>9, <2>1, <2>2, <2>3 DEF Counter!Shape, Counter!Dialogs
<1>12. Counter!SeenInv
  BY <1>9 DEF Counter!SeenInv
<1>13. Counter!WireInv
  BY <1>9 DEF Counter!WireInv
<1>14. Counter!UseInv
  BY <1>9 DEF Counter!UseInv
<1>15. Counter!PriceInv
  <2>1. Counter!Fits(form.sale, form.known)
    BY <1>9 DEF Counter!Fits, Counter!Sale
  <2>2. Counter!SoldAtItsFare
    BY <1>3, <1>8 DEF Counter!SoldAtItsFare
  <2> QED
    BY <1>9, <2>1, <2>2 DEF Counter!PriceInv
<1> QED
  BY <1>11, <1>12, <1>13, <1>14, <1>15 DEF Counter!IInv

\* The invariant is inductive.
LEMMA CounterNextIInv == ASSUME Counter!CounterAssumption, Counter!IInv, [Counter!Next]_deskVars PROVE Counter!IInv'
<1>1. Counter!Shape /\ Counter!SeenInv /\ Counter!WireInv /\ Counter!UseInv /\ Counter!PriceInv
  BY DEF Counter!IInv
<1>2. Counter!Shape'
  <2>1. Counter!Fits(form.sale, form.known)
    BY <1>1 DEF Counter!PriceInv
  <2>2. db' \in Counter!Dbs
    BY <1>1, CounterDbKept
  <2>3. form' \in Counter!Forms
    BY <1>1, <2>1, CounterFormKept
  <2> QED
    BY <1>1, <2>2, <2>3, CounterShownKept DEF Counter!Shape
<1>3. Counter!SeenInv' /\ Counter!WireInv' /\ Counter!UseInv' /\ Counter!PriceInv'
  BY <1>1, CounterShownKept, CounterWireKept, CounterUseKept, CounterPriceKept
<1> QED
  BY <1>2, <1>3 DEF Counter!IInv

LEMMA CounterInvariant == ASSUME Counter!CounterAssumption PROVE Counter!Spec => []Counter!IInv
<1>1. Counter!Init => Counter!IInv
  BY CounterInitIInv
<1>2. Counter!IInv /\ [Counter!Next]_deskVars => Counter!IInv'
  BY CounterNextIInv
<1> QED
  BY <1>1, <1>2, PTL DEF Counter!Spec, Counter!deskVars, deskVars

\* The tickets, the list, the form and the dialogs are what the page takes them for.
THEOREM CounterTypeCorrect == ASSUME Counter!CounterAssumption PROVE Counter!Spec => []Counter!TypeOK
<1>1. ASSUME Counter!IInv PROVE Counter!TypeOK
  <2>1. Counter!Shape
    BY <1>1 DEF Counter!IInv
  <2>2. db.tickets \in Counter!Tables(Counter!Rows) /\ db.priced \subseteq Counter!Fares /\ db.over \in BOOLEAN
    BY <2>1 DEF Counter!Shape, Counter!Dbs
  <2>3. shown["tickets"] \in Counter!Tables(Counter!Statuses)
    BY <2>1 DEF Counter!Shape, Counter!Shows
  <2>4. /\ form.sale \in Counter!Sales /\ form.eticket \in BOOLEAN /\ form.known \subseteq CounterLegs
        /\ form.number \in Counter!Numbers \cup {0, None} /\ form.verdict \in Counter!Verdicts \cup {None}
    BY <2>1 DEF Counter!Shape, Counter!Forms
  <2>5. due \subseteq {"tickets"} \cup CounterLegs /\ dialog \in Counter!Dialogs
    BY <2>1 DEF Counter!Shape
  <2> QED
    BY <2>2, <2>3, <2>4, <2>5, CounterRowOf DEF Counter!TypeOK, Counter!Dialogs
<1> QED
  BY <1>1, CounterInvariant, PTL

\* Whoever scans and voids what, a ticket on which no two requests crossed is
\* boarded on once at most, and not once it is void.
THEOREM CounterUsedOnce == ASSUME Counter!CounterAssumption PROVE Counter!Spec => []Counter!OneUse
<1>1. ASSUME Counter!IInv PROVE Counter!OneUse
  <2>1. Counter!UseInv /\ DOMAIN db.tickets \subseteq Counter!Numbers
    BY <1>1, CounterRowOf DEF Counter!IInv, Counter!Shape, Counter!Dbs
  <2> QED
    BY <2>1 DEF Counter!UseInv, Counter!OneUse
<1> QED
  BY <1>1, CounterInvariant, PTL

\* Whatever is chosen on the form, in whatever order the fares arrive, a price
\* that was suggested is sold for its own leg and type.
THEOREM CounterPricedAsSuggested == ASSUME Counter!CounterAssumption PROVE Counter!Spec => []Counter!SoldAtItsFare
<1>1. Counter!IInv => Counter!SoldAtItsFare
  BY DEF Counter!IInv, Counter!PriceInv
<1> QED
  BY <1>1, CounterInvariant, PTL

\* ---- the fare chart --------------------------------------------------------------------

\* ---- lines, legs and the rows of the import form -------------------------------------

\* Two stops of a line make a leg of it, since it stops nowhere twice.
LEMMA FareLineStops ==
  ASSUME Fares!FareAssumption, NEW route \in Fares!Routes
  PROVE  /\ Len(Line[route]) \in Nat /\ DOMAIN Line[route] = 1..Len(Line[route])
         /\ Len(Line[route]) - 1 <= MaxImports
         /\ Fares!LegsOf[route] \subseteq Fares!Legs
         /\ \A p, q \in DOMAIN Line[route] : p # q => <<Line[route][p], Line[route][q]>> \in Fares!LegsOf[route]
<1>1. Line[route] \in Seq(Fares!ToSet(Line[route])) /\ Len(Line[route]) - 1 <= MaxImports
  BY DEF Fares!FareAssumption
<1>2. Fares!LegsOf[route] \subseteq Fares!Legs
  BY DEF Fares!Legs
<1>3. ASSUME NEW p \in DOMAIN Line[route], NEW q \in DOMAIN Line[route], p # q
      PROVE  <<Line[route][p], Line[route][q]>> \in Fares!LegsOf[route]
  <2>1. Line[route][p] \in Fares!ToSet(Line[route]) /\ Line[route][q] \in Fares!ToSet(Line[route])
    BY DEF Fares!ToSet
  <2>2. Line[route][p] # Line[route][q]
    BY <1>3 DEF Fares!FareAssumption
  <2> QED
    BY <2>1, <2>2 DEF Fares!LegsOf
<1> QED
  BY <1>1, <1>2, <1>3

\* What the legs of an import form may be.
FareFormRows(rows) == rows \in Seq(Fares!Legs \cup {Fares!Flat}) /\ Len(rows) \in 1..MaxImports

\* What the form suggests for a route are legs of that route.
LEMMA FareSuggestedRows ==
  ASSUME Fares!FareAssumption, NEW route \in Fares!Routes, NEW rows, FareFormRows(rows)
  PROVE  /\ FareFormRows(Fares!Suggested(rows, route))
         /\ Len(Line[route]) > 1 => Fares!ToSet(Fares!Suggested(rows, route)) \subseteq Fares!LegsOf[route]
<1>1. CASE Len(Line[route]) < 2
  BY <1>1, FareLineStops DEF Fares!Suggested
<1>2. CASE ~(Len(Line[route]) < 2)
  <2> DEFINE n == Len(Line[route]) - 1
             legs == [k \in 1..n |-> <<Line[route][k], Line[route][k + 1]>>]
  <2>1. Fares!Suggested(rows, route) = legs
    BY <1>2 DEF Fares!Suggested
  <2>2. n \in Nat /\ n >= 1 /\ n <= MaxImports
    BY <1>2, FareLineStops
  <2>3. ASSUME NEW k \in 1..n PROVE legs[k] \in Fares!LegsOf[route] /\ legs[k] \in Fares!Legs
    <3>1. k \in DOMAIN Line[route] /\ k + 1 \in DOMAIN Line[route] /\ k # k + 1
      BY <2>2, FareLineStops
    <3> QED
      BY <3>1, FareLineStops
  <2> HIDE DEF n
  <2>4. legs \in Seq(Fares!Legs \cup {Fares!Flat}) /\ Len(legs) = n
    BY <2>2, <2>3
  <2>5. Fares!ToSet(legs) \subseteq Fares!LegsOf[route]
    BY <2>3 DEF Fares!ToSet
  <2>6. Len(legs) \in 1..MaxImports
    BY <2>2, <2>4 DEF Fares!FareAssumption
  <2> HIDE DEF legs
  <2> QED
    BY <2>1, <2>4, <2>5, <2>6 DEF FareFormRows
<1> QED
  BY <1>1, <1>2

\* A sequence without one of its places.
LEMMA FareRemoved ==
  ASSUME NEW S, NEW s \in Seq(S), NEW k \in DOMAIN s, Len(s) > 1
  PROVE  /\ Fares!RemoveAt(s, k) \in Seq(S) /\ Len(Fares!RemoveAt(s, k)) = Len(s) - 1
         /\ Fares!ToSet(Fares!RemoveAt(s, k)) \subseteq Fares!ToSet(s)
<1> DEFINE before == SubSeq(s, 1, k - 1)
           after == SubSeq(s, k + 1, Len(s))
<1>1. k \in 1..Len(s) /\ Len(s) \in Nat
  OBVIOUS
<1>2. before \in Seq(S) /\ Len(before) = k - 1 /\ \A i \in 1..(k - 1) : before[i] = s[i]
  BY <1>1
<1>3. after \in Seq(S) /\ Len(after) = Len(s) - k /\ \A i \in 1..(Len(s) - k) : after[i] = s[k + i]
  BY <1>1
<1>4. Fares!RemoveAt(s, k) = before \o after
  BY DEF Fares!RemoveAt
<1> HIDE DEF before, after
<1>5. before \o after \in Seq(S) /\ Len(before \o after) = Len(s) - 1
  BY <1>1, <1>2, <1>3
<1>6. ASSUME NEW i \in 1..(Len(s) - 1)
      PROVE  (before \o after)[i] = IF i <= k - 1 THEN before[i] ELSE after[i - (k - 1)]
  BY <1>1, <1>2, <1>3
<1>7. ASSUME NEW i \in 1..(Len(s) - 1) PROVE (before \o after)[i] \in Fares!ToSet(s)
  <2>1. CASE i <= k - 1
    <3>1. i \in DOMAIN s /\ (before \o after)[i] = s[i]
      BY <1>1, <1>2, <1>6, <2>1
    <3> QED
      BY <3>1 DEF Fares!ToSet
  <2>2. CASE ~(i <= k - 1)
    <3>1. i - (k - 1) \in 1..(Len(s) - k) /\ k + (i - (k - 1)) = i + 1
      BY <1>1, <2>2
    <3>2. (before \o after)[i] = after[i - (k - 1)] /\ after[i - (k - 1)] = s[k + (i - (k - 1))]
      BY <1>3, <1>6, <2>2, <3>1
    <3>3. i + 1 \in DOMAIN s /\ (before \o after)[i] = s[i + 1]
      BY <1>1, <3>1, <3>2
    <3> QED
      BY <3>3 DEF Fares!ToSet
  <2> QED
    BY <2>1, <2>2
<1>8. DOMAIN (before \o after) = 1..(Len(s) - 1)
  BY <1>5
<1> QED
  BY <1>4, <1>5, <1>7, <1>8 DEF Fares!ToSet

\* ---- the requests ---------------------------------------------------------------------

\* A request whose sender gave up holds what it held.
LEMMA FareGoneSound ==
  ASSUME NEW r \in Fares!Requests, Fares!Sound(r)
  PROVE  [r EXCEPT !.who = "gone"] \in Fares!Requests /\ Fares!Sound([r EXCEPT !.who = "gone"])
<1>1. PICK q : q = [r EXCEPT !.who = "gone"]
  OBVIOUS
<1>2. q \in Fares!Requests
  BY <1>1 DEF Fares!Requests, Fares!Whos
<1>3. /\ q.kind = r.kind /\ q.phase = r.phase
      /\ r.kind \in {"edit", "delete"} => q.id = r.id
      /\ r.kind = "import" => q.early = r.early /\ q.rows = r.rows /\ q.route = r.route /\ q.found = r.found
      /\ r.kind = "generate" => q.legs = r.legs /\ q.route = r.route
      /\ r.phase = "read" => q.read = r.read
  BY <1>1 DEF Fares!Requests
<1>4. Fares!Sound(q)
  BY <1>3 DEF Fares!Sound, Fares!Knows, Fares!Late
<1> QED
  BY <1>1, <1>2, <1>4

\* An answer holds nothing any more.
LEMMA FareAnswerSound ==
  ASSUME NEW r \in Fares!Requests, Fares!Sound(r), NEW phase \in {"ok", "error"}, phase = "ok" \/ r.kind # "add"
  PROVE  [r EXCEPT !.phase = phase] \in Fares!Requests /\ Fares!Sound([r EXCEPT !.phase = phase])
<1>1. PICK q : q = [r EXCEPT !.phase = phase]
  OBVIOUS
<1>2. q \in Fares!Requests
  BY <1>1 DEF Fares!Requests, Fares!Phases
<1>3. /\ q.kind = r.kind /\ q.phase # "read"
      /\ r.kind \in {"edit", "delete"} => q.id = r.id
      /\ r.kind = "import" => q.early = r.early /\ q.rows = r.rows /\ q.route = r.route
  BY <1>1 DEF Fares!Requests
<1>4. Fares!Sound(q)
  BY <1>3 DEF Fares!Sound
<1> QED
  BY <1>1, <1>2, <1>4

\* The chart stays as it is, and what is under way with it.
FareCalm ==
    /\ UNCHANGED db /\ hist'.writes = hist.writes
    /\ \A q \in wire' : q \in Fares!Requests /\ Fares!Sound(q)

LEMMA FareSameSound ==
  ASSUME UNCHANGED db, hist'.writes = hist.writes, NEW q, Fares!Sound(q)
  PROVE  Fares!Sound(q)'
<1>1. Fares!Live' = Fares!Live
  BY DEF Fares!Live
<1>2. \A route, leg : Fares!Priced(route, leg)' = Fares!Priced(route, leg)
  BY <1>1 DEF Fares!Priced
<1>3. \A route : Fares!Unpriced(route)' = Fares!Unpriced(route)
  BY <1>2 DEF Fares!Unpriced, Fares!Ahead
<1>4. Fares!Late(q)' <=> Fares!Late(q)
  BY DEF Fares!Late
<1>5. Fares!Knows(q) => Fares!Knows(q)'
  BY <1>2, <1>3 DEF Fares!Knows
<1> QED
  BY <1>4, <1>5 DEF Fares!Sound, Fares!Ahead

LEMMA FareCalmKeeps ==
  ASSUME FareCalm, Fares!PricedTwiceKnowingly, Fares!ImportsFitTheRoute
  PROVE  wire' \subseteq Fares!Requests /\ Fares!WireInv' /\ Fares!PricedTwiceKnowingly'
             /\ Fares!ImportsFitTheRoute'
<1>1. Fares!WireInv' /\ wire' \subseteq Fares!Requests
  BY FareSameSound DEF FareCalm, Fares!WireInv
<1>2. Fares!Live' = Fares!Live
  BY DEF Fares!Live, FareCalm
<1>3. Fares!PricedTwiceKnowingly'
  BY <1>2 DEF Fares!PricedTwiceKnowingly, FareCalm, Fares!Back
<1>4. Fares!ImportsFitTheRoute'
  BY <1>2 DEF Fares!ImportsFitTheRoute, FareCalm
<1> QED
  BY <1>1, <1>3, <1>4

\* ---- the page ---------------------------------------------------------------------------

FareKept == Fares!TypeOK' /\ Fares!PageInv' /\ FareCalm

LEMMA FareWireStays ==
  ASSUME Fares!TypeOK, Fares!WireInv, UNCHANGED <<db, wire>>, hist'.writes = hist.writes
  PROVE  FareCalm
BY DEF FareCalm, Fares!WireInv, Fares!TypeOK

\* Numbers of fares there are.
LEMMA FareNumbersAreIds ==
  ASSUME Fares!FareAssumption, Fares!TypeOK
  PROVE  DOMAIN db \subseteq Fares!Ids
<1>1. Len(db) \in Nat /\ DOMAIN db = 1..Len(db) /\ MaxFares \in Nat /\ Len(db) <= MaxFares
  BY DEF Fares!TypeOK, Fares!FareAssumption
<1> QED
  BY <1>1 DEF Fares!Ids

LEMMA FareLoadFaresKeeps ==
  ASSUME Fares!TypeOK, Fares!PageInv, Fares!WireInv, Fares!LoadFares
  PROVE  FareKept
<1>1. UNCHANGED <<db, dialog, form, wire, hist>> /\ due' \subseteq due
  BY DEF Fares!LoadFares, Fares!Arrive
<1>2. FareCalm
  BY <1>1, FareWireStays
<1> DEFINE rows == [i \in Fares!Live |-> [route |-> db[i].route, leg |-> db[i].leg]]
<1>3. shown' = [shown EXCEPT !["fares"] = rows]
  BY DEF Fares!LoadFares, Fares!Arrive
<1>4. Fares!Live \subseteq DOMAIN db
  BY DEF Fares!Live
<1>5. rows \in [Fares!Live -> Fares!Fare]
  <2>1. ASSUME NEW i \in Fares!Live PROVE db[i] \in Fares!Rows
    BY <1>4 DEF Fares!TypeOK
  <2> QED
    BY <2>1 DEF Fares!Rows, Fares!Fare
<1> HIDE DEF rows
<1>6. shown' \in [{"fares"} -> [Fares!Live -> Fares!Fare]] /\ DOMAIN shown'["fares"] = Fares!Live
  BY <1>3, <1>5 DEF Fares!TypeOK
<1>7. Fares!TypeOK'
  BY <1>1, <1>6 DEF Fares!TypeOK
<1>8. Fares!PageInv'
  BY <1>1, <1>4, <1>6 DEF Fares!PageInv, Fares!In
<1> QED
  BY <1>2, <1>7, <1>8 DEF FareKept

LEMMA FareBrowseKeeps ==
  ASSUME Fares!TypeOK, Fares!PageInv, Fares!WireInv, Fares!Browse
  PROVE  FareKept
<1>1. UNCHANGED <<db, shown, dialog, form, wire, hist>> /\ due' = due \cup {"fares"}
  BY DEF Fares!Browse, Fares!Ask
<1>2. FareCalm
  BY <1>1, FareWireStays
<1>3. Fares!TypeOK'
  BY <1>1 DEF Fares!TypeOK
<1>4. Fares!PageInv'
  BY <1>1 DEF Fares!PageInv, Fares!In
<1> QED
  BY <1>2, <1>3, <1>4 DEF FareKept

LEMMA FareCloseDialogKeeps ==
  ASSUME Fares!TypeOK, Fares!PageInv, Fares!WireInv, Fares!CloseDialog
  PROVE  FareKept
<1>1. UNCHANGED <<db, shown, due, form, wire, hist>> /\ dialog' = None
  BY DEF Fares!CloseDialog
<1>2. FareCalm
  BY <1>1, FareWireStays
<1>3. Fares!TypeOK'
  BY <1>1 DEF Fares!TypeOK
<1>4. Fares!PageInv'
  BY <1>1 DEF Fares!PageInv, Fares!In
<1> QED
  BY <1>2, <1>3, <1>4 DEF FareKept

LEMMA FareOpenFormKeeps ==
  ASSUME Fares!TypeOK, Fares!PageInv, Fares!WireInv, NEW kind \in {"add", "import", "generate"},
             Fares!OpenForm(kind)
  PROVE  FareKept
<1>1. UNCHANGED <<db, shown, due, form, wire>> /\ dialog' = [kind |-> kind, id |-> None]
  BY DEF Fares!OpenForm, Fares!Open
<1>2. hist' \in [opens: Nat, sends: Nat, picks: Nat, writes: Nat] /\ hist'.writes = hist.writes
  <2>1. hist' = [hist EXCEPT !.opens = @ + 1]
    BY DEF Fares!OpenForm, Fares!Open
  <2>2. hist \in [opens: Nat, sends: Nat, picks: Nat, writes: Nat]
    BY DEF Fares!TypeOK
  <2> QED
    BY <2>1, <2>2
<1>3. FareCalm
  BY <1>1, <1>2, FareWireStays
<1>4. Fares!TypeOK'
  BY <1>1, <1>2 DEF Fares!TypeOK
<1>5. Fares!PageInv'
  BY <1>1 DEF Fares!PageInv, Fares!In
<1> QED
  BY <1>3, <1>4, <1>5 DEF FareKept

LEMMA FareOpenDeleteKeeps ==
  ASSUME Fares!FareAssumption, Fares!TypeOK, Fares!PageInv, Fares!WireInv, NEW i \in DOMAIN shown["fares"],
             Fares!OpenDelete(i)
  PROVE  FareKept
<1>1. UNCHANGED <<db, shown, due, form, wire>> /\ dialog' = [kind |-> "delete", id |-> i]
  BY DEF Fares!OpenDelete, Fares!Open
<1>2. hist' \in [opens: Nat, sends: Nat, picks: Nat, writes: Nat] /\ hist'.writes = hist.writes
  <2>1. hist' = [hist EXCEPT !.opens = @ + 1]
    BY DEF Fares!OpenDelete, Fares!Open
  <2>2. hist \in [opens: Nat, sends: Nat, picks: Nat, writes: Nat]
    BY DEF Fares!TypeOK
  <2> QED
    BY <2>1, <2>2
<1>3. FareCalm
  BY <1>1, <1>2, FareWireStays
<1>4. i \in DOMAIN db /\ i \in Fares!Ids
  BY FareNumbersAreIds DEF Fares!PageInv
<1>5. Fares!TypeOK'
  BY <1>1, <1>2, <1>4 DEF Fares!TypeOK
<1>6. Fares!PageInv'
  BY <1>1, <1>4 DEF Fares!PageInv, Fares!In
<1> QED
  BY <1>3, <1>5, <1>6 DEF FareKept

LEMMA FareOpenEditKeeps ==
  ASSUME Fares!FareAssumption, Fares!TypeOK, Fares!PageInv, Fares!WireInv, NEW i \in DOMAIN shown["fares"],
             Fares!OpenEdit(i)
  PROVE  FareKept
<1> DEFINE fare == shown["fares"][i]
<1>1. UNCHANGED <<db, shown, wire>> /\ dialog' = [kind |-> "edit", id |-> i]
  BY DEF Fares!OpenEdit
<1>2. hist' \in [opens: Nat, sends: Nat, picks: Nat, writes: Nat] /\ hist'.writes = hist.writes
  BY DEF Fares!OpenEdit, Fares!TypeOK
<1>3. FareCalm
  BY <1>1, <1>2, FareWireStays
<1>4. i \in DOMAIN db /\ i \in Fares!Ids
  BY FareNumbersAreIds DEF Fares!PageInv
<1>5. fare \in Fares!Fare
  BY DEF Fares!TypeOK
<1>6. fare \in Fares!Draft /\ fare.route \in Fares!Routes /\ fare.route # None
  BY <1>5 DEF Fares!Fare, Fares!Draft, Fares!FareAssumption
<1>7. form' = [form EXCEPT !.edit = fare] /\ due' = due \cup ({fare.route} \ form.known)
  BY DEF Fares!OpenEdit
<1> HIDE DEF fare
<1>8. form' \in [known: SUBSET Fares!Routes, add: Fares!Draft, edit: Fares!Draft, route: Fares!Routes \cup {None},
          rows: Seq(Fares!Legs \cup {Fares!Flat})]
  BY <1>6, <1>7 DEF Fares!TypeOK
<1>9. /\ form'.edit = fare /\ form'.route = form.route /\ form'.known = form.known /\ form'.rows = form.rows
  BY <1>7 DEF Fares!TypeOK
<1>10. Fares!TypeOK'
  BY <1>1, <1>2, <1>4, <1>6, <1>7, <1>8, <1>9 DEF Fares!TypeOK
<1>11. Fares!PageInv'
  BY <1>1, <1>4, <1>6, <1>9 DEF Fares!PageInv, Fares!In
<1> QED
  BY <1>3, <1>10, <1>11 DEF FareKept

LEMMA FarePickKeeps ==
  ASSUME Fares!TypeOK, Fares!WireInv, NEW kind, Fares!Pick(kind)
  PROVE  /\ UNCHANGED <<db, shown, dialog, wire>> /\ FareCalm
         /\ hist' \in [opens: Nat, sends: Nat, picks: Nat, writes: Nat]
<1>1. UNCHANGED <<db, shown, dialog, wire>>
  BY DEF Fares!Pick
<1>2. hist' \in [opens: Nat, sends: Nat, picks: Nat, writes: Nat] /\ hist'.writes = hist.writes
  BY DEF Fares!Pick, Fares!TypeOK
<1>3. FareCalm
  BY <1>1, <1>2, FareWireStays
<1> QED
  BY <1>1, <1>2, <1>3

FareShapes == [known: SUBSET Fares!Routes, add: Fares!Draft, edit: Fares!Draft, route: Fares!Routes \cup {None},
    rows: Seq(Fares!Legs \cup {Fares!Flat})]

LEMMA FareChooseStopsKeeps ==
  ASSUME Fares!TypeOK, Fares!PageInv, Fares!WireInv, NEW f \in Fares!Forms, Fares!ChooseStops(f)
  PROVE  FareKept
<1>1. /\ UNCHANGED <<db, shown, dialog, wire, due>> /\ FareCalm
      /\ hist' \in [opens: Nat, sends: Nat, picks: Nat, writes: Nat]
  BY FarePickKeeps DEF Fares!ChooseStops
<1>2. PICK leg \in {Fares!Flat} \cup IF form[f].route \in form.known THEN Fares!LegsOf[form[f].route] ELSE {} :
          form' = [form EXCEPT ![f].leg = leg]
  BY DEF Fares!ChooseStops
<1>3. form \in FareShapes /\ form[f] \in Fares!Draft
  BY DEF Fares!TypeOK, FareShapes, Fares!Forms
<1>4. leg \in Fares!Legs \cup {Fares!Flat}
  <2>1. CASE form[f].route \in form.known
    <3>1. form[f].route \in Fares!Routes
      BY <1>3, <2>1 DEF FareShapes
    <3> QED
      BY <3>1, <2>1 DEF Fares!Legs
  <2> QED
    BY <2>1
<1>5. [form[f] EXCEPT !.leg = leg] \in Fares!Draft /\ [form[f] EXCEPT !.leg = leg].route = form[f].route
  BY <1>3, <1>4 DEF Fares!Draft
<1>6. PICK draft \in Fares!Draft : draft = [form[f] EXCEPT !.leg = leg] /\ draft.route = form[f].route
  BY <1>5
<1>7. form' = [form EXCEPT ![f] = draft]
  BY <1>2, <1>6
<1>8. /\ form' \in FareShapes /\ form'.known = form.known /\ form'.route = form.route /\ form'.rows = form.rows
      /\ form'.edit.route = form.edit.route
  BY <1>3, <1>6, <1>7 DEF FareShapes, Fares!Forms
<1>9. Fares!TypeOK'
  BY <1>1, <1>8 DEF Fares!TypeOK, FareShapes
<1>10. Fares!PageInv'
  BY <1>1, <1>8 DEF Fares!PageInv, Fares!In
<1> QED
  BY <1>1, <1>9, <1>10 DEF FareKept

LEMMA FareChooseRouteKeeps ==
  ASSUME Fares!FareAssumption, Fares!TypeOK, Fares!PageInv, Fares!WireInv, NEW f \in Fares!Forms,
             NEW route \in Fares!Routes, Fares!ChooseRoute(f, route)
  PROVE  FareKept
<1>1. /\ UNCHANGED <<db, shown, dialog, wire>> /\ FareCalm /\ due' \subseteq due \cup {route}
      /\ hist' \in [opens: Nat, sends: Nat, picks: Nat, writes: Nat]
  BY FarePickKeeps DEF Fares!ChooseRoute
<1>2. form' = [form EXCEPT ![f].route = route]
  BY DEF Fares!ChooseRoute
<1>3. form \in FareShapes /\ form[f] \in Fares!Draft
  BY DEF Fares!TypeOK, FareShapes, Fares!Forms
<1>4. [form[f] EXCEPT !.route = route] \in Fares!Draft /\ [form[f] EXCEPT !.route = route].route = route
  BY <1>3 DEF Fares!Draft
<1>5. PICK draft \in Fares!Draft : draft = [form[f] EXCEPT !.route = route] /\ draft.route = route
  BY <1>4
<1>6. form' = [form EXCEPT ![f] = draft]
  BY <1>2, <1>5
<1>7. /\ form' \in FareShapes /\ form'.known = form.known /\ form'.route = form.route /\ form'.rows = form.rows
      /\ form'.edit.route \in {form.edit.route, route}
  BY <1>3, <1>5, <1>6 DEF FareShapes, Fares!Forms
<1>8. Fares!TypeOK'
  BY <1>1, <1>7 DEF Fares!TypeOK, FareShapes
<1>9. Fares!PageInv'
  BY <1>1, <1>7 DEF Fares!PageInv, Fares!In, Fares!FareAssumption
<1> QED
  BY <1>1, <1>8, <1>9 DEF FareKept

\* The import form with other rows, of another route perhaps.
LEMMA FareRowsKeep ==
  ASSUME Fares!TypeOK, Fares!PageInv, FareCalm, UNCHANGED <<db, shown, dialog, wire>>,
             due' \subseteq due \cup Fares!Routes,
         hist' \in [opens: Nat, sends: Nat, picks: Nat, writes: Nat],
         NEW route \in Fares!Routes \cup {None}, NEW known \in SUBSET Fares!Routes, NEW rows, FareFormRows(rows),
         form' = [form EXCEPT !.known = known, !.route = route, !.rows = rows],
         route \in known /\ Len(Line[route]) > 1
             => Fares!ToSet(rows) \subseteq Fares!LegsOf[route] \cup {Fares!Flat}
  PROVE  FareKept
<1>1. form \in FareShapes
  BY DEF Fares!TypeOK, FareShapes
<1>2. form' \in FareShapes /\ form'.known = known /\ form'.route = route /\ form'.rows = rows
          /\ form'.edit = form.edit
  BY <1>1 DEF FareShapes, FareFormRows
<1>3. Len(form'.rows) \in 1..MaxImports
  BY <1>2 DEF FareFormRows
<1>4. Fares!TypeOK'
  <2>1. due' \subseteq {"fares"} \cup Fares!Routes
    BY DEF Fares!TypeOK
  <2>2. wire' \subseteq Fares!Requests
    BY DEF FareCalm
  <2> QED
    BY <1>2, <1>3, <2>1, <2>2 DEF Fares!TypeOK, FareShapes
<1>5. Fares!PageInv'
  BY <1>2 DEF Fares!PageInv, Fares!In
<1> QED
  BY <1>4, <1>5 DEF FareKept

LEMMA FareSameFields ==
  ASSUME Fares!TypeOK
  PROVE  /\ form.rows \in Seq(Fares!Legs \cup {Fares!Flat}) /\ FareFormRows(form.rows)
         /\ form.known \in SUBSET Fares!Routes /\ form.route \in Fares!Routes \cup {None}
         /\ form = [form EXCEPT !.known = form.known, !.route = form.route, !.rows = form.rows]
BY DEF Fares!TypeOK, FareFormRows

LEMMA FareChooseImportRouteKeeps ==
  ASSUME Fares!FareAssumption, Fares!TypeOK, Fares!PageInv, Fares!WireInv, NEW route \in Fares!Routes,
             Fares!ChooseImportRoute(route)
  PROVE  FareKept
<1>1. /\ UNCHANGED <<db, shown, dialog, wire>> /\ FareCalm /\ due' \subseteq due \cup Fares!Routes
      /\ hist' \in [opens: Nat, sends: Nat, picks: Nat, writes: Nat]
  BY FarePickKeeps DEF Fares!ChooseImportRoute
<1> DEFINE rows == IF route \in form.known THEN Fares!Suggested(form.rows, route) ELSE form.rows
<1>2. FareFormRows(rows) /\ (route \in form.known /\ Len(Line[route]) > 1
          => Fares!ToSet(rows) \subseteq Fares!LegsOf[route])
  BY FareSameFields, FareSuggestedRows
<1>3. form' = [form EXCEPT !.route = route, !.rows = rows]
  BY DEF Fares!ChooseImportRoute
<1> HIDE DEF rows
<1>4. form' = [form EXCEPT !.known = form.known, !.route = route, !.rows = rows]
  BY <1>3 DEF Fares!TypeOK
<1> QED
  BY <1>1, <1>2, <1>4, FareRowsKeep, FareSameFields

LEMMA FareStopsFoundKeeps ==
  ASSUME Fares!FareAssumption, Fares!TypeOK, Fares!PageInv, Fares!WireInv, NEW route \in Fares!Routes,
             Fares!StopsFound(route)
  PROVE  FareKept
<1>1. UNCHANGED <<db, shown, dialog, wire, hist>> /\ due' \subseteq due \cup Fares!Routes
  BY DEF Fares!StopsFound
<1>2. FareCalm
  BY <1>1, FareWireStays
<1> DEFINE rows == IF form.route = route THEN Fares!Suggested(form.rows, route) ELSE form.rows
           known == form.known \cup {route}
<1>3. FareFormRows(rows)
  BY FareSameFields, FareSuggestedRows
<1>4. form.route \in known /\ Len(Line[form.route]) > 1
          => Fares!ToSet(rows) \subseteq Fares!LegsOf[form.route] \cup {Fares!Flat}
  <2>1. CASE form.route = route
    BY <2>1, FareSameFields, FareSuggestedRows
  <2>2. CASE form.route # route
    BY <2>2 DEF Fares!PageInv
  <2> QED
    BY <2>1, <2>2
<1>5. form' = [form EXCEPT !.known = known, !.rows = rows]
  BY DEF Fares!StopsFound
<1>6. known \in SUBSET Fares!Routes
  BY FareSameFields
<1> HIDE DEF rows, known
<1>7. form' = [form EXCEPT !.known = known, !.route = form.route, !.rows = rows]
  BY <1>5 DEF Fares!TypeOK
<1>8. hist' \in [opens: Nat, sends: Nat, picks: Nat, writes: Nat]
  BY <1>1 DEF Fares!TypeOK
<1> QED
  BY <1>1, <1>2, <1>3, <1>4, <1>6, <1>7, <1>8, FareRowsKeep, FareSameFields

LEMMA FareEditRowKeeps ==
  ASSUME Fares!FareAssumption, Fares!TypeOK, Fares!PageInv, Fares!WireInv, NEW k \in DOMAIN form.rows,
             Fares!EditRow(k)
  PROVE  FareKept
<1>1. /\ UNCHANGED <<db, shown, dialog, wire, due>> /\ FareCalm
      /\ hist' \in [opens: Nat, sends: Nat, picks: Nat, writes: Nat]
  BY FarePickKeeps DEF Fares!EditRow
<1>2. form.route \in form.known /\ form.route \in Fares!Routes
  BY FareSameFields DEF Fares!EditRow
<1>3. PICK leg \in Fares!LegsOf[form.route] : form' = [form EXCEPT !.rows[k] = leg]
  BY DEF Fares!EditRow
<1> DEFINE rows == [form.rows EXCEPT ![k] = leg]
<1>4. leg \in Fares!Legs
  BY <1>2, <1>3, FareLineStops
<1>5. rows \in Seq(Fares!Legs \cup {Fares!Flat}) /\ Len(rows) = Len(form.rows)
  BY <1>4, FareSameFields
<1>6. FareFormRows(rows)
  BY <1>5, FareSameFields DEF FareFormRows
<1>7. Fares!ToSet(rows) \subseteq Fares!ToSet(form.rows) \cup Fares!LegsOf[form.route]
  BY <1>5, FareSameFields DEF Fares!ToSet
<1>8. form' = [form EXCEPT !.rows = rows]
  BY <1>3
<1> HIDE DEF rows
<1>9. form' = [form EXCEPT !.known = form.known, !.route = form.route, !.rows = rows]
  BY <1>8 DEF Fares!TypeOK
<1>10. form.route \in form.known /\ Len(Line[form.route]) > 1
           => Fares!ToSet(rows) \subseteq Fares!LegsOf[form.route] \cup {Fares!Flat}
  BY <1>7 DEF Fares!PageInv
<1>11. due' \subseteq due \cup Fares!Routes
  BY <1>1
<1> QED
  BY <1>1, <1>6, <1>9, <1>10, <1>11, FareRowsKeep, FareSameFields

LEMMA FareAppendRowKeeps ==
  ASSUME Fares!FareAssumption, Fares!TypeOK, Fares!PageInv, Fares!WireInv, Fares!AppendRow
  PROVE  FareKept
<1>1. /\ UNCHANGED <<db, shown, dialog, wire, due>> /\ FareCalm
      /\ hist' \in [opens: Nat, sends: Nat, picks: Nat, writes: Nat]
  BY FarePickKeeps DEF Fares!AppendRow
<1> DEFINE rows == Append(form.rows, Fares!Flat)
<1>2. form' = [form EXCEPT !.rows = rows] /\ Len(form.rows) < MaxImports
  BY DEF Fares!AppendRow
<1>3. rows \in Seq(Fares!Legs \cup {Fares!Flat}) /\ Len(rows) = Len(form.rows) + 1
          /\ Len(form.rows) \in 1..MaxImports
  BY FareSameFields DEF FareFormRows
<1>4. FareFormRows(rows)
  BY <1>2, <1>3 DEF FareFormRows, Fares!FareAssumption
<1>5. Fares!ToSet(rows) \subseteq Fares!ToSet(form.rows) \cup {Fares!Flat}
  BY <1>3, FareSameFields DEF Fares!ToSet
<1> HIDE DEF rows
<1>6. form' = [form EXCEPT !.known = form.known, !.route = form.route, !.rows = rows]
  BY <1>2 DEF Fares!TypeOK
<1>7. form.route \in form.known /\ Len(Line[form.route]) > 1
          => Fares!ToSet(rows) \subseteq Fares!LegsOf[form.route] \cup {Fares!Flat}
  BY <1>5 DEF Fares!PageInv
<1>8. due' \subseteq due \cup Fares!Routes
  BY <1>1
<1> QED
  BY <1>1, <1>4, <1>6, <1>7, <1>8, FareRowsKeep, FareSameFields

LEMMA FareRemoveRowKeeps ==
  ASSUME Fares!FareAssumption, Fares!TypeOK, Fares!PageInv, Fares!WireInv, NEW k \in DOMAIN form.rows,
             Fares!RemoveRow(k)
  PROVE  FareKept
<1>1. /\ UNCHANGED <<db, shown, dialog, wire, due>> /\ FareCalm
      /\ hist' \in [opens: Nat, sends: Nat, picks: Nat, writes: Nat]
  BY FarePickKeeps DEF Fares!RemoveRow
<1> DEFINE rows == Fares!RemoveAt(form.rows, k)
<1>2. form' = [form EXCEPT !.rows = rows] /\ Len(form.rows) > 1
  BY DEF Fares!RemoveRow
<1>3. rows \in Seq(Fares!Legs \cup {Fares!Flat}) /\ Len(rows) = Len(form.rows) - 1
          /\ Fares!ToSet(rows) \subseteq Fares!ToSet(form.rows)
  BY <1>2, FareRemoved, FareSameFields
<1> HIDE DEF rows
<1>4. FareFormRows(rows)
  BY <1>2, <1>3, FareSameFields DEF FareFormRows, Fares!FareAssumption
<1>5. form' = [form EXCEPT !.known = form.known, !.route = form.route, !.rows = rows]
  BY <1>2 DEF Fares!TypeOK
<1>6. form.route \in form.known /\ Len(Line[form.route]) > 1
          => Fares!ToSet(rows) \subseteq Fares!LegsOf[form.route] \cup {Fares!Flat}
  BY <1>3 DEF Fares!PageInv
<1>7. due' \subseteq due \cup Fares!Routes
  BY <1>1
<1> QED
  BY <1>1, <1>4, <1>5, <1>6, <1>7, FareRowsKeep, FareSameFields

\* ---- sending ------------------------------------------------------------------------------

LEMMA FareSendKeeps ==
  ASSUME Fares!TypeOK, Fares!PageInv, Fares!WireInv, NEW r \in Fares!Requests, Fares!Sound(r), Fares!Send(r),
             UNCHANGED <<db, shown, due, dialog, form>>
  PROVE  FareKept
<1>1. wire' = wire \cup {r}
  BY DEF Fares!Send
<1>2. hist' \in [opens: Nat, sends: Nat, picks: Nat, writes: Nat] /\ hist'.writes = hist.writes
  BY DEF Fares!Send, Fares!TypeOK
<1>3. FareCalm
  BY <1>1, <1>2 DEF FareCalm, Fares!WireInv, Fares!TypeOK
<1>4. Fares!TypeOK'
  BY <1>2, <1>3 DEF Fares!TypeOK, FareCalm
<1>5. Fares!PageInv'
  BY DEF Fares!PageInv, Fares!In
<1> QED
  BY <1>3, <1>4, <1>5 DEF FareKept

LEMMA FareSubmitAddKeeps ==
  ASSUME Fares!FareAssumption, Fares!TypeOK, Fares!PageInv, Fares!WireInv, Fares!SubmitAdd
  PROVE  FareKept
<1>1. PICK r : r = [kind |-> "add", who |-> "desk", phase |-> "sent", route |-> form.add.route,
          leg |-> form.add.leg]
  OBVIOUS
<1>2. form.add.route \in Fares!Routes /\ form.add.leg \in Fares!Legs \cup {Fares!Flat}
  BY DEF Fares!TypeOK, Fares!Draft, Fares!SubmitAdd
<1>3. r \in Fares!Requests
  BY <1>1, <1>2 DEF Fares!Requests, Fares!Whos
<1>4. Fares!Sound(r)
  BY <1>1 DEF Fares!Sound
<1>5. Fares!Send(r) /\ UNCHANGED <<db, shown, due, dialog, form>>
  BY <1>1 DEF Fares!SubmitAdd
<1> QED
  BY <1>3, <1>4, <1>5, FareSendKeeps

LEMMA FareSubmitEditKeeps ==
  ASSUME Fares!FareAssumption, Fares!TypeOK, Fares!PageInv, Fares!WireInv, Fares!SubmitEdit
  PROVE  FareKept
<1>1. PICK r : r = [kind |-> "edit", who |-> "desk", phase |-> "sent", route |-> form.edit.route,
          leg |-> form.edit.leg,
                    id |-> dialog.id, read |-> 0]
  OBVIOUS
<1>2. form.edit.route \in Fares!Routes /\ form.edit.leg \in Fares!Legs \cup {Fares!Flat}
  BY DEF Fares!TypeOK, Fares!Draft, Fares!SubmitEdit, Fares!PageInv
<1>3. dialog.id \in DOMAIN db /\ dialog.id \in Fares!Ids
  BY FareNumbersAreIds DEF Fares!PageInv, Fares!SubmitEdit
<1>4. r \in Fares!Requests
  BY <1>1, <1>2, <1>3 DEF Fares!Requests, Fares!Whos, Fares!Phases
<1>5. Fares!Sound(r)
  BY <1>1, <1>3 DEF Fares!Sound
<1>6. Fares!Send(r) /\ UNCHANGED <<db, shown, due, dialog, form>>
  BY <1>1 DEF Fares!SubmitEdit
<1> QED
  BY <1>4, <1>5, <1>6, FareSendKeeps

LEMMA FareSubmitDeleteKeeps ==
  ASSUME Fares!FareAssumption, Fares!TypeOK, Fares!PageInv, Fares!WireInv, Fares!SubmitDelete
  PROVE  FareKept
<1>1. PICK r : r = [kind |-> "delete", who |-> "desk", phase |-> "sent", id |-> dialog.id]
  OBVIOUS
<1>2. dialog.id \in DOMAIN db /\ dialog.id \in Fares!Ids
  BY FareNumbersAreIds DEF Fares!PageInv, Fares!SubmitDelete
<1>3. r \in Fares!Requests
  BY <1>1, <1>2 DEF Fares!Requests, Fares!Whos
<1>4. Fares!Sound(r)
  BY <1>1, <1>2 DEF Fares!Sound
<1>5. Fares!Send(r) /\ UNCHANGED <<db, shown, due, dialog, form>>
  BY <1>1 DEF Fares!SubmitDelete
<1> QED
  BY <1>3, <1>4, <1>5, FareSendKeeps

LEMMA FareSubmitImportKeeps ==
  ASSUME Fares!FareAssumption, Fares!TypeOK, Fares!PageInv, Fares!WireInv, Fares!SubmitImport
  PROVE  FareKept
<1> DEFINE early == form.route \notin form.known \/ Len(Line[form.route]) < 2
<1>1. PICK r : r = [kind |-> "import", who |-> "desk", phase |-> "sent", route |-> form.route, rows |-> form.rows,
                    early |-> early, found |-> <<>>, read |-> 0]
  OBVIOUS
<1>2. form.route \in Fares!Routes /\ form.rows \in Seq(Fares!Legs \cup {Fares!Flat})
          /\ Fares!Flat \notin Fares!ToSet(form.rows)
  BY FareSameFields DEF Fares!SubmitImport
<1>3. form.rows \in Seq(Fares!Legs)
  BY <1>2 DEF Fares!ToSet
<1>4. early \in BOOLEAN /\ (~early => Fares!ToSet(form.rows) \subseteq Fares!LegsOf[form.route])
  <2>1. ASSUME ~early PROVE form.route \in form.known /\ Len(Line[form.route]) > 1
    BY <2>1, <1>2, FareLineStops
  <2>2. ASSUME ~early PROVE Fares!ToSet(form.rows) \subseteq Fares!LegsOf[form.route] \cup {Fares!Flat}
    BY <2>1, <2>2 DEF Fares!PageInv
  <2> QED
    BY <2>2, <1>2
<1>5. <<>> \in Seq(Fares!Ids \cup {0})
  OBVIOUS
<1> HIDE DEF early
<1>6. r \in Fares!Requests
  BY <1>1, <1>2, <1>3, <1>4, <1>5 DEF Fares!Requests, Fares!Whos, Fares!Phases
<1>7. Fares!Sound(r)
  BY <1>1, <1>4 DEF Fares!Sound
<1>8. Fares!Send(r) /\ UNCHANGED <<db, shown, due, dialog, form>>
  BY <1>1 DEF Fares!SubmitImport, early
<1> QED
  BY <1>6, <1>7, <1>8, FareSendKeeps

LEMMA FareSubmitGenerateKeeps ==
  ASSUME Fares!FareAssumption, Fares!TypeOK, Fares!PageInv, Fares!WireInv, NEW route \in Fares!Routes,
             Fares!SubmitGenerate(route)
  PROVE  FareKept
<1>1. PICK r : r = [kind |-> "generate", who |-> "desk", phase |-> "sent", route |-> route, legs |-> {}, read |-> 0]
  OBVIOUS
<1>2. r \in Fares!Requests
  BY <1>1 DEF Fares!Requests, Fares!Whos, Fares!Phases
<1>3. Fares!Sound(r)
  BY <1>1 DEF Fares!Sound
<1>4. Fares!Send(r) /\ UNCHANGED <<db, shown, due, dialog, form>>
  BY <1>1 DEF Fares!SubmitGenerate
<1> QED
  BY <1>2, <1>3, <1>4, FareSendKeeps

\* ---- requests that change, and the page that hears of them ----------------------------------

\* Of the requests, some go and one may come in their place.
LEMMA FareTamerWire ==
  ASSUME Fares!TypeOK, Fares!PageInv, UNCHANGED <<db, shown, due, dialog, form, hist>>,
         \A q \in wire' : q \in Fares!Requests /\ Fares!Sound(q)
  PROVE  FareKept
<1>1. FareCalm
  BY DEF FareCalm
<1>2. Fares!TypeOK'
  BY <1>1 DEF Fares!TypeOK, FareCalm
<1>3. Fares!PageInv'
  BY DEF Fares!PageInv, Fares!In
<1> QED
  BY <1>1, <1>2, <1>3 DEF FareKept

LEMMA FareReplacedKeeps ==
  ASSUME Fares!TypeOK, Fares!PageInv, Fares!WireInv, UNCHANGED <<db, shown, due, dialog, form, hist>>,
         NEW q \in Fares!Requests, Fares!Sound(q), wire' \subseteq wire \cup {q}
  PROVE  FareKept
<1>1. ASSUME NEW s \in wire' PROVE s \in Fares!Requests /\ Fares!Sound(s)
  <2>1. CASE s = q
    BY <2>1
  <2>2. CASE s \in wire
    BY <2>2 DEF Fares!TypeOK, Fares!WireInv
  <2> QED
    BY <2>1, <2>2
<1> QED
  BY <1>1, FareTamerWire

LEMMA FareFewerKeeps ==
  ASSUME Fares!TypeOK, Fares!PageInv, Fares!WireInv, UNCHANGED <<db, shown, due, dialog, form, hist>>,
             wire' \subseteq wire
  PROVE  FareKept
<1>1. ASSUME NEW s \in wire' PROVE s \in Fares!Requests /\ Fares!Sound(s)
  BY DEF Fares!TypeOK, Fares!WireInv
<1> QED
  BY <1>1, FareTamerWire

LEMMA FareGiveUpKeeps ==
  ASSUME Fares!TypeOK, Fares!PageInv, Fares!WireInv, Fares!GiveUp
  PROVE  FareKept
<1>1. PICK r \in wire :
        /\ wire' = wire \ {r} \/ Fares!Replace(r, [r EXCEPT !.who = "gone"])
        /\ UNCHANGED <<db, shown, due, dialog, form, hist>>
  BY DEF Fares!GiveUp
<1>2. r \in Fares!Requests /\ Fares!Sound(r)
  BY DEF Fares!TypeOK, Fares!WireInv
<1>3. CASE wire' = wire \ {r}
  BY <1>1, <1>3, FareFewerKeeps
<1>4. CASE Fares!Replace(r, [r EXCEPT !.who = "gone"])
  <2>1. PICK q : q = [r EXCEPT !.who = "gone"]
    OBVIOUS
  <2>2. q \in Fares!Requests /\ Fares!Sound(q)
    BY <1>2, <2>1, FareGoneSound
  <2>3. wire' \subseteq wire \cup {q}
    BY <1>4, <2>1 DEF Fares!Replace
  <2> QED
    BY <1>1, <2>2, <2>3, FareReplacedKeeps
<1> QED
  BY <1>1, <1>3, <1>4

LEMMA FareFailKeeps ==
  ASSUME Fares!TypeOK, Fares!PageInv, Fares!WireInv, NEW r \in wire, Fares!Fail(r)
  PROVE  FareKept
<1>1. wire' \subseteq wire /\ UNCHANGED <<db, shown, due, dialog, form, hist>>
  BY DEF Fares!Fail, Fares!Settle
<1> QED
  BY <1>1, FareFewerKeeps

LEMMA FareRefuseKeeps ==
  ASSUME Fares!TypeOK, Fares!PageInv, Fares!WireInv, NEW r \in wire, r.kind # "add", Fares!Refuse(r)
  PROVE  FareKept
<1>1. r \in Fares!Requests /\ Fares!Sound(r) /\ UNCHANGED <<db, shown, due, dialog, form, hist>>
  BY DEF Fares!TypeOK, Fares!WireInv, Fares!Refuse
<1>2. PICK q : q = [r EXCEPT !.phase = "error"]
  OBVIOUS
<1>3. q \in Fares!Requests /\ Fares!Sound(q)
  BY <1>1, <1>2, FareAnswerSound
<1>4. wire' \subseteq wire \cup {q}
  BY <1>2 DEF Fares!Refuse, Fares!Answer
<1> QED
  BY <1>1, <1>3, <1>4, FareReplacedKeeps

LEMMA FareSucceedKeeps ==
  ASSUME Fares!FareAssumption, Fares!TypeOK, Fares!PageInv, Fares!WireInv, NEW r \in wire, Fares!Succeed(r)
  PROVE  FareKept
<1>1. UNCHANGED <<db, shown, hist>> /\ wire' = wire \ {r} /\ dialog' \in {None, dialog} /\ due' = due \cup {"fares"}
  BY DEF Fares!Succeed, Fares!Settle, Fares!Invalidate
<1>2. FareCalm
  BY <1>1 DEF FareCalm, Fares!WireInv, Fares!TypeOK
<1>3. form \in FareShapes /\ Len(form.rows) \in 1..MaxImports
  BY DEF Fares!TypeOK, FareShapes
<1>4. Fares!Blank \in Fares!Draft /\ <<Fares!Flat>> \in Seq(Fares!Legs \cup {Fares!Flat})
          /\ Len(<<Fares!Flat>>) \in 1..MaxImports
  BY DEF Fares!Blank, Fares!Draft, Fares!FareAssumption
<1>5. \/ form' = form
      \/ form' = [form EXCEPT !.add = Fares!Blank]
      \/ form' = [form EXCEPT !.route = None, !.rows = <<Fares!Flat>>]
  BY DEF Fares!Succeed
<1>6. /\ form' \in FareShapes /\ Len(form'.rows) \in 1..MaxImports /\ form'.edit = form.edit
             /\ form'.known = form.known
      /\ (form'.route = form.route /\ form'.rows = form.rows) \/ form'.route = None
  BY <1>3, <1>4, <1>5 DEF FareShapes
<1>7. Fares!TypeOK'
  BY <1>1, <1>2, <1>6 DEF Fares!TypeOK, FareShapes, FareCalm
<1>8. Fares!PageInv'
  BY <1>1, <1>6 DEF Fares!PageInv, Fares!In, Fares!TypeOK, Fares!FareAssumption
<1> QED
  BY <1>2, <1>7, <1>8 DEF FareKept

LEMMA FareReadEditKeeps ==
  ASSUME Fares!TypeOK, Fares!PageInv, Fares!WireInv, NEW r \in wire, Fares!ReadEdit(r)
  PROVE  FareKept
<1>1. r \in Fares!Requests /\ Fares!Sound(r) /\ r.kind = "edit"
  BY DEF Fares!TypeOK, Fares!WireInv, Fares!ReadEdit
<1>2. CASE Fares!Refuse(r)
  BY <1>1, <1>2, FareRefuseKeeps
<1>3. CASE ~Fares!Refuse(r)
  <2>1. PICK q : q = [r EXCEPT !.phase = "read", !.read = hist.writes]
    OBVIOUS
  <2>2. hist.writes \in Nat
    BY DEF Fares!TypeOK
  <2>3. q \in Fares!Requests
    BY <1>1, <2>1, <2>2 DEF Fares!Requests, Fares!Phases
  <2>4. Fares!Sound(q)
    BY <1>1, <2>1, <2>2 DEF Fares!Requests, Fares!Sound, Fares!Knows
  <2>5. wire' \subseteq wire \cup {q} /\ UNCHANGED <<db, shown, due, dialog, form, hist>>
    BY <1>3, <2>1 DEF Fares!ReadEdit, Fares!Replace
  <2> QED
    BY <2>3, <2>4, <2>5, FareReplacedKeeps
<1> QED
  BY <1>2, <1>3

LEMMA FareReadImportKeeps ==
  ASSUME Fares!FareAssumption, Fares!TypeOK, Fares!PageInv, Fares!WireInv, NEW r \in wire, Fares!ReadImport(r)
  PROVE  FareKept
<1>1. r \in Fares!Requests /\ Fares!Sound(r) /\ r.kind = "import"
  BY DEF Fares!TypeOK, Fares!WireInv, Fares!ReadImport
<1>2. r.rows \in Seq(Fares!Legs) /\ hist.writes \in Nat
  BY <1>1 DEF Fares!Requests, Fares!TypeOK
<1>3. PICK found \in [DOMAIN r.rows -> DOMAIN db \cup {0}] :
        /\ \A k \in DOMAIN r.rows :
             LET there == Fares!Priced(r.route, r.rows[k]) IN IF there = {} THEN found[k] = 0
                 ELSE found[k] \in there
        /\ Fares!Replace(r, [r EXCEPT !.phase = "read", !.read = hist.writes, !.found = found])
  BY DEF Fares!ReadImport
<1>4. found \in Seq(Fares!Ids \cup {0}) /\ Len(found) = Len(r.rows)
          /\ Fares!ToSet(found) \subseteq DOMAIN db \cup {0}
  <2>1. found \in [1..Len(r.rows) -> Fares!Ids \cup {0}] /\ Len(r.rows) \in Nat
    BY <1>2, <1>3, FareNumbersAreIds
  <2> QED
    BY <1>3, <2>1 DEF Fares!ToSet
<1>5. PICK q : q = [r EXCEPT !.phase = "read", !.read = hist.writes, !.found = found]
  OBVIOUS
<1>6. q \in Fares!Requests
  BY <1>1, <1>2, <1>4, <1>5 DEF Fares!Requests, Fares!Phases
<1>7. /\ q.kind = "import" /\ q.early = r.early /\ q.rows = r.rows /\ q.route = r.route /\ q.found = found
      /\ q.read = hist.writes
  BY <1>1, <1>5 DEF Fares!Requests
<1>8. ASSUME NEW k \in DOMAIN r.rows
      PROVE  LET there == Fares!Priced(r.route, r.rows[k]) IN IF found[k] = 0 THEN there = {}
                 ELSE found[k] \in there
  <2>1. \A i \in Fares!Priced(r.route, r.rows[k]) : i # 0
    BY DEF Fares!Priced, Fares!Live, Fares!TypeOK
  <2> QED
    BY <1>3, <2>1
<1>9. Fares!Sound(q)
  <2>1. Fares!Knows(q)
    BY <1>7, <1>8 DEF Fares!Knows
  <2>2. r.kind = "import" /\ ~r.early => Fares!ToSet(r.rows) \subseteq Fares!LegsOf[r.route]
    BY <1>1 DEF Fares!Sound
  <2>3. q.kind = "import" /\ ~q.early => Fares!ToSet(q.rows) \subseteq Fares!LegsOf[q.route]
    <3>1. q.kind = r.kind /\ q.early = r.early /\ q.rows = r.rows /\ q.route = r.route
      BY <1>1, <1>7
    <3> QED
      BY Zenon, <2>2, <3>1
  <2>4. q.read <= hist.writes /\ Len(q.found) = Len(q.rows) /\ Fares!ToSet(q.found) \subseteq DOMAIN db \cup {0}
    BY <1>2, <1>4, <1>7
  <2>5. ~(q.kind \in {"edit", "delete"}) /\ q.kind # "generate"
    BY <1>7
  <2> QED
    BY <2>1, <2>3, <2>4, <2>5 DEF Fares!Sound
<1>10. wire' \subseteq wire \cup {q} /\ UNCHANGED <<db, shown, due, dialog, form, hist>>
  BY <1>3, <1>5 DEF Fares!ReadImport, Fares!Replace
<1> QED
  BY <1>6, <1>9, <1>10, FareReplacedKeeps

\* A pair of stops of a line is a leg of it.
LEMMA FareAheadAreLegs ==
  ASSUME Fares!FareAssumption, NEW route \in Fares!Routes
  PROVE  Fares!Ahead(route) \subseteq Fares!LegsOf[route]
<1>1. ASSUME NEW leg \in Fares!Ahead(route) PROVE leg \in Fares!LegsOf[route]
  <2>1. PICK p \in DOMAIN Line[route], q \in DOMAIN Line[route] : p < q /\ leg = <<Line[route][p], Line[route][q]>>
    BY <1>1 DEF Fares!Ahead
  <2>2. p # q
    BY <2>1, FareLineStops
  <2> QED
    BY <2>1, <2>2, FareLineStops
<1> QED
  BY <1>1

LEMMA FareReadGenerateKeeps ==
  ASSUME Fares!FareAssumption, Fares!TypeOK, Fares!PageInv, Fares!WireInv, NEW r \in wire, Fares!ReadGenerate(r)
  PROVE  FareKept
<1>1. r \in Fares!Requests /\ Fares!Sound(r) /\ r.kind = "generate" /\ r.route \in Fares!Routes
  BY DEF Fares!TypeOK, Fares!WireInv, Fares!ReadGenerate, Fares!Requests
<1>2. CASE Fares!Refuse(r)
  BY <1>1, <1>2, FareRefuseKeeps
<1>3. CASE ~Fares!Refuse(r)
  <2>1. PICK legs : legs = Fares!Unpriced(r.route)
    OBVIOUS
  <2>2. PICK q : q = [r EXCEPT !.phase = "read", !.read = hist.writes, !.legs = legs]
    OBVIOUS
  <2>3. hist.writes \in Nat
    BY DEF Fares!TypeOK
  <2>4. legs \subseteq Fares!Ahead(r.route) /\ legs \in SUBSET Fares!Legs
    BY <1>1, <2>1, FareAheadAreLegs, FareLineStops DEF Fares!Unpriced
  <2>5. q \in Fares!Requests
    BY <1>1, <2>2, <2>3, <2>4 DEF Fares!Requests, Fares!Phases
  <2>6. Fares!Sound(q)
    <3>1. q.kind = "generate" /\ q.route = r.route /\ q.legs = legs /\ q.read = hist.writes
      BY <1>1, <2>2 DEF Fares!Requests
    <3> QED
      BY <2>1, <2>3, <2>4, <3>1 DEF Fares!Sound, Fares!Knows
  <2>7. wire' \subseteq wire \cup {q} /\ UNCHANGED <<db, shown, due, dialog, form, hist>>
    BY <1>3, <2>1, <2>2 DEF Fares!ReadGenerate, Fares!Replace
  <2> QED
    BY <2>5, <2>6, <2>7, FareReplacedKeeps
<1> QED
  BY <1>2, <1>3
\* ---- the chart is written ---------------------------------------------------------------------

\* The numbers of the fares are those up to the last.
LEMMA FareChartShape ==
  ASSUME Fares!FareAssumption, Fares!TypeOK
  PROVE  /\ Len(db) \in Nat /\ DOMAIN db = 1..Len(db) /\ MaxFares \in Nat
         /\ \A i \in DOMAIN db : db[i] \in Fares!Rows
<1>1. db \in Seq(Fares!Rows) /\ MaxFares \in Nat
  BY DEF Fares!TypeOK, Fares!FareAssumption
<1> QED
  BY <1>1

\* What others have read is not known any more: their number is behind.
LEMMA FareCommitKeeps ==
  ASSUME Fares!FareAssumption, Fares!TypeOK, Fares!PageInv, Fares!WireInv, NEW r \in wire,
             NEW rows \in Seq(Fares!Rows), Len(db) <= Len(rows),
         Fares!Commit(r, rows)
  PROVE  db' = rows /\ Fares!TypeOK' /\ Fares!PageInv' /\ Fares!WireInv'
<1>1. db' = rows /\ Len(rows) <= MaxFares /\ UNCHANGED <<shown, due, dialog, form>>
  BY DEF Fares!Commit
<1>2. DOMAIN db \subseteq DOMAIN db'
  BY <1>1, FareChartShape
<1>3. r \in Fares!Requests /\ Fares!Sound(r) /\ hist \in [opens: Nat, sends: Nat, picks: Nat, writes: Nat]
  BY DEF Fares!TypeOK, Fares!WireInv
<1>4. PICK a : a = [r EXCEPT !.phase = "ok"]
  OBVIOUS
<1>5. a \in Fares!Requests /\ Fares!Sound(a)
  BY <1>3, <1>4, FareAnswerSound
<1>6. a.phase = "ok"
  BY <1>3, <1>4 DEF Fares!Requests
<1>7. wire' \subseteq (wire \ {r}) \cup {a}
  BY <1>4 DEF Fares!Commit, Fares!Answer
<1>8. hist' = [hist EXCEPT !.writes = Fares!Counted(r)] /\ Fares!Counted(r) \in Nat
  BY <1>3 DEF Fares!Commit, Fares!Counted
<1>9. hist' \in [opens: Nat, sends: Nat, picks: Nat, writes: Nat] /\ hist'.writes = Fares!Counted(r)
  BY <1>3, <1>8
<1>10. ASSUME NEW q \in wire' PROVE q \in Fares!Requests /\ Fares!Sound(q) /\ Fares!Sound(q)'
  <2>1. q \in Fares!Requests /\ Fares!Sound(q)
    <3>1. CASE q = a
      BY <1>5, <3>1
    <3>2. CASE q \in wire
      BY <3>2 DEF Fares!TypeOK, Fares!WireInv
    <3> QED
      BY <1>7, <3>1, <3>2
  <2>2. q.kind \in {"edit", "delete"} => q.id \in DOMAIN db'
    BY <1>2, <2>1 DEF Fares!Sound
  <2>3. q.kind = "import" /\ ~q.early => Fares!ToSet(q.rows) \subseteq Fares!LegsOf[q.route]
    BY <2>1 DEF Fares!Sound
  <2>4. ASSUME q.phase = "read"
        PROVE  /\ q.read <= hist'.writes /\ Fares!Late(q)'
               /\ q.kind = "import" => Len(q.found) = Len(q.rows)
                      /\ Fares!ToSet(q.found) \subseteq DOMAIN db' \cup {0}
               /\ q.kind = "generate" => q.legs \subseteq Fares!Ahead(q.route)
    <3>1. q \in wire \ {r}
      BY <1>6, <1>7, <2>4
    <3>2. Fares!Counted(r) = hist.writes + 1
      BY <2>4, <3>1 DEF Fares!Counted
    <3>3. hist.writes \in Nat /\ hist'.writes = hist.writes + 1
      BY <1>3, <1>9, <3>2
    <3>4. q.kind \in {"edit", "import", "generate"} /\ q.read \in Nat
      BY <2>1, <2>4 DEF Fares!Requests
    <3>5. q.read <= hist.writes
      BY <2>1, <2>4 DEF Fares!Sound
    <3>6. q.read <= hist'.writes /\ Fares!Late(q)'
      BY <3>3, <3>4, <3>5 DEF Fares!Late
    <3>7. /\ q.kind = "import" => Len(q.found) = Len(q.rows) /\ Fares!ToSet(q.found) \subseteq DOMAIN db \cup {0}
          /\ q.kind = "generate" => q.legs \subseteq Fares!Ahead(q.route)
      BY <2>1, <2>4 DEF Fares!Sound
    <3> QED
      BY <1>2, <3>6, <3>7
  <2> QED
    BY <2>1, <2>2, <2>3, <2>4 DEF Fares!Sound, Fares!Ahead
<1>11. Fares!TypeOK'
  <2>1. wire' \subseteq Fares!Requests
    BY <1>10
  <2> QED
    BY <1>1, <1>9, <2>1 DEF Fares!TypeOK
<1>12. Fares!PageInv'
  BY <1>1, <1>2 DEF Fares!PageInv, Fares!In
<1>13. Fares!WireInv'
  BY <1>10 DEF Fares!WireInv
<1> QED
  BY <1>1, <1>11, <1>12, <1>13

FareMarked(row) == row.hand \/ row.slip

FareClash(rows, i, j) ==
    /\ rows[i].route = rows[j].route
    /\ rows[i].leg = rows[j].leg \/ (rows[j].formula /\ rows[i].leg = Fares!Back(rows[j].leg))

\* A fare prices what it priced, with the history that it had or more of it.
FareSame(old, new) ==
    /\ old.live /\ new.route = old.route /\ new.leg = old.leg
    /\ FareMarked(old) => FareMarked(new)
    /\ new.formula => old.formula

\* Only fares that neither a hand nor a slip explains can break the promise.
LEMMA FareTwiceKept ==
  ASSUME Fares!PricedTwiceKnowingly, DOMAIN db \subseteq DOMAIN db',
         \A i, j \in Fares!Live' : i < j /\ ~FareMarked(db'[i]) /\ ~FareMarked(db'[j]) /\ FareClash(db', i, j)
                             => i \in DOMAIN db /\ j \in DOMAIN db /\ FareSame(db[i], db'[i])
                                 /\ FareSame(db[j], db'[j])
  PROVE  Fares!PricedTwiceKnowingly'
<1> SUFFICES ASSUME NEW i \in Fares!Live', NEW j \in Fares!Live', i < j, FareClash(db', i, j), ~FareMarked(db'[i]),
        ~FareMarked(db'[j])
             PROVE  FALSE
  BY Zenon DEF Fares!PricedTwiceKnowingly, FareClash, FareMarked, Fares!Back
<1>1. i \in DOMAIN db /\ j \in DOMAIN db /\ FareSame(db[i], db'[i]) /\ FareSame(db[j], db'[j])
  OBVIOUS
<1>2. i \in Fares!Live /\ j \in Fares!Live /\ ~FareMarked(db[i]) /\ ~FareMarked(db[j]) /\ FareClash(db, i, j)
  BY <1>1 DEF FareSame, Fares!Live, FareClash
<1> QED
  BY <1>2 DEF Fares!PricedTwiceKnowingly, FareClash, FareMarked

\* A hand writes one fare, or none.
LEMMA FareHandKeeps ==
  ASSUME Fares!PricedTwiceKnowingly, Fares!ImportsFitTheRoute, DOMAIN db \subseteq DOMAIN db',
         \A i \in Fares!Live' : db'[i].hand \/ (i \in Fares!Live /\ db'[i] = db[i])
  PROVE  Fares!PricedTwiceKnowingly' /\ Fares!ImportsFitTheRoute'
<1>1. ASSUME NEW i \in Fares!Live', ~FareMarked(db'[i]) PROVE i \in DOMAIN db /\ FareSame(db[i], db'[i])
  BY <1>1 DEF FareMarked, FareSame, Fares!Live
<1>2. Fares!PricedTwiceKnowingly'
  BY <1>1, FareTwiceKept
<1>3. Fares!ImportsFitTheRoute'
  BY DEF Fares!ImportsFitTheRoute
<1> QED
  BY <1>2, <1>3

FareHeld == Fares!TypeOK' /\ Fares!PageInv' /\ Fares!WireInv' /\ Fares!PricedTwiceKnowingly'
    /\ Fares!ImportsFitTheRoute'

LEMMA FareServeAddKeeps ==
  ASSUME Fares!FareAssumption, Fares!IInv, NEW r \in wire, Fares!ServeAdd(r)
  PROVE  FareHeld
<1>1. r \in Fares!Requests /\ r.kind = "add" /\ Fares!TypeOK
  BY DEF Fares!IInv, Fares!TypeOK, Fares!ServeAdd
<1>2. r.route \in Fares!Routes /\ r.leg \in Fares!Legs \cup {Fares!Flat}
  BY <1>1 DEF Fares!Requests
<1> DEFINE row == [Fares!Row(r.route, r.leg) EXCEPT !.hand = TRUE]
<1>3. row \in Fares!Rows /\ row.hand
  BY <1>2 DEF Fares!Row, Fares!Rows
<1>4. Fares!Commit(r, Append(db, row))
  BY DEF Fares!ServeAdd
<1> HIDE DEF row
<1>5. db \in Seq(Fares!Rows)
  BY <1>1 DEF Fares!TypeOK
<1>6. /\ Append(db, row) \in Seq(Fares!Rows) /\ Len(Append(db, row)) = Len(db) + 1
      /\ \A i \in 1..(Len(db) + 1) : Append(db, row)[i] = IF i = Len(db) + 1 THEN row ELSE db[i]
  BY <1>3, <1>5
<1>7. Len(db) <= Len(Append(db, row))
  BY <1>1, <1>6, FareChartShape
<1>8. db' = Append(db, row) /\ Fares!TypeOK' /\ Fares!PageInv' /\ Fares!WireInv'
  BY <1>4, <1>6, <1>7, FareCommitKeeps DEF Fares!IInv
<1>9. DOMAIN db' = 1..(Len(db) + 1)
  BY <1>1, <1>6, <1>8, FareChartShape
<1>10. ASSUME NEW i \in Fares!Live' PROVE db'[i].hand \/ (i \in Fares!Live /\ db'[i] = db[i])
  <2>1. i \in 1..(Len(db) + 1) /\ db'[i].live
    BY <1>9 DEF Fares!Live
  <2>2. CASE i = Len(db) + 1
    BY <1>3, <1>6, <1>8, <2>1, <2>2
  <2>3. CASE i # Len(db) + 1
    <3>1. db'[i] = db[i] /\ i \in DOMAIN db
      BY <1>1, <1>6, <1>8, <2>1, <2>3, FareChartShape
    <3> QED
      BY <2>1, <3>1 DEF Fares!Live
  <2> QED
    BY <2>2, <2>3
<1>11. DOMAIN db \subseteq DOMAIN db'
  BY <1>1, <1>9, FareChartShape
<1> QED
  BY <1>8, <1>10, <1>11, FareHandKeeps DEF Fares!IInv, FareHeld

LEMMA FareServeDeleteKeeps ==
  ASSUME Fares!FareAssumption, Fares!IInv, NEW r \in wire, Fares!ServeDelete(r)
  PROVE  FareHeld \/ FareKept
<1>1. r \in Fares!Requests /\ Fares!Sound(r) /\ r.kind = "delete" /\ Fares!TypeOK
  BY DEF Fares!IInv, Fares!TypeOK, Fares!WireInv, Fares!ServeDelete
<1>2. r.id \in DOMAIN db
  BY <1>1 DEF Fares!Sound
<1>3. CASE Fares!Refuse(r)
  BY <1>1, <1>3, FareRefuseKeeps DEF Fares!IInv
<1>4. CASE ~Fares!Refuse(r)
  <2> DEFINE d == r.id
             rows == [db EXCEPT ![d].live = FALSE]
  <2>1. Fares!Commit(r, rows)
    BY <1>4 DEF Fares!ServeDelete
  <2>2. db \in Seq(Fares!Rows) /\ d \in DOMAIN db /\ db[d] \in Fares!Rows
    BY <1>1, <1>2, FareChartShape DEF Fares!TypeOK
  <2>3. PICK row : row = [db[d] EXCEPT !.live = FALSE]
    OBVIOUS
  <2>4. row \in Fares!Rows /\ ~row.live
    BY <2>2, <2>3 DEF Fares!Rows
  <2>5. rows = [db EXCEPT ![d] = row]
    BY <2>3
  <2> HIDE DEF rows, d
  <2>6. rows \in Seq(Fares!Rows) /\ Len(rows) = Len(db)
    BY <2>2, <2>4, <2>5
  <2>7. db' = rows /\ Fares!TypeOK' /\ Fares!PageInv' /\ Fares!WireInv'
    BY <1>1, <2>1, <2>6, FareChartShape, FareCommitKeeps DEF Fares!IInv
  <2>8. DOMAIN db' = DOMAIN db
    BY <2>5, <2>7
  <2>9. ASSUME NEW i \in Fares!Live' PROVE db'[i].hand \/ (i \in Fares!Live /\ db'[i] = db[i])
    <3>1. i \in DOMAIN db /\ db'[i].live
      BY <2>8 DEF Fares!Live
    <3>2. i # d
      BY <2>2, <2>4, <2>5, <2>7, <3>1
    <3>3. db'[i] = db[i]
      BY <2>5, <2>7, <3>1, <3>2
    <3> QED
      BY <3>1, <3>3 DEF Fares!Live
  <2> QED
    BY <2>7, <2>8, <2>9, FareHandKeeps DEF Fares!IInv, FareHeld
<1> QED
  BY <1>3, <1>4

LEMMA FareSaveEditKeeps ==
  ASSUME Fares!FareAssumption, Fares!IInv, NEW r \in wire, Fares!SaveEdit(r)
  PROVE  FareHeld
<1>1. r \in Fares!Requests /\ Fares!Sound(r) /\ r.kind = "edit" /\ Fares!TypeOK
  BY DEF Fares!IInv, Fares!TypeOK, Fares!WireInv, Fares!SaveEdit
<1>2. r.id \in DOMAIN db /\ r.route \in Fares!Routes /\ r.leg \in Fares!Legs \cup {Fares!Flat}
  BY <1>1 DEF Fares!Sound, Fares!Requests
<1> DEFINE d == r.id
           row == Fares!Edited(r)
           rows == [db EXCEPT ![d] = row]
<1>3. Fares!Commit(r, rows)
  BY DEF Fares!SaveEdit
<1>4. db \in Seq(Fares!Rows) /\ d \in DOMAIN db /\ db[d] \in Fares!Rows
  BY <1>1, <1>2, FareChartShape DEF Fares!TypeOK
<1>5. row \in Fares!Rows /\ row.hand
  BY <1>2, <1>4 DEF Fares!Rows, Fares!Edited
<1> HIDE DEF row
<1>6. row \in Fares!Rows /\ row.hand
  BY <1>5
<1>7. rows = [db EXCEPT ![d] = row]
  OBVIOUS
<1> HIDE DEF rows, d
<1>8. rows \in Seq(Fares!Rows) /\ Len(rows) = Len(db)
  BY <1>4, <1>6, <1>7
<1>9. db' = rows /\ Fares!TypeOK' /\ Fares!PageInv' /\ Fares!WireInv'
  BY <1>1, <1>3, <1>8, FareChartShape, FareCommitKeeps DEF Fares!IInv
<1>10. DOMAIN db' = DOMAIN db
  BY <1>7, <1>9
<1>11. ASSUME NEW i \in Fares!Live' PROVE db'[i].hand \/ (i \in Fares!Live /\ db'[i] = db[i])
  <2>1. i \in DOMAIN db /\ db'[i].live
    BY <1>10 DEF Fares!Live
  <2>2. CASE i = d
    BY <1>4, <1>6, <1>7, <1>9, <2>2
  <2>3. CASE i # d
    <3>1. db'[i] = db[i]
      BY <1>7, <1>9, <2>1, <2>3
    <3> QED
      BY <2>1, <3>1 DEF Fares!Live
  <2> QED
    BY <2>2, <2>3
<1> QED
  BY <1>9, <1>10, <1>11, FareHandKeeps DEF Fares!IInv, FareHeld
\* What a step of an import knows: the numbers it writes are of its own rows.
LEMMA FarePositionsAre ==
  ASSUME Fares!FareAssumption, Fares!TypeOK, NEW r \in Fares!Requests, Fares!Sound(r), r.kind = "import",
             r.phase = "read",
         NEW n \in Len(db)..MaxFares, NEW place \in Fares!Positions(r, n)
  PROVE  /\ place \in [DOMAIN r.rows -> 1..n]
         /\ \A k \in DOMAIN r.rows : IF place[k] \in DOMAIN db THEN r.found[k] = place[k] ELSE r.found[k] = 0
         /\ \A i \in (Len(db) + 1)..n : \E k \in DOMAIN r.rows : place[k] = i
<1>1. /\ place \in [DOMAIN r.rows -> 1..n]
      /\ \A k \in DOMAIN r.rows : IF r.found[k] = 0 THEN place[k] > Len(db) ELSE place[k] = r.found[k]
      /\ \A i \in (Len(db) + 1)..n : \E k \in DOMAIN r.rows : place[k] = i
  BY DEF Fares!Positions
<1>2. r.rows \in Seq(Fares!Legs) /\ r.found \in Seq(Fares!Ids \cup {0}) /\ Len(r.found) = Len(r.rows)
      /\ Fares!ToSet(r.found) \subseteq DOMAIN db \cup {0}
  BY DEF Fares!Requests, Fares!Sound
<1>3. DOMAIN r.rows = DOMAIN r.found
  BY <1>2
<1>4. \A k \in DOMAIN r.rows : r.found[k] \in DOMAIN db \cup {0}
  BY <1>2, <1>3 DEF Fares!ToSet
<1>5. DOMAIN db = 1..Len(db) /\ Len(db) \in Nat
  BY FareChartShape
<1>6. ASSUME NEW k \in DOMAIN r.rows
      PROVE  IF place[k] \in DOMAIN db THEN r.found[k] = place[k] ELSE r.found[k] = 0
  <2>1. place[k] \in Nat
    BY <1>1, <1>5
  <2> QED
    BY <1>1, <1>4, <1>5, <2>1
<1> QED
  BY <1>1, <1>6

\* A fare as an import leaves it.
LEMMA FareImported ==
  ASSUME Fares!FareAssumption, Fares!TypeOK, NEW r \in Fares!Requests, r.kind = "import",
         NEW from \in SUBSET (DOMAIN r.rows), from # {}, NEW i \in Nat
  PROVE  \E k \in from :
           /\ Fares!Import(r, from, i) \in Fares!Rows
           /\ Fares!Import(r, from, i).route = r.route /\ Fares!Import(r, from, i).leg = r.rows[k]
           /\ Fares!Import(r, from, i).early = r.early /\ ~Fares!Import(r, from, i).formula
           /\ Fares!Import(r, from, i).hand <=> (i \in DOMAIN db /\ db[i].hand)
           /\ Fares!Import(r, from, i).slip <=> \/ Fares!Late(r)
                                                \/ i \in DOMAIN db /\ db[i].slip
                                                \/ \E f \in from, m \in DOMAIN r.rows : m < f
                                                       /\ r.rows[m] = r.rows[f]
<1> DEFINE c == CHOOSE k \in from : TRUE
           again == \E f \in from, m \in DOMAIN r.rows : m < f /\ r.rows[m] = r.rows[f]
           hand == i \in DOMAIN db /\ db[i].hand
           slip == Fares!Late(r) \/ (i \in DOMAIN db /\ db[i].slip) \/ again
<1>1. c \in from
  OBVIOUS
<1>2. r.route \in Fares!Routes /\ r.rows \in Seq(Fares!Legs) /\ r.early \in BOOLEAN
  BY DEF Fares!Requests
<1>3. r.rows[c] \in Fares!Legs
  BY <1>1, <1>2
<1>4. PICK h \in BOOLEAN : h = hand
  OBVIOUS
<1>5. PICK s \in BOOLEAN : s = slip
  OBVIOUS
<1>6. Fares!Import(r, from, i) = [Fares!Row(r.route, r.rows[c]) EXCEPT !.hand = h, !.early = r.early, !.slip = s]
  BY Zenon, <1>4, <1>5 DEF Fares!Import
<1> HIDE DEF c, hand, slip
<1>7. /\ Fares!Import(r, from, i) \in Fares!Rows
      /\ Fares!Import(r, from, i).route = r.route /\ Fares!Import(r, from, i).leg = r.rows[c]
      /\ Fares!Import(r, from, i).early = r.early /\ ~Fares!Import(r, from, i).formula
      /\ Fares!Import(r, from, i).hand = h /\ Fares!Import(r, from, i).slip = s
  BY <1>2, <1>3, <1>6 DEF Fares!Row, Fares!Rows
<1> QED
  BY Zenon, <1>1, <1>4, <1>5, <1>7 DEF hand, slip

LEMMA FareSaveImportKeeps ==
  ASSUME Fares!FareAssumption, Fares!IInv, NEW r \in wire, Fares!SaveImport(r)
  PROVE  FareHeld
<1>1. Fares!TypeOK /\ Fares!PageInv /\ Fares!WireInv /\ Fares!PricedTwiceKnowingly /\ Fares!ImportsFitTheRoute
  BY DEF Fares!IInv
<1>2. r \in Fares!Requests /\ Fares!Sound(r) /\ r.kind = "import" /\ r.phase = "read"
  BY <1>1 DEF Fares!TypeOK, Fares!WireInv, Fares!SaveImport
<1>3. r.route \in Fares!Routes /\ r.rows \in Seq(Fares!Legs) /\ r.early \in BOOLEAN
  BY <1>2 DEF Fares!Requests
<1> DEFINE from(place, i) == {k \in DOMAIN r.rows : place[k] = i}
           rows(n, place) == [i \in 1..n |-> IF from(place, i) = {} THEN db[i]
               ELSE Fares!Import(r, from(place, i), i)]
<1>4. PICK n \in Len(db)..MaxFares : \E place \in Fares!Positions(r, n) : Fares!Commit(r, rows(n, place))
  BY DEF Fares!SaveImport
<1>4a. PICK place \in Fares!Positions(r, n) : Fares!Commit(r, rows(n, place))
  BY <1>4
<1> DEFINE F(i) == from(place, i)
           R == rows(n, place)
<1>5. n \in Nat /\ Len(db) <= n /\ Len(db) \in Nat /\ DOMAIN db = 1..Len(db)
          /\ \A i \in DOMAIN db : db[i] \in Fares!Rows
  BY <1>1, FareChartShape
<1>6. /\ place \in [DOMAIN r.rows -> 1..n]
      /\ \A k \in DOMAIN r.rows : IF place[k] \in DOMAIN db THEN r.found[k] = place[k] ELSE r.found[k] = 0
      /\ \A i \in (Len(db) + 1)..n : \E k \in DOMAIN r.rows : place[k] = i
  BY <1>1, <1>2, FarePositionsAre
<1>7. \A i : F(i) \in SUBSET (DOMAIN r.rows) /\ \A k \in F(i) : place[k] = i
  OBVIOUS
<1>8. R = [i \in 1..n |-> IF F(i) = {} THEN db[i] ELSE Fares!Import(r, F(i), i)]
  OBVIOUS
<1>9. ASSUME NEW i \in 1..n, i \notin DOMAIN db PROVE F(i) # {}
  BY <1>5, <1>6, <1>9
<1> HIDE DEF from, rows, F
<1>10. ASSUME NEW i \in 1..n PROVE R[i] \in Fares!Rows
  <2>1. CASE F(i) = {}
    BY <1>5, <1>8, <1>9, <2>1
  <2>2. CASE F(i) # {}
    BY <1>1, <1>2, <1>7, <1>8, <2>2, FareImported
  <2> QED
    BY <2>1, <2>2
<1> HIDE DEF R
<1>11. R \in Seq(Fares!Rows) /\ Len(R) = n
  BY <1>5, <1>8, <1>10
<1>12. Fares!Commit(r, R)
  BY <1>4a DEF R
<1>13. db' = R /\ Fares!TypeOK' /\ Fares!PageInv' /\ Fares!WireInv'
  BY <1>1, <1>5, <1>11, <1>12, FareCommitKeeps
<1>14. DOMAIN db' = 1..n /\ DOMAIN db \subseteq DOMAIN db'
  BY <1>5, <1>8, <1>13
\* A row of the form wrote it.
<1> DEFINE Wrote(i, k) ==
      /\ k \in F(i) /\ db'[i].route = r.route /\ db'[i].leg = r.rows[k] /\ db'[i].early = r.early
      /\ ~db'[i].formula
      /\ db'[i].hand <=> (i \in DOMAIN db /\ db[i].hand)
      /\ db'[i].slip <=> \/ Fares!Late(r)
                         \/ i \in DOMAIN db /\ db[i].slip
                         \/ \E f \in F(i), m \in DOMAIN r.rows : m < f /\ r.rows[m] = r.rows[f]
<1>15. ASSUME NEW i \in Fares!Live'
       PROVE  \/ i \in Fares!Live /\ db'[i] = db[i]
              \/ \E k \in DOMAIN r.rows : Wrote(i, k)
  <2>1. i \in 1..n /\ db'[i].live
    BY <1>14 DEF Fares!Live
  <2>2. CASE F(i) = {}
    BY <1>8, <1>9, <1>13, <2>1, <2>2 DEF Fares!Live
  <2>3. CASE F(i) # {}
    <3>1. db'[i] = Fares!Import(r, F(i), i)
      BY <1>8, <1>13, <2>1, <2>3
    <3>2. F(i) \in SUBSET (DOMAIN r.rows) /\ i \in Nat
      BY <1>5, <1>7, <2>1
    <3>3. PICK k \in F(i) :
            /\ Fares!Import(r, F(i), i).route = r.route /\ Fares!Import(r, F(i), i).leg = r.rows[k]
            /\ Fares!Import(r, F(i), i).early = r.early /\ ~Fares!Import(r, F(i), i).formula
            /\ Fares!Import(r, F(i), i).hand <=> (i \in DOMAIN db /\ db[i].hand)
            /\ Fares!Import(r, F(i), i).slip <=> \/ Fares!Late(r)
                                                 \/ i \in DOMAIN db /\ db[i].slip
                                                 \/ \E f \in F(i), m \in DOMAIN r.rows : m < f
                                                        /\ r.rows[m] = r.rows[f]
      BY <1>1, <1>2, <2>3, <3>2, FareImported
    <3> QED
      BY Zenon, <3>1, <3>2, <3>3
  <2> QED
    BY <2>2, <2>3
\* Fares that it wrote knowing the chart.
<1>16. ASSUME NEW i \in Fares!Live', NEW k \in DOMAIN r.rows, Wrote(i, k), ~db'[i].slip
       PROVE  /\ i \in DOMAIN db => i \in Fares!Live /\ FareSame(db[i], db'[i])
              /\ i \notin DOMAIN db => Fares!Priced(r.route, r.rows[k]) = {}
  <2>1. place[k] = i /\ ~Fares!Late(r) /\ Fares!Knows(r)
    BY <1>2, <1>7, <1>16 DEF Fares!Sound
  <2>2. IF r.found[k] = 0 THEN Fares!Priced(r.route, r.rows[k]) = {}
            ELSE r.found[k] \in Fares!Priced(r.route, r.rows[k])
    BY <1>2, <2>1 DEF Fares!Knows
  <2>3. CASE i \in DOMAIN db
    <3>1. r.found[k] = i /\ i # 0
      BY <1>5, <1>6, <2>1, <2>3
    <3>2. i \in Fares!Live /\ db[i].route = r.route /\ db[i].leg = r.rows[k]
      BY <2>2, <3>1 DEF Fares!Priced
    <3>3. db[i].live
      BY <3>2 DEF Fares!Live
    <3>4. FareMarked(db[i]) => FareMarked(db'[i])
      BY <1>16, <2>3 DEF FareMarked
    <3> QED
      BY <1>16, <2>3, <3>2, <3>3, <3>4 DEF FareSame
  <2>4. CASE i \notin DOMAIN db
    BY <1>6, <2>1, <2>2, <2>4
  <2> QED
    BY <2>3, <2>4
<1> HIDE DEF F
<1>17. ASSUME NEW i \in Fares!Live', NEW j \in Fares!Live', i < j, ~FareMarked(db'[i]), ~FareMarked(db'[j]),
                  FareClash(db', i, j)
       PROVE  i \in DOMAIN db /\ j \in DOMAIN db /\ FareSame(db[i], db'[i]) /\ FareSame(db[j], db'[j])
  <2>1. ASSUME NEW l \in Fares!Live', ~FareMarked(db'[l]), l \in DOMAIN db PROVE l \in Fares!Live
                   /\ FareSame(db[l], db'[l])
    <3>1. CASE l \in Fares!Live /\ db'[l] = db[l]
      BY <3>1 DEF FareSame, Fares!Live
    <3>2. CASE \E k \in DOMAIN r.rows : Wrote(l, k)
      <4>1. PICK k \in DOMAIN r.rows : Wrote(l, k)
        BY <3>2
      <4>2. ~db'[l].slip
        BY <2>1 DEF FareMarked
      <4> HIDE DEF Wrote
      <4> QED
        BY <1>16, <2>1, <4>1, <4>2
    <3> HIDE DEF Wrote
    <3> QED
      BY <1>15, <3>1, <3>2
  <2>2. CASE j \in DOMAIN db
    <3>1. i \in DOMAIN db
      BY <1>5, <1>14, <1>17, <2>2 DEF Fares!Live
    <3> QED
      BY <1>17, <2>1, <2>2, <3>1
  <2>3. CASE j \notin DOMAIN db
    <3>1. PICK k \in DOMAIN r.rows : Wrote(j, k)
      <4> HIDE DEF Wrote
      <4> QED
        BY <1>15, <2>3 DEF Fares!Live
    <3>2. ~db'[j].slip /\ ~db'[i].slip
      BY <1>17 DEF FareMarked
    <3>3. Fares!Priced(r.route, r.rows[k]) = {}
      <4> HIDE DEF Wrote
      <4> QED
        BY <1>16, <2>3, <3>1, <3>2
    <3>4. db'[i].route = r.route /\ db'[i].leg = r.rows[k]
      BY <1>17, <3>1 DEF FareClash
    <3>5. CASE i \in DOMAIN db
      <4>1. i \in Fares!Live /\ FareSame(db[i], db'[i])
        BY <1>17, <2>1, <3>5
      <4>2. i \in Fares!Priced(r.route, r.rows[k])
        BY <3>4, <4>1 DEF FareSame, Fares!Priced
      <4> QED
        BY <3>3, <4>2
    <3>6. CASE i \notin DOMAIN db
      <4>1. PICK h \in DOMAIN r.rows : Wrote(i, h)
        <5> HIDE DEF Wrote
        <5> QED
          BY <1>15, <3>6 DEF Fares!Live
      <4>2. r.rows[h] = r.rows[k] /\ h \in F(i) /\ k \in F(j)
        BY <3>1, <3>4, <4>1
      <4>3. h # k
        BY <1>7, <1>17, <4>2, <1>14, <1>5 DEF Fares!Live
      <4>4. h \in Nat /\ k \in Nat
        BY <1>3
      <4>5. h < k \/ k < h
        BY <4>3, <4>4
      <4>6. CASE h < k
        BY <3>1, <3>2, <4>2, <4>6
      <4>7. CASE k < h
        BY <3>2, <4>1, <4>2, <4>7
      <4> QED
        BY <4>5, <4>6, <4>7
    <3> QED
      BY <3>5, <3>6
  <2> QED
    BY <2>2, <2>3
<1>18. Fares!PricedTwiceKnowingly'
  BY <1>1, <1>14, <1>17, FareTwiceKept
<1>19. ASSUME NEW i \in Fares!Live' PROVE db'[i].hand \/ db'[i].early \/ db'[i].leg \in Fares!LegsOf[db'[i].route]
  <2>1. CASE i \in Fares!Live /\ db'[i] = db[i]
    BY <1>1, <2>1 DEF Fares!ImportsFitTheRoute
  <2>2. CASE \E k \in DOMAIN r.rows : Wrote(i, k)
    <3>1. PICK k \in DOMAIN r.rows : db'[i].route = r.route /\ db'[i].leg = r.rows[k] /\ db'[i].early = r.early
      BY <2>2
    <3>2. CASE r.early
      BY <3>1, <3>2
    <3>3. CASE ~r.early
      <4>1. r.rows[k] \in Fares!LegsOf[r.route]
        BY <1>2, <1>3, <3>3 DEF Fares!Sound, Fares!ToSet
      <4> QED
        BY <3>1, <4>1
    <3> QED
      BY <3>2, <3>3
  <2> HIDE DEF Wrote
  <2> QED
    BY <1>15, <2>1, <2>2
<1>20. Fares!ImportsFitTheRoute'
  BY <1>19 DEF Fares!ImportsFitTheRoute
<1> QED
  BY <1>13, <1>18, <1>20 DEF FareHeld
\* Two stops of a line lie one ahead of the other, not both.
LEMMA FareAheadIsOneWay ==
  ASSUME Fares!FareAssumption, NEW route \in Fares!Routes, NEW leg \in Fares!Ahead(route)
  PROVE  Fares!Back(leg) \notin Fares!Ahead(route)
<1> DEFINE stops == Line[route]
<1>1. ASSUME NEW l \in Fares!Ahead(route)
      PROVE  \E p, q \in DOMAIN stops : p < q /\ l = <<stops[p], stops[q]>>
  BY DEF Fares!Ahead
<1>2. \A p, q \in DOMAIN stops : stops[p] = stops[q] => p = q
  BY DEF Fares!FareAssumption
<1>3. DOMAIN stops \subseteq Nat
  BY FareLineStops
<1>4. ASSUME Fares!Back(leg) \in Fares!Ahead(route) PROVE FALSE
  <2>1. PICK p \in DOMAIN stops, q \in DOMAIN stops : p < q /\ leg = <<stops[p], stops[q]>>
    BY <1>1
  <2>2. PICK s \in DOMAIN stops, t \in DOMAIN stops : s < t /\ Fares!Back(leg) = <<stops[s], stops[t]>>
    BY <1>1, <1>4
  <2>3. stops[s] = stops[q] /\ stops[t] = stops[p]
    BY <2>1, <2>2 DEF Fares!Back
  <2>4. s = q /\ t = p
    BY <1>2, <2>3
  <2> QED
    BY <1>3, <2>1, <2>2, <2>4
<1> QED
  BY <1>4

LEMMA FareSaveGenerateKeeps ==
  ASSUME Fares!FareAssumption, Fares!IInv, NEW r \in wire, Fares!SaveGenerate(r)
  PROVE  FareHeld
<1>1. Fares!TypeOK /\ Fares!PageInv /\ Fares!WireInv /\ Fares!PricedTwiceKnowingly /\ Fares!ImportsFitTheRoute
  BY DEF Fares!IInv
<1>2. r \in Fares!Requests /\ Fares!Sound(r) /\ r.kind = "generate" /\ r.phase = "read"
  BY <1>1 DEF Fares!TypeOK, Fares!WireInv, Fares!SaveGenerate
<1>3. r.route \in Fares!Routes /\ r.legs \in SUBSET Fares!Legs /\ r.legs \subseteq Fares!Ahead(r.route)
  BY <1>2 DEF Fares!Requests, Fares!Sound
<1> DEFINE new(l) == [Fares!Row(r.route, l) EXCEPT !.formula = TRUE, !.slip = Fares!Late(r)]
           rows(n, leg) == [i \in 1..n |-> IF i <= Len(db) THEN db[i] ELSE new(leg[i])]
<1>4. PICK n \in Len(db)..MaxFares : \E leg \in [(Len(db) + 1)..n -> r.legs] :
        /\ \A i, j \in DOMAIN leg : leg[i] = leg[j] => i = j
        /\ Fares!Commit(r, rows(n, leg))
  BY DEF Fares!SaveGenerate
<1>5. PICK leg \in [(Len(db) + 1)..n -> r.legs] :
        /\ \A i, j \in DOMAIN leg : leg[i] = leg[j] => i = j
        /\ Fares!Commit(r, rows(n, leg))
  BY <1>4
<1> DEFINE R == rows(n, leg)
<1>6. n \in Nat /\ Len(db) <= n /\ Len(db) \in Nat /\ DOMAIN db = 1..Len(db)
          /\ \A i \in DOMAIN db : db[i] \in Fares!Rows
  BY <1>1, FareChartShape
<1>7. PICK late \in BOOLEAN : late = Fares!Late(r)
  BY DEF Fares!Late
<1>8. ASSUME NEW l \in Fares!Legs
      PROVE  /\ new(l) \in Fares!Rows /\ new(l).route = r.route /\ new(l).leg = l /\ new(l).slip = late
  <2>1. new(l) = [Fares!Row(r.route, l) EXCEPT !.formula = TRUE, !.slip = late]
    BY Zenon, <1>7
  <2> HIDE DEF new
  <2> QED
    BY <1>3, <2>1 DEF Fares!Row, Fares!Rows
<1>9. R = [i \in 1..n |-> IF i <= Len(db) THEN db[i] ELSE new(leg[i])]
  OBVIOUS
<1> HIDE DEF new, rows
<1>10. ASSUME NEW i \in 1..n, i \notin DOMAIN db
       PROVE  /\ i \in DOMAIN leg /\ leg[i] \in r.legs /\ leg[i] \in Fares!Legs /\ leg[i] \in Fares!Ahead(r.route)
              /\ R[i] = new(leg[i])
  <2>1. i \in (Len(db) + 1)..n /\ ~(i <= Len(db))
    BY <1>6, <1>10
  <2>2. leg[i] \in r.legs
    BY <2>1
  <2> QED
    BY <1>3, <1>9, <2>1, <2>2
<1>11. ASSUME NEW i \in DOMAIN db PROVE i \in 1..n /\ R[i] = db[i]
  BY <1>6, <1>9
<1>12. ASSUME NEW i \in 1..n PROVE R[i] \in Fares!Rows
  <2>1. CASE i \in DOMAIN db
    BY <1>6, <1>11, <2>1
  <2>2. CASE i \notin DOMAIN db
    BY <1>8, <1>10, <2>2
  <2> QED
    BY <2>1, <2>2
<1> HIDE DEF R
<1>13. R \in Seq(Fares!Rows) /\ Len(R) = n
  BY <1>6, <1>9, <1>12
<1>14. Fares!Commit(r, R)
  BY <1>5 DEF R
<1>15. db' = R /\ Fares!TypeOK' /\ Fares!PageInv' /\ Fares!WireInv'
  BY <1>1, <1>6, <1>13, <1>14, FareCommitKeeps
<1>16. DOMAIN db' = 1..n /\ DOMAIN db \subseteq DOMAIN db'
  BY <1>6, <1>13, <1>15
<1>17. ASSUME NEW i \in Fares!Live', i \in DOMAIN db PROVE db'[i] = db[i] /\ i \in Fares!Live
                  /\ FareSame(db[i], db'[i])
  BY <1>11, <1>15, <1>17 DEF Fares!Live, FareSame
<1>18. ASSUME NEW i \in Fares!Live', i \notin DOMAIN db
       PROVE  /\ i \in DOMAIN leg /\ leg[i] \in r.legs /\ leg[i] \in Fares!Ahead(r.route)
              /\ db'[i].route = r.route /\ db'[i].leg = leg[i] /\ db'[i].slip = late
  BY <1>8, <1>10, <1>15, <1>16, <1>18 DEF Fares!Live
<1>19. ASSUME NEW i \in Fares!Live', NEW j \in Fares!Live', i < j, ~FareMarked(db'[i]), ~FareMarked(db'[j]),
                  FareClash(db', i, j)
       PROVE  i \in DOMAIN db /\ j \in DOMAIN db /\ FareSame(db[i], db'[i]) /\ FareSame(db[j], db'[j])
  <2>1. CASE j \in DOMAIN db
    <3>1. i \in DOMAIN db
      BY <1>6, <1>16, <1>19, <2>1 DEF Fares!Live
    <3> QED
      BY <1>17, <2>1, <3>1
  <2>2. CASE j \notin DOMAIN db
    <3>1. leg[j] \in r.legs /\ leg[j] \in Fares!Ahead(r.route) /\ db'[j].route = r.route /\ db'[j].leg = leg[j]
      BY <1>18, <2>2
    <3>2. ~Fares!Late(r)
      BY <1>7, <1>18, <1>19, <2>2 DEF FareMarked
    <3>3. Fares!Priced(r.route, leg[j]) = {} /\ Fares!Priced(r.route, Fares!Back(leg[j])) = {}
      BY <1>2, <3>1, <3>2 DEF Fares!Sound, Fares!Knows, Fares!Unpriced
    <3>4. db'[i].route = r.route /\ db'[i].leg \in {leg[j], Fares!Back(leg[j])}
      BY <1>19, <3>1 DEF FareClash
    <3>5. CASE i \in DOMAIN db
      <4>1. i \in Fares!Live /\ db[i].route = r.route /\ db[i].leg \in {leg[j], Fares!Back(leg[j])}
        BY <1>17, <3>4, <3>5
      <4>2. i \in Fares!Priced(r.route, leg[j]) \cup Fares!Priced(r.route, Fares!Back(leg[j]))
        BY <4>1 DEF Fares!Priced
      <4> QED
        BY <3>3, <4>2
    <3>6. CASE i \notin DOMAIN db
      <4>1. leg[i] \in Fares!Ahead(r.route) /\ db'[i].leg = leg[i] /\ i \in DOMAIN leg /\ j \in DOMAIN leg
        BY <1>18, <2>2, <3>6
      <4>2. leg[i] # Fares!Back(leg[j])
        BY <1>3, <3>1, <4>1, FareAheadIsOneWay
      <4>3. i = j
        BY <1>5, <3>4, <4>1, <4>2
      <4>4. i \in Nat /\ j \in Nat
        BY <1>16 DEF Fares!Live
      <4> QED
        BY <1>19, <4>3, <4>4
    <3> QED
      BY <3>5, <3>6
  <2> QED
    BY <2>1, <2>2
<1>20. Fares!PricedTwiceKnowingly'
  BY <1>1, <1>16, <1>19, FareTwiceKept
<1>21. ASSUME NEW i \in Fares!Live' PROVE db'[i].hand \/ db'[i].early \/ db'[i].leg \in Fares!LegsOf[db'[i].route]
  <2>1. CASE i \in DOMAIN db
    BY <1>1, <1>17, <2>1 DEF Fares!ImportsFitTheRoute
  <2>2. CASE i \notin DOMAIN db
    BY <1>3, <1>18, <2>2, FareAheadAreLegs
  <2> QED
    BY <2>1, <2>2
<1>22. Fares!ImportsFitTheRoute'
  BY <1>21 DEF Fares!ImportsFitTheRoute
<1> QED
  BY <1>15, <1>20, <1>22 DEF FareHeld

\* ---- every step ---------------------------------------------------------------------------------

LEMMA FareKeptHolds ==
  ASSUME Fares!IInv, FareKept
  PROVE  Fares!IInv'
BY FareCalmKeeps DEF Fares!IInv, FareKept

LEMMA FareHeldHolds ==
  ASSUME FareHeld
  PROVE  Fares!IInv'
BY DEF Fares!IInv, FareHeld

LEMMA FareInitHolds ==
  ASSUME Fares!FareAssumption, Fares!Init
  PROVE  Fares!IInv
<1>1. /\ shown = [fares |-> <<>>] /\ due = {"fares"} /\ dialog = None /\ wire = {}
      /\ form = [known |-> {}, add |-> Fares!Blank, edit |-> Fares!Blank, route |-> None, rows |-> <<Fares!Flat>>]
      /\ hist = [opens |-> 0, sends |-> 0, picks |-> 0, writes |-> 0]
  BY DEF Fares!Init
<1>2. /\ db \in Seq(Fares!Rows) /\ Len(db) <= 1
      /\ \A i \in DOMAIN db : db[i].leg \in Fares!LegsOf[db[i].route]
  <2>1. CASE db = <<>>
    BY <2>1
  <2>2. CASE db # <<>>
    <3>1. PICK s \in Fares!Routes :
            Len(Line[s]) > 1 /\ db = <<[Fares!Row(s, <<Line[s][1], Line[s][2]>>) EXCEPT !.formula = TRUE]>>
      BY <2>2 DEF Fares!Init
    <3> DEFINE leg == <<Line[s][1], Line[s][2]>>
               row == [Fares!Row(s, leg) EXCEPT !.formula = TRUE]
    <3>2. leg \in Fares!LegsOf[s] /\ leg \in Fares!Legs
      <4>1. 1 \in DOMAIN Line[s] /\ 2 \in DOMAIN Line[s] /\ 1 # 2
        BY <3>1, FareLineStops
      <4> QED
        BY <4>1, FareLineStops
    <3> HIDE DEF leg
    <3>3. row \in Fares!Rows /\ row.leg = leg /\ row.route = s
      BY <3>2 DEF Fares!Row, Fares!Rows
    <3>4. db = <<row>>
      BY <3>1 DEF leg
    <3> HIDE DEF row
    <3> QED
      BY <3>2, <3>3, <3>4
  <2> QED
    BY <2>1, <2>2
<1>3. Len(db) \in Nat /\ DOMAIN db = 1..Len(db)
  BY <1>2
<1>4. Len(db) <= MaxFares
  BY <1>2, <1>3 DEF Fares!FareAssumption
<1>5. Fares!Blank \in Fares!Draft /\ <<Fares!Flat>> \in Seq(Fares!Legs \cup {Fares!Flat})
          /\ Len(<<Fares!Flat>>) \in 1..MaxImports
  BY DEF Fares!Blank, Fares!Draft, Fares!FareAssumption
<1>6. form \in FareShapes /\ form.rows = <<Fares!Flat>> /\ form.route = None /\ form.known = {}
  BY <1>1, <1>5 DEF FareShapes
<1>7. Fares!TypeOK
  <2>1. shown["fares"] = <<>> /\ <<>> \in [DOMAIN <<>> -> Fares!Fare]
    BY <1>1
  <2>2. shown \in [{"fares"} -> [DOMAIN shown["fares"] -> Fares!Fare]]
    BY <1>1, <2>1
  <2>3. Len(form.rows) \in 1..MaxImports
    BY <1>5, <1>6
  <2>4. wire \subseteq Fares!Requests /\ hist \in [opens: Nat, sends: Nat, picks: Nat, writes: Nat]
    BY <1>1
  <2>5. due \subseteq {"fares"} \cup Fares!Routes /\ dialog = None
    BY <1>1
  <2> HIDE DEF FareShapes
  <2> QED
    BY <1>2, <1>4, <1>6, <2>2, <2>3, <2>4, <2>5 DEF Fares!TypeOK, FareShapes
<1>8. Fares!PageInv /\ Fares!WireInv
  BY <1>1, <1>6 DEF Fares!PageInv, Fares!In, Fares!WireInv
<1>9. Fares!PricedTwiceKnowingly
  BY <1>2, <1>3 DEF Fares!PricedTwiceKnowingly, Fares!Live
<1>10. Fares!ImportsFitTheRoute
  BY <1>2 DEF Fares!ImportsFitTheRoute, Fares!Live
<1> QED
  BY <1>7, <1>8, <1>9, <1>10 DEF Fares!IInv

LEMMA FareStepKeeps ==
  ASSUME Fares!FareAssumption, Fares!IInv, [Fares!Next]_deskVars
  PROVE  Fares!IInv'
<1> USE DEF Fares!IInv
<1>1. CASE Fares!LoadFares
  BY <1>1, FareLoadFaresKeeps, FareKeptHolds
<1>2. CASE Fares!Browse
  BY <1>2, FareBrowseKeeps, FareKeptHolds
<1>3. CASE Fares!CloseDialog
  BY <1>3, FareCloseDialogKeeps, FareKeptHolds
<1>4. CASE Fares!AppendRow
  BY <1>4, FareAppendRowKeeps, FareKeptHolds
<1>5. CASE Fares!SubmitAdd
  BY <1>5, FareSubmitAddKeeps, FareKeptHolds
<1>6. CASE Fares!SubmitEdit
  BY <1>6, FareSubmitEditKeeps, FareKeptHolds
<1>7. CASE Fares!SubmitDelete
  BY <1>7, FareSubmitDeleteKeeps, FareKeptHolds
<1>8. CASE Fares!SubmitImport
  BY <1>8, FareSubmitImportKeeps, FareKeptHolds
<1>9. CASE Fares!GiveUp
  BY <1>9, FareGiveUpKeeps, FareKeptHolds
<1>10. CASE \E kind \in {"add", "import", "generate"} : Fares!OpenForm(kind)
  BY <1>10, FareOpenFormKeeps, FareKeptHolds
<1>11. CASE \E i \in DOMAIN shown["fares"] : Fares!OpenEdit(i) \/ Fares!OpenDelete(i)
  BY <1>11, FareOpenEditKeeps, FareOpenDeleteKeeps, FareKeptHolds
<1>12. CASE \E f \in Fares!Forms : Fares!ChooseStops(f) \/ \E route \in Fares!Routes : Fares!ChooseRoute(f, route)
  BY <1>12, FareChooseStopsKeeps, FareChooseRouteKeeps, FareKeptHolds
<1>13. CASE \E route \in Fares!Routes : Fares!ChooseImportRoute(route) \/ Fares!StopsFound(route)
                \/ Fares!SubmitGenerate(route)
  BY <1>13, FareChooseImportRouteKeeps, FareStopsFoundKeeps, FareSubmitGenerateKeeps, FareKeptHolds
<1>14. CASE \E k \in DOMAIN form.rows : Fares!EditRow(k) \/ Fares!RemoveRow(k)
  BY <1>14, FareEditRowKeeps, FareRemoveRowKeeps, FareKeptHolds
<1>15. ASSUME NEW r \in wire,
              Fares!ServeAdd(r) \/ Fares!ServeDelete(r) \/ Fares!SaveEdit(r) \/ Fares!SaveImport(r)
                  \/ Fares!SaveGenerate(r)
       PROVE  Fares!IInv'
  BY <1>15, FareServeAddKeeps, FareServeDeleteKeeps, FareSaveEditKeeps, FareSaveImportKeeps, FareSaveGenerateKeeps,
     FareKeptHolds, FareHeldHolds
<1>16. ASSUME NEW r \in wire, Fares!ReadEdit(r) \/ Fares!ReadImport(r) \/ Fares!ReadGenerate(r)
                  \/ Fares!Succeed(r) \/ Fares!Fail(r)
       PROVE  Fares!IInv'
  BY <1>16, FareReadEditKeeps, FareReadImportKeeps, FareReadGenerateKeeps, FareSucceedKeeps, FareFailKeeps,
     FareKeptHolds
<1>17. CASE UNCHANGED deskVars
  <2>1. UNCHANGED <<db, shown, due, dialog, form, wire, hist>>
    BY <1>17 DEF deskVars
  <2>2. FareKept
    BY <2>1, FareFewerKeeps
  <2> QED
    BY <2>2, FareKeptHolds
<1> HIDE DEF Fares!IInv
<1> QED
  BY <1>1, <1>2, <1>3, <1>4, <1>5, <1>6, <1>7, <1>8, <1>9, <1>10, <1>11, <1>12, <1>13, <1>14, <1>15, <1>16, <1>17
     DEF Fares!Next

\* Every state of the chart and of its page is one that the steps above keep: what
\* the page shows is of fares there are, and a request whose number is not behind knows
\* the chart.
THEOREM FareInvariance == ASSUME Fares!FareAssumption PROVE Fares!Spec => []Fares!IInv
<1>1. Fares!Init => Fares!IInv
  BY FareInitHolds
<1>2. Fares!IInv /\ [Fares!Next]_deskVars => Fares!IInv'
  BY FareStepKeeps
<1> QED
  BY <1>1, <1>2, PTL DEF Fares!Spec, Fares!deskVars, deskVars

\* The chart, the page and every request hold what they are meant to hold.
THEOREM FareTypeCorrect == ASSUME Fares!FareAssumption PROVE Fares!Spec => []Fares!TypeOK
<1>1. Fares!IInv => Fares!TypeOK
  BY DEF Fares!IInv
<1> QED
  BY <1>1, FareInvariance, PTL

\* A leg is priced twice only by a hand, or by a writer that had not read the other.
THEOREM FarePricedTwice == ASSUME Fares!FareAssumption PROVE Fares!Spec => []Fares!PricedTwiceKnowingly
<1>1. Fares!IInv => Fares!PricedTwiceKnowingly
  BY DEF Fares!IInv
<1> QED
  BY <1>1, FareInvariance, PTL

\* What was imported or generated prices legs of its own route.
THEOREM FareImportsFit == ASSUME Fares!FareAssumption PROVE Fares!Spec => []Fares!ImportsFitTheRoute
<1>1. Fares!IInv => Fares!ImportsFitTheRoute
  BY DEF Fares!IInv
<1> QED
  BY <1>1, FareInvariance, PTL

\* ---- the chart of accounts ------------------------------------------------------------

\* ---- the inductive invariant -------------------------------------------------

ChartForms == [mode: {"none", "create", "edit"}, selected: Accounts \cup {None}, account: Accounts \cup {None},
    row: Chart!Row]
ChartHists == [opens: 0..MaxOpens, sends: 0..MaxSends, crossed: BOOLEAN, switched: SUBSET Accounts]

\* An account that was made, be it removed since, is what a row, the page or a
\* request may name.
ChartMade(rows, x) == x \in Accounts /\ rows[x].state # "none"
ChartNames(rows, x) == x = None \/ ChartMade(rows, x)

ChartNamed(rows) == \A x \in Accounts : ChartNames(rows, rows[x].parent)

ChartTreeShape(rows) ==
    /\ shown = [query \in {"tree"} |-> shown[query]]
    /\ \A x \in DOMAIN Chart!Tree : Chart!Tree[x] \in Chart!Row /\ ChartMade(rows, x)

ChartFormShape(rows) ==
    /\ form \in ChartForms /\ form.row.state = "active"
    /\ ChartNames(rows, form.selected) /\ ChartNames(rows, form.row.parent)
    /\ form.mode = "edit" => form.selected # None

ChartDialogShape(rows) == dialog = None \/ (dialog \in [kind: {"move"}, id: Accounts] /\ ChartMade(rows, dialog.id))

ChartPageShape ==
    ChartTreeShape(Chart!Rows) /\ due \subseteq {"tree"} /\ ChartDialogShape(Chart!Rows)
        /\ ChartFormShape(Chart!Rows) /\ hist \in ChartHists

\* What the handler of r found in what it read before it goes on to write.
ChartTested(r, rows) ==
    /\ r.kind # "create" /\ r.seen.rows[r.id].state = "active"
    /\ ChartNames(rows, r.seen.rows[r.id].parent)
    /\ r.kind = "move" /\ r.to # None => r.seen.rows[r.to].state = "active" /\ ~Chart!Above(r.seen.rows, r.to, r.id)
    /\ r.kind = "update" /\ r.row.parent # None => ~Chart!Above(r.seen.rows, r.row.parent, r.id)
    /\ r.kind = "delete" => Chart!Children(r.seen.rows, r.id) = {} /\ r.id \notin r.seen.lines

ChartSound(r, rows) ==
    /\ ChartNames(rows, r.id) /\ ChartNames(rows, r.to) /\ ChartNames(rows, r.row.parent) /\ ChartNames(rows, r.old)
    /\ r.row.state # "none"
    /\ r.kind = "create" => r.row.state = "active" /\ r.phase \in {"sent", "ok", "error"}
    /\ r.kind # "create" => r.id # None
    /\ r.kind = "create" /\ r.phase = "ok" => ChartMade(rows, r.made)
    /\ r.phase = "read" => ChartTested(r, rows)
    /\ r.phase = "bare" => r.old # None /\ Chart!Children(r.seen.rows, r.old) = {}

ChartWireInv == \A r \in wire : r \in Chart!Requests /\ ChartSound(r, Chart!Rows)

\* No walk up is endless: whatever the set of accounts, one of them has its
\* parent outside.
ChartRooted(rows) == \A S \in SUBSET Accounts : S # {} => \E x \in S : rows[x].parent \notin S

\* An account in use hangs from another in use, but for what an edit did.
ChartHung(rows, switched) ==
    \A x \in Chart!ActiveIn(rows) :
        \/ rows[x].parent = None
        \/ rows[rows[x].parent].state = "active"
        \/ rows[x].parent \in switched

ChartGrouped(rows, switched) ==
    \A x \in Chart!ActiveIn(rows) : Chart!Children(rows, x) # {} => rows[x].group \/ x \in switched

ChartUnused(rows, lines, switched) == \A x \in lines : rows[x].state = "active" \/ x \in switched

ChartTidy(d, switched) ==
    ChartRooted(d.rows) /\ ChartHung(d.rows, switched) /\ ChartGrouped(d.rows, switched)
        /\ ChartUnused(d.rows, d.lines, switched)

ChartIInv == db \in Chart!Dbs /\ ChartNamed(Chart!Rows) /\ ChartPageShape /\ ChartWireInv
    /\ (hist.crossed \/ ChartTidy(db, hist.switched))
-----------------------------------------------------------------------------
\* The tree holds whatever hangs from it: going up from an account that is in
\* use one meets accounts in use up to a root, or what an edit switched off.
LEMMA ChartTidyTree ==
  ASSUME Chart!AccountsAssumption, NEW d \in Chart!Dbs, NEW switched \in SUBSET Accounts, ChartTidy(d, switched),
         NEW a \in Chart!ActiveIn(d.rows), \A b \in switched : ~Chart!Above(d.rows, a, b)
  PROVE  a \in Chart!InTree(d.rows)
<1> DEFINE rows == d.rows
<1>1. rows \in [Accounts -> Chart!Row] /\ Chart!ActiveIn(rows) \subseteq Accounts
  BY DEF Chart!Dbs, Chart!ActiveIn
<1>2. SUFFICES ASSUME NEW S \in SUBSET Accounts,
                      \A x \in Chart!ActiveIn(rows) : rows[x].parent \in S \cup {None} => x \in S,
                      a \notin S
               PROVE  FALSE
  BY <1>1 DEF Chart!InTree
<1> DEFINE T == {x \in Chart!ActiveIn(rows) : x \notin S /\ Chart!Above(rows, a, x)}
<1>3. a \in T
  BY <1>2 DEF Chart!Above
<1>4. ASSUME NEW x \in T PROVE rows[x].parent \in T
  <2>1. x \in Chart!ActiveIn(rows) /\ x \notin S /\ Chart!Above(rows, a, x)
    BY <1>4
  <2>2. rows[x].parent \notin S \cup {None}
    BY <1>2, <2>1
  <2>3. rows[x].parent \in Accounts
    BY <1>1, <2>1, <2>2 DEF Chart!Row
  <2>4. Chart!Above(rows, a, rows[x].parent)
    <3> SUFFICES ASSUME NEW U \in SUBSET Accounts, a \in U, \A y \in U : rows[y].parent \in U \cup {None}
                 PROVE  rows[x].parent \in U
      BY DEF Chart!Above
    <3>1. x \in U
      BY <2>1 DEF Chart!Above
    <3> QED
      BY <3>1, <2>2
  <2>5. rows[x].parent \notin switched
    BY <2>4
  <2>6. rows[rows[x].parent].state = "active"
    BY <2>1, <2>2, <2>5 DEF ChartTidy, ChartHung
  <2> QED
    BY <2>2, <2>3, <2>4, <2>6 DEF Chart!ActiveIn
<1>5. T \in SUBSET Accounts
  BY <1>1
<1> HIDE DEF T
<1> QED
  BY <1>3, <1>4, <1>5 DEF ChartTidy, ChartRooted

\* No walk up from p meets a when it is to be the parent of a: the accounts met
\* are a set of their own, closed under parents.
LEMMA ChartRootedSaved ==
  ASSUME Chart!AccountsAssumption, NEW rows \in [Accounts -> Chart!Row], NEW a \in Accounts, NEW row \in Chart!Row,
             ChartRooted(rows),
         row.parent # None => ~Chart!Above(rows, row.parent, a)
  PROVE  ChartRooted(Chart!Saved(rows, a, row))
<1> DEFINE new == Chart!Saved(rows, a, row)
           p == row.parent
<1>1. new[a].parent = p /\ \A x \in Accounts \ {a} : new[x].parent = rows[x].parent
  BY DEF Chart!Saved, Chart!Row
<1> HIDE DEF new
<1>2. SUFFICES ASSUME NEW S \in SUBSET Accounts, S # {}, \A x \in S : new[x].parent \in S
               PROVE  FALSE
  BY DEF ChartRooted, new
<1>3. a \in S
  <2> SUFFICES ASSUME a \notin S PROVE FALSE
    OBVIOUS
  <2>1. \A x \in S : rows[x].parent \in S
    BY <1>1, <1>2
  <2> QED
    BY <1>2, <2>1 DEF ChartRooted
<1>4. p \in S /\ p # None
  BY <1>1, <1>2, <1>3 DEF Chart!AccountsAssumption
<1>5. PICK C \in SUBSET Accounts : p \in C /\ (\A x \in C : rows[x].parent \in C \cup {None}) /\ a \notin C
  BY <1>4 DEF Chart!Above
<1> DEFINE T == S \cap C
<1>6. \A x \in T : rows[x].parent \in T
  BY <1>1, <1>2, <1>5 DEF Chart!AccountsAssumption
<1>7. T # {} /\ T \in SUBSET Accounts
  BY <1>4, <1>5
<1> HIDE DEF T
<1> QED
  BY <1>6, <1>7 DEF ChartRooted

\* What save() may put in the place of a for the chart to stay tidy.
ChartFits(d, a, row, switched) ==
    /\ row.parent # None => ~Chart!Above(d.rows, row.parent, a)
    /\ ChartNames(d.rows, row.parent) /\ row.state # "none"
    /\ row.parent # None => d.rows[row.parent].state = "active" \/ row.parent \in switched
    /\ row.state = "active" \/ a \in switched
    /\ \/ row.group \/ a \in switched
       \/ Chart!Children(d.rows, a) = {}
       \/ row.group = d.rows[a].group /\ d.rows[a].state = "active"

LEMMA ChartSavedRow ==
  ASSUME Chart!AccountsAssumption, NEW rows \in [Accounts -> Chart!Row], NEW a \in Accounts, NEW row \in Chart!Row
  PROVE  /\ Chart!Saved(rows, a, row) \in [Accounts -> Chart!Row]
         /\ Chart!Saved(rows, a, row)[a] = row
         /\ \A x \in Accounts \ {a} : /\ Chart!Saved(rows, a, row)[x].parent = rows[x].parent
                                      /\ Chart!Saved(rows, a, row)[x].state = rows[x].state
                                      /\ Chart!Saved(rows, a, row)[x].group = (rows[x].group \/ x = row.parent)
<1>1. Chart!Saved(rows, a, row)[a] = row
  BY DEF Chart!Saved
<1>2. ASSUME NEW x \in Accounts \ {a}
      PROVE  /\ Chart!Saved(rows, a, row)[x] \in Chart!Row
             /\ Chart!Saved(rows, a, row)[x].parent = rows[x].parent
             /\ Chart!Saved(rows, a, row)[x].state = rows[x].state
             /\ Chart!Saved(rows, a, row)[x].group = (rows[x].group \/ x = row.parent)
  <2>1. CASE x = row.parent
    <3>1. Chart!Saved(rows, a, row)[x] = [rows[x] EXCEPT !.group = TRUE]
      BY <1>2, <2>1 DEF Chart!Saved
    <3>2. rows[x] \in Chart!Row
      OBVIOUS
    <3> QED
      BY <2>1, <3>1, <3>2 DEF Chart!Row
  <2>2. CASE x # row.parent
    <3>1. Chart!Saved(rows, a, row)[x] = rows[x]
      BY <1>2, <2>2 DEF Chart!Saved
    <3>2. rows[x] \in Chart!Row
      OBVIOUS
    <3> QED
      BY <2>2, <3>1, <3>2 DEF Chart!Row
  <2> QED
    BY <2>1, <2>2
<1>3. Chart!Saved(rows, a, row) = [x \in Accounts |-> Chart!Saved(rows, a, row)[x]]
  BY DEF Chart!Saved
<1> QED
  BY <1>1, <1>2, <1>3

LEMMA ChartSavedTidy ==
  ASSUME Chart!AccountsAssumption, NEW d \in Chart!Dbs, NEW a \in Accounts, NEW row \in Chart!Row,
         NEW before \in SUBSET Accounts, NEW after \in SUBSET Accounts, before \subseteq after,
         ChartTidy(d, before), ChartFits(d, a, row, after)
  PROVE  ChartTidy([d EXCEPT !.rows = Chart!Saved(d.rows, a, row)], after)
<1> DEFINE rows == d.rows
           new == Chart!Saved(rows, a, row)
           p == row.parent
<1>1. rows \in [Accounts -> Chart!Row] /\ d.lines \in SUBSET Accounts
  BY DEF Chart!Dbs
<1>2. /\ [d EXCEPT !.rows = new].rows = new /\ [d EXCEPT !.rows = new].lines = d.lines
  BY DEF Chart!Dbs
<1>3. /\ new[a] = row
      /\ \A x \in Accounts \ {a} : /\ new[x].parent = rows[x].parent
                                   /\ new[x].state = rows[x].state
                                   /\ new[x].group = (rows[x].group \/ x = p)
  BY <1>1, ChartSavedRow
<1>4. ChartRooted(new)
  BY <1>1, ChartRootedSaved DEF ChartFits, ChartTidy
<1>5. p # a
  BY DEF ChartFits, Chart!Above, Chart!AccountsAssumption
<1>6. p # None => p \in Accounts /\ p # a
  BY <1>5 DEF ChartFits, ChartNames, ChartMade
<1> HIDE DEF new
<1>7. ChartHung(new, after)
  <2> SUFFICES ASSUME NEW x \in Chart!ActiveIn(new), new[x].parent # None, new[x].parent \notin after
               PROVE  new[new[x].parent].state = "active"
    BY DEF ChartHung
  <2>1. x \in Accounts /\ new[x].state = "active"
    BY DEF Chart!ActiveIn
  <2>2. CASE x = a
    BY <1>3, <1>6, <2>2 DEF ChartFits
  <2>3. CASE x # a
    <3>1. x \in Chart!ActiveIn(rows) /\ new[x].parent = rows[x].parent
      BY <1>3, <2>1, <2>3 DEF Chart!ActiveIn
    <3>2. rows[rows[x].parent].state = "active"
      BY <3>1 DEF ChartTidy, ChartHung
    <3>3. rows[x].parent \in Accounts
      BY <1>1, <2>1, <3>1 DEF Chart!Row
    <3>4. CASE rows[x].parent = a
      BY <1>3, <3>1, <3>4 DEF ChartFits
    <3>5. CASE rows[x].parent # a
      BY <1>3, <3>1, <3>2, <3>3, <3>5
    <3> QED
      BY <3>4, <3>5
  <2> QED
    BY <2>2, <2>3
<1>8. ChartGrouped(new, after)
  <2> SUFFICES ASSUME NEW x \in Chart!ActiveIn(new), NEW y \in Chart!Children(new, x), x \notin after
               PROVE  new[x].group
    BY DEF ChartGrouped
  <2>1. x \in Accounts /\ new[x].state = "active" /\ y \in Accounts /\ new[y].state = "active" /\ new[y].parent = x
    BY DEF Chart!ActiveIn, Chart!Children
  <2>2. CASE x = a
    <3>1. y # a
      BY <1>3, <1>5, <2>1, <2>2
    <3>2. y \in Chart!Children(rows, a)
      BY <1>3, <2>1, <2>2, <3>1 DEF Chart!Children, Chart!ActiveIn
    <3>3. row.group \/ (row.group = rows[a].group /\ rows[a].state = "active")
      BY <2>2, <3>2 DEF ChartFits
    <3>4. CASE row.group = rows[a].group /\ rows[a].state = "active"
      <4>1. rows[a].group
        BY <2>2, <3>2, <3>4 DEF ChartTidy, ChartGrouped, Chart!ActiveIn
      <4> QED
        BY <1>3, <2>2, <3>4, <4>1
    <3> QED
      BY <1>3, <2>2, <3>3, <3>4
  <2>3. CASE x # a /\ y = a
    BY <1>3, <2>1, <2>3
  <2>4. CASE x # a /\ y # a
    <3>1. x \in Chart!ActiveIn(rows) /\ y \in Chart!Children(rows, x)
      BY <1>3, <2>1, <2>4 DEF Chart!Children, Chart!ActiveIn
    <3>2. rows[x].group
      BY <3>1 DEF ChartTidy, ChartGrouped
    <3> QED
      BY <1>3, <2>1, <2>4, <3>2
  <2> QED
    BY <2>2, <2>3, <2>4
<1>9. ChartUnused(new, d.lines, after)
  BY <1>1, <1>3 DEF ChartTidy, ChartUnused, ChartFits
<1> QED
  BY <1>2, <1>4, <1>7, <1>8, <1>9 DEF ChartTidy, new

-----------------------------------------------------------------------------
\* An account once made stays made, so what is named stays named.
ChartKeeps(old, new) == \A x \in Accounts : old[x].state # "none" => new[x].state # "none"

LEMMA ChartNamesKept ==
  ASSUME NEW old, NEW new, ChartKeeps(old, new)
  PROVE  /\ \A x : ChartMade(old, x) => ChartMade(new, x)
         /\ \A x : ChartNames(old, x) => ChartNames(new, x)
  BY DEF ChartKeeps, ChartMade, ChartNames

LEMMA ChartSoundKept ==
  ASSUME NEW old, NEW new, ChartKeeps(old, new), NEW r, ChartSound(r, old)
  PROVE  ChartSound(r, new)
<1>1. ChartTested(r, old) => ChartTested(r, new)
  BY ChartNamesKept DEF ChartTested
<1> QED
  BY <1>1, ChartNamesKept DEF ChartSound

LEMMA ChartShapeKept ==
  ASSUME NEW new, ChartKeeps(Chart!Rows, new), ChartPageShape
  PROVE  ChartTreeShape(new) /\ ChartDialogShape(new) /\ ChartFormShape(new)
<1>1. ChartTreeShape(new)
  BY ChartNamesKept DEF ChartPageShape, ChartTreeShape
<1>2. ChartDialogShape(new)
  BY ChartNamesKept DEF ChartPageShape, ChartDialogShape
<1>3. ChartFormShape(new)
  BY ChartNamesKept DEF ChartPageShape, ChartFormShape
<1> QED
  BY <1>1, <1>2, <1>3

\* A step of the server writes rows, and takes the request r a step further, as
\* q, or answers nobody.
LEMMA ChartWrote ==
  ASSUME Chart!AccountsAssumption, ChartIInv, NEW d \in Chart!Dbs, db' = d, ChartNamed(d.rows),
             ChartKeeps(Chart!Rows, d.rows),
         UNCHANGED <<shown, due, dialog, form>>, NEW h \in ChartHists, hist' = h,
         h.crossed \/ ChartTidy(d, h.switched),
         NEW r \in wire, NEW q \in Chart!Requests, wire' \subseteq (wire \ {r}) \cup {q}, q \in wire'
             => ChartSound(q, d.rows)
  PROVE  ChartIInv'
<1>1. Chart!Rows' = d.rows
  BY DEF Chart!Rows
<1>2. ChartPageShape'
  <2>1. ChartTreeShape(d.rows) /\ ChartDialogShape(d.rows) /\ ChartFormShape(d.rows) /\ due \subseteq {"tree"}
    BY ChartShapeKept DEF ChartIInv, ChartPageShape
  <2>2. ChartTreeShape(Chart!Rows)'
    BY <1>1, <2>1 DEF ChartTreeShape, Chart!Tree, ChartMade
  <2>3. ChartDialogShape(Chart!Rows)' /\ ChartFormShape(Chart!Rows)'
    BY <1>1, <2>1 DEF ChartDialogShape, ChartFormShape, ChartMade, ChartNames
  <2> QED
    BY <2>1, <2>2, <2>3 DEF ChartPageShape
<1>3. ChartWireInv'
  <2> SUFFICES ASSUME NEW s \in wire' PROVE s \in Chart!Requests /\ ChartSound(s, d.rows)
    BY <1>1 DEF ChartWireInv, ChartSound, ChartTested, ChartNames, ChartMade
  <2> QED
    BY ChartSoundKept DEF ChartIInv, ChartWireInv
<1>4. ChartNamed(Chart!Rows)' /\ (hist.crossed \/ ChartTidy(db, hist.switched))'
  BY <1>1 DEF ChartNamed, ChartNames, ChartMade, ChartTidy, ChartRooted, ChartHung, ChartGrouped, ChartUnused,
     Chart!ActiveIn, Chart!Children
<1> QED
  BY <1>2, <1>3, <1>4 DEF ChartIInv

\* A gesture of the page, and what it hears, writes nothing.
LEMMA ChartBrowsed ==
  ASSUME Chart!AccountsAssumption, ChartIInv, UNCHANGED <<db, hist.crossed, hist.switched>>, hist' \in ChartHists,
         ChartTreeShape(Chart!Rows)', due' \subseteq {"tree"}, ChartDialogShape(Chart!Rows)',
             ChartFormShape(Chart!Rows)',
         \A s \in wire' : s \in wire \/ (s \in Chart!Requests /\ ChartSound(s, Chart!Rows))
  PROVE  ChartIInv'
<1>1. Chart!Rows' = Chart!Rows
  BY DEF Chart!Rows
<1>2. ChartPageShape'
  BY DEF ChartPageShape
<1>3. ChartWireInv'
  <2> SUFFICES ASSUME NEW s \in wire' PROVE s \in Chart!Requests /\ ChartSound(s, Chart!Rows)
    BY <1>1 DEF ChartWireInv, ChartSound, ChartTested, ChartNames, ChartMade
  <2> QED
    BY DEF ChartIInv, ChartWireInv
<1>4. ChartNamed(Chart!Rows)' /\ (hist.crossed \/ ChartTidy(db, hist.switched))'
  BY <1>1 DEF ChartIInv, ChartNamed, ChartNames, ChartMade, ChartTidy, ChartRooted, ChartHung, ChartGrouped,
     ChartUnused, Chart!ActiveIn, Chart!Children
<1> QED
  BY <1>2, <1>3, <1>4 DEF ChartIInv
-----------------------------------------------------------------------------
LEMMA ChartBlankType ==
  ASSUME Chart!AccountsAssumption
  PROVE  /\ Chart!BlankForm \in Chart!Row /\ Chart!BlankForm.parent = None /\ Chart!BlankForm.state = "active"
                /\ Chart!BlankForm.group = FALSE
         /\ Chart!NoAccount \in Chart!Row /\ Chart!NoAccount.parent = None /\ Chart!NoAccount.state = "none"
         /\ \A kind \in {"create", "update", "delete", "move"} : Chart!Request(kind) \in Chart!Requests
<1>1. /\ Chart!BlankForm \in Chart!Row /\ Chart!BlankForm.parent = None /\ Chart!BlankForm.state = "active"
             /\ Chart!BlankForm.group = FALSE
      /\ Chart!NoAccount \in Chart!Row /\ Chart!NoAccount.parent = None /\ Chart!NoAccount.state = "none"
  BY DEF Chart!BlankForm, Chart!NoAccount, Chart!Row
<1>2. [rows |-> [x \in Accounts |-> Chart!NoAccount], lines |-> {}] \in Chart!Dbs
  BY <1>1 DEF Chart!Dbs
<1> QED
  BY <1>1, <1>2 DEF Chart!Request, Chart!Requests

\* What the page sends names accounts that were made.
LEMMA ChartSentKept ==
  ASSUME Chart!AccountsAssumption, ChartIInv, NEW q \in Chart!Requests, Chart!Send(q), q.phase = "sent",
             q.old = None,
         ChartNames(Chart!Rows, q.id), ChartNames(Chart!Rows, q.to), ChartNames(Chart!Rows, q.row.parent),
             q.row.state # "none",
         q.kind = "create" => q.row.state = "active", q.kind # "create" => q.id # None,
         UNCHANGED <<db, shown, due, form>>, dialog' \in {dialog, None}
  PROVE  ChartIInv'
<1>1. ChartPageShape /\ hist \in ChartHists
  BY DEF ChartIInv, ChartPageShape
<1>2. hist' \in ChartHists /\ UNCHANGED <<hist.crossed, hist.switched>>
  BY <1>1 DEF Chart!Send, ChartHists, Chart!AccountsAssumption
<1>3. UNCHANGED <<Chart!Rows, Chart!Tree>>
  BY DEF Chart!Rows, Chart!Tree
<1>4. ChartTreeShape(Chart!Rows)' /\ ChartFormShape(Chart!Rows)' /\ ChartDialogShape(Chart!Rows)'
          /\ due' \subseteq {"tree"}
  BY <1>1, <1>3 DEF ChartPageShape, ChartTreeShape, ChartFormShape, ChartDialogShape, ChartMade, ChartNames
<1>5. wire' = wire \cup {q} /\ ChartSound(q, Chart!Rows)
  BY DEF Chart!Send, ChartSound, ChartNames
<1> QED
  BY <1>2, <1>4, <1>5, ChartBrowsed

LEMMA ChartSaves ==
  ASSUME Chart!AccountsAssumption, ChartIInv, Chart!HandleSave
  PROVE  ChartIInv'
<1>1. ChartFormShape(Chart!Rows) /\ ChartTreeShape(Chart!Rows)
  BY DEF ChartIInv, ChartPageShape
<1>2. PICK row \in {form.row, [form.row EXCEPT !.group = ~@], [form.row EXCEPT !.state = "retired"]}
               \cup {[form.row EXCEPT !.parent = p] : p \in DOMAIN Chart!Tree \ {form.selected}} :
        IF form.mode = "create"
        THEN row.state = "active" /\ Chart!Send([Chart!Request("create") EXCEPT !.row = row])
        ELSE Chart!Send([Chart!Request("update") EXCEPT !.id = form.selected, !.row = row])
  BY DEF Chart!HandleSave
<1>3. form.row \in Chart!Row /\ form.row.state = "active" /\ ChartNames(Chart!Rows, form.row.parent)
  BY <1>1 DEF ChartFormShape, ChartForms
<1>4. row \in Chart!Row /\ ChartNames(Chart!Rows, row.parent) /\ row.state # "none"
  <2>1. CASE row \in {form.row, [form.row EXCEPT !.group = ~@], [form.row EXCEPT !.state = "retired"]}
    BY <1>3, <2>1 DEF Chart!Row
  <2>2. ASSUME NEW p \in DOMAIN Chart!Tree, row = [form.row EXCEPT !.parent = p]
        PROVE  row \in Chart!Row /\ ChartNames(Chart!Rows, row.parent) /\ row.state # "none"
    <3>1. ChartMade(Chart!Rows, p) /\ p \in Accounts
      BY <1>1 DEF ChartTreeShape, ChartMade
    <3> QED
      BY <1>3, <2>2, <3>1 DEF Chart!Row, ChartNames
  <2> QED
    BY <1>2, <2>1, <2>2
<1>5. UNCHANGED <<db, shown, due, dialog, form>>
  BY DEF Chart!HandleSave
<1>6. CASE form.mode = "create"
  <2> DEFINE q == [Chart!Request("create") EXCEPT !.row = row]
  <2>1. row.state = "active" /\ Chart!Send(q)
    BY <1>2, <1>6
  <2>2. /\ q \in Chart!Requests /\ q.kind = "create" /\ q.phase = "sent"
        /\ q.id = None /\ q.to = None /\ q.old = None /\ q.row = row
    BY <1>4, ChartBlankType DEF Chart!Request, Chart!Requests
  <2> HIDE DEF q
  <2> QED
    BY <1>4, <1>5, <2>1, <2>2, ChartSentKept DEF ChartNames
<1>7. CASE form.mode # "create"
  <2> DEFINE q == [Chart!Request("update") EXCEPT !.id = form.selected, !.row = row]
  <2>1. Chart!Send(q)
    BY <1>2, <1>7
  <2>2. ChartNames(Chart!Rows, form.selected) /\ form.selected # None
    BY <1>1, <1>7 DEF ChartFormShape, ChartForms, Chart!HandleSave
  <2>3. form.selected \in Accounts \cup {None}
    BY <2>2 DEF ChartNames, ChartMade
  <2>4. /\ q \in Chart!Requests /\ q.kind = "update" /\ q.phase = "sent"
        /\ q.id = form.selected /\ q.to = None /\ q.old = None /\ q.row = row
    BY <1>4, <2>3, ChartBlankType DEF Chart!Request, Chart!Requests
  <2> HIDE DEF q
  <2> QED
    BY <1>4, <1>5, <2>1, <2>2, <2>4, ChartSentKept DEF ChartNames
<1> QED
  BY <1>6, <1>7

LEMMA ChartDeletes ==
  ASSUME Chart!AccountsAssumption, ChartIInv, NEW a \in DOMAIN Chart!Tree, Chart!HandleDelete(a)
  PROVE  ChartIInv'
<1> DEFINE q == [Chart!Request("delete") EXCEPT !.id = a]
<1>1. Chart!Send(q) /\ UNCHANGED <<db, shown, due, dialog, form>>
  BY DEF Chart!HandleDelete
<1>2. ChartNames(Chart!Rows, a) /\ a # None
  BY DEF ChartIInv, ChartPageShape, ChartTreeShape, ChartNames, ChartMade, Chart!AccountsAssumption
<1>3. a \in Accounts
  BY <1>2 DEF ChartNames, ChartMade
<1>4. /\ q \in Chart!Requests /\ q.kind = "delete" /\ q.phase = "sent"
      /\ q.id = a /\ q.to = None /\ q.old = None /\ q.row = Chart!BlankForm
  BY <1>3, ChartBlankType DEF Chart!Request, Chart!Requests
<1> HIDE DEF q
<1> QED
  BY <1>1, <1>2, <1>4, ChartBlankType, ChartSentKept DEF ChartNames

LEMMA ChartMoves ==
  ASSUME Chart!AccountsAssumption, ChartIInv, NEW a, ChartMade(Chart!Rows, a),
             NEW p \in DOMAIN Chart!Tree \cup {None}, Chart!SendMove(a, p),
         UNCHANGED <<db, shown, due, form>>, dialog' \in {dialog, None}
  PROVE  ChartIInv'
<1> DEFINE q == [Chart!Request("move") EXCEPT !.id = a, !.to = p]
<1>1. Chart!Send(q)
  BY DEF Chart!SendMove
<1>2. ChartNames(Chart!Rows, a) /\ a # None /\ ChartNames(Chart!Rows, p)
  BY DEF ChartIInv, ChartPageShape, ChartTreeShape, ChartNames, ChartMade, Chart!AccountsAssumption
<1>3. a \in Accounts /\ p \in Accounts \cup {None}
  BY <1>2 DEF ChartNames, ChartMade
<1>4. /\ q \in Chart!Requests /\ q.kind = "move" /\ q.phase = "sent"
      /\ q.id = a /\ q.to = p /\ q.old = None /\ q.row = Chart!BlankForm
  BY <1>3, ChartBlankType DEF Chart!Request, Chart!Requests
<1> HIDE DEF q
<1> QED
  BY <1>1, <1>2, <1>4, ChartBlankType, ChartSentKept DEF ChartNames

\* The panel is turned to another form.
LEMMA ChartTurned ==
  ASSUME Chart!AccountsAssumption, ChartIInv, NEW f \in ChartForms, f.row.state = "active",
             ChartNames(Chart!Rows, f.selected),
         ChartNames(Chart!Rows, f.row.parent), f.mode = "edit" => f.selected # None, Chart!Turn(f)
  PROVE  ChartIInv'
<1>1. ChartPageShape /\ hist \in ChartHists
  BY DEF ChartIInv, ChartPageShape
<1>2. hist' \in ChartHists /\ UNCHANGED <<hist.crossed, hist.switched>>
  BY <1>1 DEF Chart!Turn, ChartHists, Chart!AccountsAssumption
<1>3. UNCHANGED <<Chart!Rows, Chart!Tree, db, wire, due, shown>> /\ form' = f
  BY DEF Chart!Turn, Chart!Rows, Chart!Tree
<1>4. ChartTreeShape(Chart!Rows)' /\ ChartDialogShape(Chart!Rows)' /\ due' \subseteq {"tree"}
  BY <1>1, <1>3 DEF Chart!Turn, ChartPageShape, ChartTreeShape, ChartDialogShape, ChartMade, ChartNames
<1>5. ChartFormShape(Chart!Rows)'
  BY <1>3 DEF ChartFormShape, ChartMade, ChartNames
<1> QED
  BY <1>2, <1>3, <1>4, <1>5, ChartBrowsed

LEMMA ChartTurns ==
  ASSUME Chart!AccountsAssumption, ChartIInv,
         \/ \E a \in DOMAIN Chart!Tree : Chart!HandleSelect(a) \/ Chart!OpenEdit(a)
         \/ \E p \in DOMAIN Chart!Tree \cup {None} : Chart!OpenCreate(p)
  PROVE  ChartIInv'
<1>1. ChartFormShape(Chart!Rows) /\ \A x \in DOMAIN Chart!Tree : x \in Accounts /\ Chart!Tree[x] \in Chart!Row
          /\ ChartMade(Chart!Rows, x) /\ x # None
  BY DEF ChartIInv, ChartPageShape, ChartTreeShape, ChartMade, Chart!AccountsAssumption
<1>2. ASSUME NEW a \in DOMAIN Chart!Tree, Chart!HandleSelect(a) PROVE ChartIInv'
  <2> DEFINE f == [form EXCEPT !.selected = a, !.mode = "none"]
  <2>1. f \in ChartForms /\ f.row = form.row /\ f.selected = a /\ f.mode = "none"
    BY <1>1 DEF ChartFormShape, ChartForms
  <2>2. Chart!Turn(f)
    BY <1>2 DEF Chart!HandleSelect
  <2> HIDE DEF f
  <2> QED
    BY <1>1, <2>1, <2>2, ChartTurned DEF ChartNames, ChartFormShape
<1>3. ASSUME NEW a \in DOMAIN Chart!Tree, Chart!OpenEdit(a) PROVE ChartIInv'
  <2> DEFINE row == [Chart!BlankForm EXCEPT !.group = Chart!Tree[a].group]
             f == [mode |-> "edit", selected |-> a, account |-> a, row |-> row]
  <2>1. row \in Chart!Row /\ row.parent = None /\ row.state = "active"
    BY <1>1, ChartBlankType DEF Chart!Row
  <2>2. Chart!Turn(f)
    BY <1>3 DEF Chart!OpenEdit
  <2> HIDE DEF row
  <2>3. f \in ChartForms /\ f.row = row /\ f.selected = a /\ f.mode = "edit"
    BY <1>1, <2>1 DEF ChartForms
  <2> HIDE DEF f
  <2> QED
    BY <1>1, <2>1, <2>2, <2>3, ChartTurned DEF ChartNames
<1>4. ASSUME NEW p \in DOMAIN Chart!Tree \cup {None}, Chart!OpenCreate(p) PROVE ChartIInv'
  <2> DEFINE row == [Chart!BlankForm EXCEPT !.parent = p]
             f == [mode |-> "create", selected |-> None, account |-> None, row |-> row]
  <2>1. row \in Chart!Row /\ row.parent = p /\ row.state = "active"
    BY <1>1, ChartBlankType DEF Chart!Row
  <2>2. Chart!Turn(f)
    BY <1>4 DEF Chart!OpenCreate
  <2> HIDE DEF row
  <2>3. f \in ChartForms /\ f.row = row /\ f.selected = None /\ f.mode = "create"
    BY <2>1 DEF ChartForms
  <2> HIDE DEF f
  <2> QED
    BY <1>1, <2>1, <2>2, <2>3, ChartTurned DEF ChartNames
<1> QED
  BY <1>2, <1>3, <1>4

-----------------------------------------------------------------------------
LEMMA ChartLoads ==
  ASSUME Chart!AccountsAssumption, ChartIInv, Chart!LoadTree \/ Chart!Mount
  PROVE  ChartIInv'
<1>1. ChartPageShape /\ db \in Chart!Dbs /\ Chart!Rows \in [Accounts -> Chart!Row]
  BY DEF ChartIInv, ChartPageShape, Chart!Dbs, Chart!Rows
<1>2. UNCHANGED <<db, dialog, form, wire, hist>> /\ Chart!Rows' = Chart!Rows
  BY DEF Chart!LoadTree, Chart!Mount, Chart!Arrive, Chart!Ask, Chart!Rows
<1>3. due' \subseteq {"tree"} /\ ChartDialogShape(Chart!Rows)' /\ ChartFormShape(Chart!Rows)'
          /\ hist' \in ChartHists
  BY <1>1, <1>2 DEF ChartPageShape, ChartDialogShape, ChartFormShape, ChartMade, ChartNames, Chart!LoadTree,
     Chart!Mount, Chart!Arrive, Chart!Ask
<1>4. ChartTreeShape(Chart!Rows)'
  <2>1. CASE Chart!LoadTree
    <3> DEFINE tree == [a \in Chart!InTree(Chart!Rows) |-> Chart!Rows[a]]
    <3>1. shown' = [shown EXCEPT !["tree"] = tree]
      BY <2>1 DEF Chart!LoadTree, Chart!Arrive
    <3>2. \A x \in DOMAIN tree : tree[x] \in Chart!Row /\ ChartMade(Chart!Rows, x)
      BY <1>1 DEF Chart!InTree, Chart!ActiveIn, ChartMade
    <3> HIDE DEF tree
    <3>3. shown' = [query \in {"tree"} |-> tree]
      BY <1>1, <3>1 DEF ChartPageShape, ChartTreeShape
    <3> QED
      BY <1>2, <3>2, <3>3 DEF ChartTreeShape, Chart!Tree, ChartMade
  <2>2. CASE Chart!Mount
    BY <1>1, <1>2, <2>2 DEF Chart!Mount, Chart!Ask, ChartPageShape, ChartTreeShape, Chart!Tree, ChartMade
  <2> QED
    BY <2>1, <2>2
<1> QED
  BY <1>2, <1>3, <1>4, ChartBrowsed

LEMMA ChartDialogs ==
  ASSUME Chart!AccountsAssumption, ChartIInv, Chart!CloseMoveDialog
             \/ \E a \in DOMAIN Chart!Tree : Chart!OpenMoveDialog(a)
  PROVE  ChartIInv'
<1>1. ChartPageShape /\ hist \in ChartHists
  BY DEF ChartIInv, ChartPageShape
<1>2. UNCHANGED <<db, shown, due, form, wire>> /\ Chart!Rows' = Chart!Rows
  BY DEF Chart!CloseMoveDialog, Chart!OpenMoveDialog, Chart!Open, Chart!Rows
<1>3. hist' \in ChartHists /\ UNCHANGED <<hist.crossed, hist.switched>>
  BY <1>1 DEF Chart!CloseMoveDialog, Chart!OpenMoveDialog, Chart!Open, ChartHists, Chart!AccountsAssumption
<1>4. ChartTreeShape(Chart!Rows)' /\ due' \subseteq {"tree"} /\ ChartFormShape(Chart!Rows)'
  BY <1>1, <1>2 DEF ChartPageShape, ChartTreeShape, Chart!Tree, ChartFormShape, ChartMade, ChartNames
<1>5. ChartDialogShape(Chart!Rows)'
  <2>1. CASE Chart!CloseMoveDialog
    BY <2>1 DEF Chart!CloseMoveDialog, ChartDialogShape
  <2>2. ASSUME NEW a \in DOMAIN Chart!Tree, Chart!OpenMoveDialog(a) PROVE ChartDialogShape(Chart!Rows)'
    <3>1. a \in Accounts /\ ChartMade(Chart!Rows, a)
      BY <1>1 DEF ChartPageShape, ChartTreeShape, ChartMade
    <3>2. dialog' = [kind |-> "move", id |-> a]
      BY <2>2 DEF Chart!OpenMoveDialog, Chart!Open
    <3> QED
      BY <1>2, <3>1, <3>2 DEF ChartDialogShape, ChartMade
  <2> QED
    BY <2>1, <2>2
<1> QED
  BY <1>2, <1>3, <1>4, <1>5, ChartBrowsed

LEMMA ChartMovesSent ==
  ASSUME Chart!AccountsAssumption, ChartIInv,
         \/ \E p \in DOMAIN Chart!Tree \cup {None} : Chart!MoveHere(p)
         \/ \E a \in DOMAIN Chart!Tree : \E p \in DOMAIN Chart!Tree : Chart!HandleDrop(a, p)
  PROVE  ChartIInv'
<1>1. ASSUME NEW p \in DOMAIN Chart!Tree \cup {None}, Chart!MoveHere(p) PROVE ChartIInv'
  <2>1. ChartMade(Chart!Rows, dialog.id)
    BY <1>1 DEF Chart!MoveHere, ChartIInv, ChartPageShape, ChartDialogShape
  <2> QED
    BY <1>1, <2>1, ChartMoves DEF Chart!MoveHere
<1>2. ASSUME NEW a \in DOMAIN Chart!Tree, NEW p \in DOMAIN Chart!Tree, Chart!HandleDrop(a, p) PROVE ChartIInv'
  <2>1. ChartMade(Chart!Rows, a)
    BY DEF ChartIInv, ChartPageShape, ChartTreeShape
  <2> QED
    BY <1>2, <2>1, ChartMoves DEF Chart!HandleDrop
<1> QED
  BY <1>1, <1>2

LEMMA ChartGivesUp ==
  ASSUME Chart!AccountsAssumption, ChartIInv, Chart!GiveUp
  PROVE  ChartIInv'
<1>1. ChartPageShape /\ hist \in ChartHists
  BY DEF ChartIInv, ChartPageShape
<1>2. UNCHANGED <<db, shown, due, dialog, form, hist>> /\ UNCHANGED <<Chart!Rows, Chart!Tree>>
  BY DEF Chart!GiveUp, Chart!Rows, Chart!Tree
<1>3. ChartTreeShape(Chart!Rows)' /\ ChartDialogShape(Chart!Rows)' /\ ChartFormShape(Chart!Rows)'
          /\ due' \subseteq {"tree"} /\ hist' \in ChartHists
  BY <1>1, <1>2 DEF ChartPageShape, ChartTreeShape, ChartDialogShape, ChartFormShape, ChartMade, ChartNames
<1>4. PICK r \in wire : wire' = wire \ {r} \/ Chart!Replace(r, [r EXCEPT !.who = "gone"])
  BY DEF Chart!GiveUp
<1> DEFINE q == [r EXCEPT !.who = "gone"]
<1>5. r \in Chart!Requests /\ ChartSound(r, Chart!Rows)
  BY DEF ChartIInv, ChartWireInv
<1>6. /\ q \in Chart!Requests /\ q.kind = r.kind /\ q.phase = r.phase /\ q.id = r.id /\ q.to = r.to /\ q.row = r.row
      /\ q.seen = r.seen /\ q.old = r.old /\ q.made = r.made
  BY <1>5 DEF Chart!Requests
<1>7. wire' \subseteq wire \cup {q}
  BY <1>4 DEF Chart!Replace
<1> HIDE DEF q
<1>8. ChartSound(q, Chart!Rows)
  BY <1>5, <1>6 DEF ChartSound, ChartTested
<1> QED
  BY <1>2, <1>3, <1>6, <1>7, <1>8, ChartBrowsed

LEMMA ChartHeard ==
  ASSUME Chart!AccountsAssumption, ChartIInv, NEW r \in wire, Chart!Succeed(r) \/ Chart!Fail(r)
  PROVE  ChartIInv'
<1>1. ChartPageShape /\ hist \in ChartHists /\ r \in Chart!Requests /\ ChartSound(r, Chart!Rows)
  BY DEF ChartIInv, ChartPageShape, ChartWireInv
<1>2. UNCHANGED <<db, shown, dialog, hist>> /\ UNCHANGED <<Chart!Rows, Chart!Tree>> /\ wire' = wire \ {r}
  BY DEF Chart!Succeed, Chart!Fail, Chart!Settle, Chart!Rows, Chart!Tree
<1>3. ChartTreeShape(Chart!Rows)' /\ ChartDialogShape(Chart!Rows)' /\ due' \subseteq {"tree"}
          /\ hist' \in ChartHists
  BY <1>1, <1>2 DEF ChartPageShape, ChartTreeShape, ChartDialogShape, ChartMade, ChartNames, Chart!Succeed,
     Chart!Fail, Chart!Invalidate
<1>4. form \in ChartForms /\ form.row.state = "active" /\ ChartNames(Chart!Rows, form.selected)
          /\ ChartNames(Chart!Rows, form.row.parent)
  BY <1>1 DEF ChartPageShape, ChartFormShape
<1>5. ChartFormShape(Chart!Rows)'
  <2>1. CASE Chart!Fail(r)
    BY <1>1, <1>2, <2>1 DEF Chart!Fail, ChartPageShape, ChartFormShape, ChartMade, ChartNames
  <2>2. CASE Chart!Succeed(r) /\ Chart!SucceedCreate(r)
    <3>1. form' = [form EXCEPT !.mode = "none", !.selected = r.made] /\ ChartMade(Chart!Rows, r.made)
      BY <1>1, <2>2 DEF Chart!Succeed, Chart!SucceedCreate, ChartSound
    <3>2. form' \in ChartForms /\ form'.mode = "none" /\ form'.row = form.row /\ form'.selected = r.made
      BY <1>4, <3>1 DEF ChartForms, ChartMade
    <3> QED
      BY <1>2, <1>4, <3>1, <3>2 DEF ChartFormShape, ChartNames, ChartMade
  <2>3. CASE Chart!Succeed(r) /\ Chart!SucceedOther(r)
    <3> DEFINE mode == IF r.kind \in {"update", "delete"} THEN "none" ELSE form.mode
               selected == IF r.kind = "delete" THEN None ELSE form.selected
    <3>1. form' = [form EXCEPT !.mode = mode, !.selected = selected]
      BY <2>3 DEF Chart!SucceedOther
    <3>2. /\ mode \in {"none", "create", "edit"} /\ selected \in Accounts \cup {None}
                 /\ ChartNames(Chart!Rows, selected)
          /\ mode = "edit" => selected # None
      BY <1>1, <1>4 DEF ChartNames, ChartMade, ChartPageShape, ChartFormShape, ChartForms
    <3> HIDE DEF mode, selected
    <3>3. form' \in ChartForms /\ form'.mode = mode /\ form'.row = form.row /\ form'.selected = selected
      BY <1>4, <3>1, <3>2 DEF ChartForms
    <3> QED
      BY <1>2, <1>4, <3>2, <3>3 DEF ChartFormShape, ChartNames, ChartMade
  <2> QED
    BY <2>1, <2>2, <2>3 DEF Chart!Succeed
<1> QED
  BY <1>2, <1>3, <1>5, ChartBrowsed

-----------------------------------------------------------------------------
\* A step of a handler that writes nothing but where it is.
LEMMA ChartHeld ==
  ASSUME Chart!AccountsAssumption, ChartIInv, NEW r \in wire, NEW q \in Chart!Requests,
             wire' \subseteq (wire \ {r}) \cup {q},
         q \in wire' => ChartSound(q, Chart!Rows), UNCHANGED <<db, shown, due, dialog, form, hist>>
  PROVE  ChartIInv'
<1>1. ChartPageShape /\ UNCHANGED <<Chart!Rows, Chart!Tree>>
  BY DEF ChartIInv, ChartPageShape, Chart!Rows, Chart!Tree
<1>2. ChartTreeShape(Chart!Rows)' /\ ChartDialogShape(Chart!Rows)' /\ ChartFormShape(Chart!Rows)'
          /\ due' \subseteq {"tree"} /\ hist' \in ChartHists
  BY <1>1 DEF ChartPageShape, ChartTreeShape, ChartDialogShape, ChartFormShape, ChartMade, ChartNames
<1> QED
  BY <1>1, <1>2, ChartBrowsed

\* An answer of a handler.
LEMMA ChartAnswered ==
  ASSUME NEW r \in Chart!Requests, NEW phase \in {"ok", "error"}, Chart!Answer(r, phase), r \in wire, NEW rows,
             ChartSound(r, rows),
         r.kind = "create" => phase = "error"
  PROVE  \E q \in Chart!Requests : wire' \subseteq (wire \ {r}) \cup {q} /\ ChartSound(q, rows)
<1> DEFINE q == [r EXCEPT !.phase = phase]
<1>1. /\ q \in Chart!Requests /\ q.phase = phase /\ q.kind = r.kind /\ q.id = r.id /\ q.to = r.to /\ q.row = r.row
      /\ q.old = r.old
  BY DEF Chart!Requests
<1>2. wire' \subseteq (wire \ {r}) \cup {q}
  BY DEF Chart!Answer
<1> HIDE DEF q
<1>3. ChartSound(q, rows)
  BY <1>1 DEF ChartSound
<1> QED
  BY <1>1, <1>2, <1>3

\* A test passed: what it found is kept with what was read.
LEMMA ChartChecked ==
  ASSUME Chart!AccountsAssumption, ChartIInv, NEW r \in wire, r.kind # "create", r.phase = "sent",
             NEW ok \in BOOLEAN, Chart!GoOn(r, ok),
         ok => ChartTested([r EXCEPT !.phase = "read", !.seen = db], Chart!Rows)
  PROVE  ChartIInv'
<1>1. r \in Chart!Requests /\ ChartSound(r, Chart!Rows) /\ db \in Chart!Dbs
  BY DEF ChartIInv, ChartWireInv
<1>2. UNCHANGED <<db, shown, due, dialog, form, hist>>
  BY DEF Chart!GoOn
<1>3. CASE ok
  <2> DEFINE q == [r EXCEPT !.phase = "read", !.seen = db]
  <2>1. /\ q \in Chart!Requests /\ q.phase = "read" /\ q.kind = r.kind /\ q.id = r.id /\ q.to = r.to
               /\ q.row = r.row
        /\ q.old = r.old
    BY <1>1 DEF Chart!Requests
  <2>2. wire' = (wire \ {r}) \cup {q} /\ ChartTested(q, Chart!Rows)
    BY <1>3 DEF Chart!GoOn, Chart!Replace
  <2> HIDE DEF q
  <2>3. ChartSound(q, Chart!Rows)
    BY <1>1, <2>1, <2>2 DEF ChartSound
  <2> QED
    BY <1>2, <2>1, <2>2, <2>3, ChartHeld
<1>4. CASE ~ok
  <2>1. Chart!Answer(r, "error")
    BY <1>4 DEF Chart!GoOn
  <2>2. PICK q \in Chart!Requests : wire' \subseteq (wire \ {r}) \cup {q} /\ ChartSound(q, Chart!Rows)
    BY <1>1, <2>1, ChartAnswered
  <2> QED
    BY <1>2, <2>2, ChartHeld
<1> QED
  BY <1>3, <1>4

LEMMA ChartChecks ==
  ASSUME Chart!AccountsAssumption, ChartIInv, NEW r \in wire, Chart!CheckMove(r) \/ Chart!CheckUpdate(r)
             \/ Chart!CheckDelete(r)
  PROVE  ChartIInv'
<1>1. r \in Chart!Requests /\ ChartSound(r, Chart!Rows) /\ db \in Chart!Dbs /\ ChartNamed(Chart!Rows)
  BY DEF ChartIInv, ChartWireInv
<1> DEFINE q == [r EXCEPT !.phase = "read", !.seen = db]
<1>2. q.kind = r.kind /\ q.id = r.id /\ q.to = r.to /\ q.row = r.row /\ q.seen = db /\ q.seen.rows = Chart!Rows
  BY <1>1 DEF Chart!Requests, Chart!Rows
<1>3. r.kind # "create" => ChartNames(Chart!Rows, Chart!Rows[r.id].parent)
  BY <1>1 DEF ChartSound, ChartNames, ChartMade, ChartNamed
<1>4. CASE Chart!CheckMove(r)
  <2> DEFINE ok == /\ Chart!Rows[r.id].state = "active"
                   /\ r.to # None => Chart!Rows[r.to].state = "active" /\ ~Chart!Above(Chart!Rows, r.to, r.id)
  <2>1. r.kind = "move" /\ r.phase = "sent" /\ Chart!GoOn(r, ok)
    BY <1>4 DEF Chart!CheckMove
  <2>2. ok => ChartTested(q, Chart!Rows)
    BY <1>2, <1>3, <2>1 DEF ChartTested
  <2>3. ok \in BOOLEAN
    OBVIOUS
  <2> HIDE DEF ok
  <2> QED
    BY <2>1, <2>2, <2>3, ChartChecked
<1>5. CASE Chart!CheckUpdate(r)
  <2> DEFINE ok == /\ Chart!Rows[r.id].state = "active"
                   /\ r.row.parent # None => ~Chart!Above(Chart!Rows, r.row.parent, r.id)
  <2>1. r.kind = "update" /\ r.phase = "sent" /\ Chart!GoOn(r, ok)
    BY <1>5 DEF Chart!CheckUpdate
  <2>2. ok => ChartTested(q, Chart!Rows)
    BY <1>2, <1>3, <2>1 DEF ChartTested
  <2>3. ok \in BOOLEAN
    OBVIOUS
  <2> HIDE DEF ok
  <2> QED
    BY <2>1, <2>2, <2>3, ChartChecked
<1>6. CASE Chart!CheckDelete(r)
  <2> DEFINE ok == Chart!Rows[r.id].state = "active" /\ Chart!Children(Chart!Rows, r.id) = {}
          /\ r.id \notin db.lines
  <2>1. r.kind = "delete" /\ r.phase = "sent" /\ Chart!GoOn(r, ok)
    BY <1>6 DEF Chart!CheckDelete
  <2>2. ok => ChartTested(q, Chart!Rows)
    BY <1>2, <1>3, <2>1 DEF ChartTested
  <2>3. ok \in BOOLEAN
    OBVIOUS
  <2> HIDE DEF ok
  <2> QED
    BY <2>1, <2>2, <2>3, ChartChecked
<1> QED
  BY <1>4, <1>5, <1>6

LEMMA ChartLooksBack ==
  ASSUME Chart!AccountsAssumption, ChartIInv, NEW r \in wire, Chart!LookBack(r)
  PROVE  ChartIInv'
<1>1. r \in Chart!Requests /\ ChartSound(r, Chart!Rows) /\ db \in Chart!Dbs /\ r.phase = "saved"
          /\ r.kind # "create"
  BY DEF ChartIInv, ChartWireInv, Chart!LookBack, ChartSound
<1>2. UNCHANGED <<db, shown, due, dialog, form, hist>>
  BY DEF Chart!LookBack
<1>3. CASE r.old # None /\ Chart!Children(Chart!Rows, r.old) = {}
  <2> DEFINE q == [r EXCEPT !.phase = "bare", !.seen = db]
  <2>1. /\ q \in Chart!Requests /\ q.phase = "bare" /\ q.kind = r.kind /\ q.id = r.id /\ q.to = r.to
               /\ q.row = r.row
        /\ q.old = r.old /\ q.seen.rows = Chart!Rows
    BY <1>1 DEF Chart!Requests, Chart!Rows
  <2>2. wire' = (wire \ {r}) \cup {q}
    BY <1>3 DEF Chart!LookBack, Chart!Replace
  <2> HIDE DEF q
  <2>3. ChartSound(q, Chart!Rows)
    BY <1>1, <1>3, <2>1 DEF ChartSound
  <2> QED
    BY <1>2, <2>1, <2>2, <2>3, ChartHeld
<1>4. CASE ~(r.old # None /\ Chart!Children(Chart!Rows, r.old) = {})
  <2>1. Chart!Answer(r, "ok")
    BY <1>4 DEF Chart!LookBack
  <2>2. PICK q \in Chart!Requests : wire' \subseteq (wire \ {r}) \cup {q} /\ ChartSound(q, Chart!Rows)
    BY <1>1, <2>1, ChartAnswered
  <2> QED
    BY <1>2, <2>2, ChartHeld
<1> QED
  BY <1>3, <1>4

-----------------------------------------------------------------------------
LEMMA ChartSavedNames ==
  ASSUME Chart!AccountsAssumption, db \in Chart!Dbs, ChartNamed(Chart!Rows), NEW a \in Accounts,
             NEW row \in Chart!Row, row.state # "none",
         ChartNames(Chart!Rows, row.parent), NEW d, d = [db EXCEPT !.rows = Chart!Saved(Chart!Rows, a, row)]
  PROVE  d \in Chart!Dbs /\ d.rows = Chart!Saved(Chart!Rows, a, row) /\ ChartNamed(d.rows)
             /\ ChartKeeps(Chart!Rows, d.rows) /\ ChartMade(d.rows, a)
<1>1. Chart!Rows \in [Accounts -> Chart!Row]
  BY DEF Chart!Dbs, Chart!Rows
<1> DEFINE new == Chart!Saved(Chart!Rows, a, row)
<1>2. /\ new \in [Accounts -> Chart!Row] /\ new[a] = row
      /\ \A x \in Accounts \ {a} : new[x].parent = Chart!Rows[x].parent /\ new[x].state = Chart!Rows[x].state
  BY <1>1, ChartSavedRow
<1>3. d \in Chart!Dbs /\ d.rows = new
  BY <1>2 DEF Chart!Dbs
<1> HIDE DEF new
<1>4. ChartKeeps(Chart!Rows, new)
  BY <1>2 DEF ChartKeeps
<1>5. ChartNamed(new)
  BY <1>2, <1>4, ChartNamesKept DEF ChartNamed
<1> QED
  BY <1>2, <1>3, <1>4, <1>5 DEF ChartMade, new

\* A new account has nothing above it but the parent it is put under, and
\* nothing below it.
LEMMA ChartUnmade ==
  ASSUME Chart!AccountsAssumption, NEW rows \in [Accounts -> Chart!Row], ChartNamed(rows), NEW a \in Accounts,
             rows[a].state = "none"
  PROVE  Chart!Children(rows, a) = {} /\ \A p \in Accounts : ChartMade(rows, p) => ~Chart!Above(rows, p, a)
<1>1. Chart!Children(rows, a) = {}
  BY DEF Chart!Children, Chart!ActiveIn, ChartNamed, ChartNames, ChartMade, Chart!AccountsAssumption
<1>2. ASSUME NEW p \in Accounts, ChartMade(rows, p) PROVE ~Chart!Above(rows, p, a)
  <2> DEFINE S == {x \in Accounts : ChartMade(rows, x)}
  <2>1. p \in S /\ a \notin S /\ S \in SUBSET Accounts
    BY <1>2 DEF ChartMade
  <2>2. \A x \in S : rows[x].parent \in S \cup {None}
    BY DEF ChartNamed, ChartNames, ChartMade
  <2> HIDE DEF S
  <2> QED
    BY <2>1, <2>2 DEF Chart!Above
<1> QED
  BY <1>1, <1>2

LEMMA ChartCreates ==
  ASSUME Chart!AccountsAssumption, ChartIInv, NEW r \in wire, Chart!ServeCreate(r)
  PROVE  ChartIInv'
<1>1. /\ r \in Chart!Requests /\ ChartSound(r, Chart!Rows) /\ db \in Chart!Dbs /\ ChartNamed(Chart!Rows)
             /\ hist \in ChartHists
      /\ hist.crossed \/ ChartTidy(db, hist.switched)
      /\ r.kind = "create" /\ r.phase = "sent" /\ r.row \in Chart!Row /\ Chart!Rows \in [Accounts -> Chart!Row]
             /\ db.rows = Chart!Rows
  BY DEF ChartIInv, ChartWireInv, ChartPageShape, Chart!ServeCreate, Chart!Requests, Chart!Dbs, Chart!Rows
<1>2. PICK a \in Accounts :
        /\ Chart!Rows[a].state = "none"
        /\ db' = [db EXCEPT !.rows = Chart!Saved(Chart!Rows, a, r.row)]
        /\ IF r.who = "desk" THEN Chart!Replace(r, [r EXCEPT !.phase = "ok", !.made = a]) ELSE Chart!Answer(r, "ok")
        /\ hist' = [hist EXCEPT !.switched = @ \cup Chart!Removed(r.row.parent)]
  BY DEF Chart!ServeCreate
<1>3. PICK d : d = [db EXCEPT !.rows = Chart!Saved(Chart!Rows, a, r.row)]
  OBVIOUS
<1>4. PICK h : h = [hist EXCEPT !.switched = hist.switched \cup Chart!Removed(r.row.parent)]
  OBVIOUS
<1>5. r.row.state = "active" /\ ChartNames(Chart!Rows, r.row.parent)
  BY <1>1 DEF ChartSound
<1>6. d \in Chart!Dbs /\ ChartNamed(d.rows) /\ ChartKeeps(Chart!Rows, d.rows) /\ ChartMade(d.rows, a)
  BY <1>1, <1>3, <1>5, ChartSavedNames
<1>7. h \in ChartHists /\ h.crossed = hist.crossed /\ h.switched = hist.switched \cup Chart!Removed(r.row.parent)
  BY <1>1, <1>4, <1>5 DEF ChartHists, Chart!Removed, ChartNames, ChartMade
<1>8. h.crossed \/ ChartTidy(d, h.switched)
  <2>1. ChartFits(db, a, r.row, h.switched)
    <3>1. r.row.parent # None => ~Chart!Above(Chart!Rows, r.row.parent, a)
      BY <1>1, <1>2, <1>5, ChartUnmade DEF ChartNames, ChartMade
    <3>2. Chart!Children(Chart!Rows, a) = {}
      BY <1>1, <1>2, ChartUnmade
    <3>3. r.row.parent # None => Chart!Rows[r.row.parent].state = "active" \/ r.row.parent \in h.switched
      <4>1. r.row.parent # None => Chart!Rows[r.row.parent].state \in {"active", "retired"}
        BY <1>1, <1>5 DEF ChartNames, ChartMade, Chart!Row
      <4> QED
        BY <1>7, <4>1 DEF Chart!Removed
    <3> QED
      BY <1>1, <1>5, <3>1, <3>2, <3>3 DEF ChartFits
  <2>2. hist.switched \in SUBSET Accounts /\ h.switched \in SUBSET Accounts /\ hist.switched \subseteq h.switched
    BY <1>1, <1>7 DEF ChartHists
  <2>3. ChartTidy(db, hist.switched) => ChartTidy(d, h.switched)
    BY <1>1, <1>3, <2>1, <2>2, ChartSavedTidy
  <2> QED
    BY <1>1, <1>7, <2>3
<1>9. PICK q \in Chart!Requests : wire' \subseteq (wire \ {r}) \cup {q} /\ (q \in wire' => ChartSound(q, d.rows))
  <2>1. ChartSound(r, d.rows)
    BY <1>1, <1>6, ChartSoundKept
  <2>2. CASE r.who = "desk"
    <3> DEFINE q == [r EXCEPT !.phase = "ok", !.made = a]
    <3>1. /\ q \in Chart!Requests /\ q.phase = "ok" /\ q.made = a /\ q.kind = r.kind /\ q.id = r.id /\ q.to = r.to
          /\ q.row = r.row /\ q.old = r.old
      BY <1>1 DEF Chart!Requests
    <3>2. wire' = (wire \ {r}) \cup {q}
      BY <1>2, <2>2 DEF Chart!Replace
    <3> HIDE DEF q
    <3>3. ChartSound(q, d.rows)
      BY <1>1, <1>6, <2>1, <3>1 DEF ChartSound
    <3> QED
      BY <3>1, <3>2, <3>3
  <2>3. CASE r.who # "desk"
    BY <1>1, <1>2, <2>1, <2>3 DEF Chart!Answer
  <2> QED
    BY <2>2, <2>3
<1> QED
  BY <1>2, <1>3, <1>4, <1>6, <1>7, <1>8, <1>9, ChartWrote DEF Chart!ServeCreate

\* What a handler that has read knows when nobody wrote since.
LEMMA ChartUncrossed ==
  ASSUME ChartIInv, NEW r \in wire, NEW h, h.crossed = (hist.crossed \/ r.seen # db), ~h.crossed
  PROVE  r.seen = db /\ r.seen.rows = Chart!Rows /\ ChartTidy(db, hist.switched)
  BY DEF ChartIInv, Chart!Rows

LEMMA ChartCrossedType ==
  ASSUME hist \in ChartHists, NEW r
  PROVE  /\ Chart!Crossed(r) \in ChartHists /\ Chart!Crossed(r).switched = hist.switched
         /\ Chart!Crossed(r).crossed = (hist.crossed \/ r.seen # db)
  BY DEF Chart!Crossed, ChartHists

LEMMA ChartSavesMove ==
  ASSUME Chart!AccountsAssumption, ChartIInv, NEW r \in wire, Chart!SaveMove(r)
  PROVE  ChartIInv'
<1>1. /\ r \in Chart!Requests /\ ChartSound(r, Chart!Rows) /\ db \in Chart!Dbs /\ ChartNamed(Chart!Rows)
             /\ hist \in ChartHists
      /\ r.kind = "move" /\ r.phase = "read" /\ Chart!Rows \in [Accounts -> Chart!Row] /\ db.rows = Chart!Rows
      /\ r.seen.rows \in [Accounts -> Chart!Row] /\ r.to \in Accounts \cup {None}
  BY DEF ChartIInv, ChartWireInv, ChartPageShape, Chart!SaveMove, Chart!Requests, Chart!Dbs, Chart!Rows
<1>2. ChartTested(r, Chart!Rows) /\ ChartNames(Chart!Rows, r.to) /\ r.id \in Accounts
  BY <1>1 DEF ChartSound, ChartNames, ChartMade
<1>3. PICK row : row = [r.seen.rows[r.id] EXCEPT !.parent = r.to]
  OBVIOUS
<1>4. row \in Chart!Row /\ row.parent = r.to /\ row.state = "active" /\ row.group = r.seen.rows[r.id].group
  <2>1. r.seen.rows[r.id] \in Chart!Row /\ r.seen.rows[r.id].state = "active"
    BY <1>1, <1>2 DEF ChartTested
  <2> QED
    BY <1>1, <1>3, <2>1 DEF Chart!Row
<1>5. PICK d : d = [db EXCEPT !.rows = Chart!Saved(Chart!Rows, r.id, row)]
  OBVIOUS
<1>6. PICK h : h = Chart!Crossed(r)
  OBVIOUS
<1>7. h \in ChartHists /\ h.switched = hist.switched /\ h.crossed = (hist.crossed \/ r.seen # db)
  BY <1>1, <1>6, ChartCrossedType
<1>8. d \in Chart!Dbs /\ ChartNamed(d.rows) /\ ChartKeeps(Chart!Rows, d.rows)
  BY <1>1, <1>2, <1>4, <1>5, ChartSavedNames
<1>9. h.crossed \/ ChartTidy(d, h.switched)
  <2> SUFFICES ASSUME ~h.crossed PROVE ChartTidy(d, h.switched)
    OBVIOUS
  <2>1. r.seen = db /\ r.seen.rows = Chart!Rows /\ ChartTidy(db, hist.switched)
    BY <1>1, <1>7, ChartUncrossed
  <2>2. ChartFits(db, r.id, row, hist.switched)
    BY <1>1, <1>2, <1>4, <2>1 DEF ChartFits, ChartTested
  <2> QED
    BY <1>1, <1>2, <1>4, <1>5, <1>7, <2>1, <2>2, ChartSavedTidy DEF ChartHists
<1> DEFINE q == [r EXCEPT !.phase = "saved", !.old = r.seen.rows[r.id].parent]
<1>10. ChartNames(Chart!Rows, r.seen.rows[r.id].parent) /\ r.seen.rows[r.id].parent \in Accounts \cup {None}
  BY <1>2 DEF ChartTested, ChartNames, ChartMade
<1>11. /\ q \in Chart!Requests /\ q.phase = "saved" /\ q.kind = r.kind /\ q.id = r.id /\ q.to = r.to
              /\ q.row = r.row
       /\ q.old = r.seen.rows[r.id].parent
  BY <1>1, <1>10 DEF Chart!Requests
<1>12. wire' = (wire \ {r}) \cup {q}
  BY DEF Chart!SaveMove, Chart!Replace
<1> HIDE DEF q
<1>13. ChartSound(q, Chart!Rows)
  BY <1>1, <1>10, <1>11 DEF ChartSound
<1>14. ChartSound(q, d.rows)
  BY <1>8, <1>13, ChartSoundKept
<1>15. db' = d /\ hist' = h /\ UNCHANGED <<shown, due, dialog, form>>
  BY <1>3, <1>5, <1>6 DEF Chart!SaveMove
<1> QED
  BY <1>7, <1>8, <1>9, <1>11, <1>12, <1>14, <1>15, ChartWrote

LEMMA ChartSavesUpdate ==
  ASSUME Chart!AccountsAssumption, ChartIInv, NEW r \in wire, Chart!SaveUpdate(r)
  PROVE  ChartIInv'
<1>1. /\ r \in Chart!Requests /\ ChartSound(r, Chart!Rows) /\ db \in Chart!Dbs /\ ChartNamed(Chart!Rows)
             /\ hist \in ChartHists
      /\ r.kind = "update" /\ r.phase = "read" /\ Chart!Rows \in [Accounts -> Chart!Row] /\ db.rows = Chart!Rows
             /\ r.row \in Chart!Row
  BY DEF ChartIInv, ChartWireInv, ChartPageShape, Chart!SaveUpdate, Chart!Requests, Chart!Dbs, Chart!Rows
<1>2. ChartTested(r, Chart!Rows) /\ ChartNames(Chart!Rows, r.row.parent) /\ r.id \in Accounts
          /\ r.row.state # "none"
  BY <1>1 DEF ChartSound, ChartNames, ChartMade
<1> DEFINE state == IF r.id \in System THEN "active" ELSE r.row.state
<1>3. PICK row : row = [r.row EXCEPT !.state = state]
  OBVIOUS
<1>4. row \in Chart!Row /\ row.parent = r.row.parent /\ row.state \in {"active", "retired"}
          /\ row.group = r.row.group
  <2>1. state \in {"active", "retired"}
    BY <1>1, <1>2 DEF Chart!Row
  <2> HIDE DEF state
  <2> QED
    BY <1>1, <1>3, <2>1 DEF Chart!Row
<1>5. PICK off : off = IF row.state = "retired" \/ ~row.group THEN {r.id} ELSE {}
  OBVIOUS
<1>6. PICK d : d = [db EXCEPT !.rows = Chart!Saved(Chart!Rows, r.id, row)]
  OBVIOUS
<1>7. PICK h : h = [Chart!Crossed(r) EXCEPT !.switched = Chart!Crossed(r).switched \cup off
          \cup Chart!Removed(row.parent)]
  OBVIOUS
<1>8. /\ h \in ChartHists /\ h.switched = hist.switched \cup off \cup Chart!Removed(row.parent)
      /\ h.crossed = (hist.crossed \/ r.seen # db)
  <2>1. off \in SUBSET Accounts /\ Chart!Removed(row.parent) \in SUBSET Accounts
    BY <1>2, <1>4, <1>5 DEF Chart!Removed, ChartNames, ChartMade
  <2>2. PICK c : c = Chart!Crossed(r)
    OBVIOUS
  <2>3. c \in ChartHists /\ c.switched = hist.switched /\ c.crossed = (hist.crossed \/ r.seen # db)
    BY <1>1, <2>2, ChartCrossedType
  <2>4. h = [c EXCEPT !.switched = c.switched \cup off \cup Chart!Removed(row.parent)]
    BY <1>7, <2>2
  <2> QED
    BY <2>1, <2>3, <2>4 DEF ChartHists
<1>9. db' = d /\ hist' = h /\ Chart!Answer(r, "ok") /\ UNCHANGED <<shown, due, dialog, form>>
  BY <1>3, <1>5, <1>6, <1>7 DEF Chart!SaveUpdate
<1>10. d \in Chart!Dbs /\ ChartNamed(d.rows) /\ ChartKeeps(Chart!Rows, d.rows)
  BY <1>1, <1>2, <1>4, <1>6, ChartSavedNames
<1>11. h.crossed \/ ChartTidy(d, h.switched)
  <2> SUFFICES ASSUME ~h.crossed PROVE ChartTidy(d, h.switched)
    OBVIOUS
  <2>1. r.seen = db /\ r.seen.rows = Chart!Rows /\ ChartTidy(db, hist.switched)
    BY <1>1, <1>8, ChartUncrossed
  <2>2. row.state = "active" \/ r.id \in h.switched
    BY <1>4, <1>5, <1>8
  <2>3. row.group \/ r.id \in h.switched
    BY <1>5, <1>8
  <2>4. row.parent # None => Chart!Rows[row.parent].state = "active" \/ row.parent \in h.switched
    <3>1. row.parent # None => Chart!Rows[row.parent].state \in {"active", "retired"}
      BY <1>1, <1>2, <1>4 DEF ChartNames, ChartMade, Chart!Row
    <3> QED
      BY <1>8, <3>1 DEF Chart!Removed
  <2>5. ChartFits(db, r.id, row, h.switched)
    BY <1>1, <1>2, <1>4, <2>1, <2>2, <2>3, <2>4 DEF ChartFits, ChartTested
  <2>6. hist.switched \in SUBSET Accounts /\ h.switched \in SUBSET Accounts /\ hist.switched \subseteq h.switched
    BY <1>1, <1>8 DEF ChartHists
  <2> QED
    BY <1>1, <1>2, <1>4, <1>6, <2>1, <2>5, <2>6, ChartSavedTidy
<1>12. PICK q \in Chart!Requests : wire' \subseteq (wire \ {r}) \cup {q} /\ ChartSound(q, Chart!Rows)
  BY <1>1, <1>9, ChartAnswered
<1>13. ChartSound(q, d.rows)
  BY <1>10, <1>12, ChartSoundKept
<1> QED
  BY <1>8, <1>9, <1>10, <1>11, <1>12, <1>13, ChartWrote

\* An account that had nothing below it and no bookings is retired.
LEMMA ChartSavesDelete ==
  ASSUME Chart!AccountsAssumption, ChartIInv, NEW r \in wire, Chart!SaveDelete(r)
  PROVE  ChartIInv'
<1>1. /\ r \in Chart!Requests /\ ChartSound(r, Chart!Rows) /\ db \in Chart!Dbs /\ ChartNamed(Chart!Rows)
             /\ hist \in ChartHists
      /\ r.kind = "delete" /\ r.phase = "read" /\ Chart!Rows \in [Accounts -> Chart!Row] /\ db.rows = Chart!Rows
      /\ db.lines \in SUBSET Accounts
  BY DEF ChartIInv, ChartWireInv, ChartPageShape, Chart!SaveDelete, Chart!Requests, Chart!Dbs, Chart!Rows
<1>2. ChartTested(r, Chart!Rows) /\ r.id \in Accounts
  BY <1>1 DEF ChartSound, ChartNames, ChartMade
<1>3. PICK d : d = [db EXCEPT !.rows[r.id].state = "retired"]
  OBVIOUS
<1>4. PICK h : h = Chart!Crossed(r)
  OBVIOUS
<1>5. h \in ChartHists /\ h.switched = hist.switched /\ h.crossed = (hist.crossed \/ r.seen # db)
  BY <1>1, <1>4, ChartCrossedType
<1>6. /\ d \in Chart!Dbs /\ d.lines = db.lines
      /\ d.rows = [Chart!Rows EXCEPT ![r.id] = [Chart!Rows[r.id] EXCEPT !.state = "retired"]]
  <2>1. [Chart!Rows[r.id] EXCEPT !.state = "retired"] \in Chart!Row
    BY <1>1, <1>2 DEF Chart!Row
  <2>2. d = [db EXCEPT !.rows = [Chart!Rows EXCEPT ![r.id] = [Chart!Rows[r.id] EXCEPT !.state = "retired"]]]
    BY <1>1, <1>3
  <2> QED
    BY <1>1, <2>1, <2>2 DEF Chart!Dbs
<1>7. /\ \A x \in Accounts : d.rows[x].parent = Chart!Rows[x].parent /\ d.rows[x].group = Chart!Rows[x].group
      /\ \A x \in Accounts \ {r.id} : d.rows[x].state = Chart!Rows[x].state
      /\ d.rows[r.id].state = "retired"
  BY <1>1, <1>2, <1>6 DEF Chart!Row
<1>8. ChartKeeps(Chart!Rows, d.rows)
  BY <1>7 DEF ChartKeeps
<1>9. ChartNamed(d.rows)
  BY <1>1, <1>7, <1>8, ChartNamesKept DEF ChartNamed
<1>10. h.crossed \/ ChartTidy(d, h.switched)
  <2> SUFFICES ASSUME ~h.crossed PROVE ChartTidy(d, h.switched)
    OBVIOUS
  <2>1. r.seen = db /\ r.seen.rows = Chart!Rows /\ ChartTidy(db, hist.switched)
    BY <1>1, <1>5, ChartUncrossed
  <2>2. Chart!Children(Chart!Rows, r.id) = {} /\ r.id \notin db.lines
    BY <1>1, <1>2, <2>1 DEF ChartTested
  <2>3. Chart!ActiveIn(d.rows) = Chart!ActiveIn(Chart!Rows) \ {r.id}
    BY <1>2, <1>7 DEF Chart!ActiveIn
  <2>4. ChartRooted(d.rows)
    BY <1>1, <1>7, <2>1 DEF ChartTidy, ChartRooted
  <2>5. ChartHung(d.rows, hist.switched)
    <3> SUFFICES ASSUME NEW x \in Chart!ActiveIn(d.rows), d.rows[x].parent # None,
            d.rows[x].parent \notin hist.switched
                 PROVE  d.rows[d.rows[x].parent].state = "active"
      BY DEF ChartHung
    <3>1. x \in Chart!ActiveIn(Chart!Rows) /\ x \in Accounts /\ d.rows[x].parent = Chart!Rows[x].parent
      BY <1>7, <2>3 DEF Chart!ActiveIn
    <3>2. Chart!Rows[x].parent # r.id
      BY <2>2, <3>1 DEF Chart!Children
    <3>3. Chart!Rows[Chart!Rows[x].parent].state = "active" /\ Chart!Rows[x].parent \in Accounts
      BY <1>1, <2>1, <3>1 DEF ChartTidy, ChartHung, Chart!Row
    <3> QED
      BY <1>7, <3>1, <3>2, <3>3
  <2>6. ChartGrouped(d.rows, hist.switched)
    <3> SUFFICES ASSUME NEW x \in Chart!ActiveIn(d.rows), NEW y \in Chart!Children(d.rows, x)
                 PROVE  d.rows[x].group \/ x \in hist.switched
      BY DEF ChartGrouped
    <3>1. x \in Chart!ActiveIn(Chart!Rows) /\ x \in Accounts /\ y \in Chart!Children(Chart!Rows, x)
      BY <1>7, <2>3 DEF Chart!ActiveIn, Chart!Children
    <3> QED
      BY <1>1, <1>7, <2>1, <3>1 DEF ChartTidy, ChartGrouped
  <2>7. ChartUnused(d.rows, d.lines, hist.switched)
    BY <1>1, <1>6, <1>7, <2>1, <2>2 DEF ChartTidy, ChartUnused
  <2> QED
    BY <1>5, <2>4, <2>5, <2>6, <2>7 DEF ChartTidy
<1> DEFINE q == [r EXCEPT !.phase = "saved", !.old = r.seen.rows[r.id].parent]
<1>11. ChartNames(Chart!Rows, r.seen.rows[r.id].parent) /\ r.seen.rows[r.id].parent \in Accounts \cup {None}
  BY <1>2 DEF ChartTested, ChartNames, ChartMade
<1>12. /\ q \in Chart!Requests /\ q.phase = "saved" /\ q.kind = r.kind /\ q.id = r.id /\ q.to = r.to
              /\ q.row = r.row
       /\ q.old = r.seen.rows[r.id].parent
  BY <1>1, <1>11 DEF Chart!Requests
<1>13. wire' = (wire \ {r}) \cup {q}
  BY DEF Chart!SaveDelete, Chart!Replace
<1> HIDE DEF q
<1>14. ChartSound(q, d.rows)
  <2>1. ChartSound(q, Chart!Rows)
    BY <1>1, <1>11, <1>12 DEF ChartSound
  <2> QED
    BY <1>8, <2>1, ChartSoundKept
<1>15. db' = d /\ hist' = h /\ UNCHANGED <<shown, due, dialog, form>>
  BY <1>3, <1>4 DEF Chart!SaveDelete
<1> QED
  BY <1>5, <1>6, <1>8, <1>9, <1>10, <1>12, <1>13, <1>14, <1>15, ChartWrote

LEMMA ChartGroupSet ==
  ASSUME NEW row \in Chart!Row, NEW group \in BOOLEAN
  PROVE  /\ [row EXCEPT !.group = group] \in Chart!Row
         /\ [row EXCEPT !.group = group].parent = row.parent
         /\ [row EXCEPT !.group = group].state = row.state
  BY DEF Chart!Row

LEMMA ChartUngroups ==
  ASSUME Chart!AccountsAssumption, ChartIInv, NEW r \in wire, Chart!Ungroup(r)
  PROVE  ChartIInv'
<1>1. /\ r \in Chart!Requests /\ ChartSound(r, Chart!Rows) /\ db \in Chart!Dbs /\ ChartNamed(Chart!Rows)
             /\ hist \in ChartHists
      /\ r.phase = "bare" /\ Chart!Rows \in [Accounts -> Chart!Row] /\ db.rows = Chart!Rows
  BY DEF ChartIInv, ChartWireInv, ChartPageShape, Chart!Ungroup, Chart!Requests, Chart!Dbs, Chart!Rows
<1>2. r.old \in Accounts /\ Chart!Children(r.seen.rows, r.old) = {} /\ r.kind # "create"
  BY <1>1 DEF ChartSound, ChartNames, ChartMade
<1>3. PICK d : d = [db EXCEPT !.rows[r.old].group = FALSE]
  OBVIOUS
<1>4. PICK h : h = Chart!Crossed(r)
  OBVIOUS
<1>5. h \in ChartHists /\ h.switched = hist.switched /\ h.crossed = (hist.crossed \/ r.seen # db)
  BY <1>1, <1>4, ChartCrossedType
<1>6. /\ d \in Chart!Dbs /\ d.lines = db.lines
      /\ d.rows = [Chart!Rows EXCEPT ![r.old] = [Chart!Rows[r.old] EXCEPT !.group = FALSE]]
  <2>1. [Chart!Rows[r.old] EXCEPT !.group = FALSE] \in Chart!Row
    BY <1>1, <1>2, ChartGroupSet
  <2>2. d = [db EXCEPT !.rows = [Chart!Rows EXCEPT ![r.old] = [Chart!Rows[r.old] EXCEPT !.group = FALSE]]]
    BY <1>1, <1>3
  <2> QED
    BY <1>1, <2>1, <2>2 DEF Chart!Dbs
<1>7. /\ \A x \in Accounts : d.rows[x].parent = Chart!Rows[x].parent /\ d.rows[x].state = Chart!Rows[x].state
      /\ \A x \in Accounts \ {r.old} : d.rows[x].group = Chart!Rows[x].group
  <2>1. /\ d.rows[r.old].parent = Chart!Rows[r.old].parent /\ d.rows[r.old].state = Chart!Rows[r.old].state
    BY <1>1, <1>2, <1>6, ChartGroupSet
  <2>2. \A x \in Accounts \ {r.old} : d.rows[x] = Chart!Rows[x]
    BY <1>1, <1>6, Zenon
  <2> QED
    BY <2>1, <2>2
<1>8. ChartKeeps(Chart!Rows, d.rows)
  BY <1>7 DEF ChartKeeps
<1>9. ChartNamed(d.rows)
  BY <1>1, <1>7, <1>8, ChartNamesKept DEF ChartNamed
<1>10. h.crossed \/ ChartTidy(d, h.switched)
  <2> SUFFICES ASSUME ~h.crossed PROVE ChartTidy(d, h.switched)
    OBVIOUS
  <2>1. r.seen.rows = Chart!Rows /\ ChartTidy(db, hist.switched)
    BY <1>1, <1>5, ChartUncrossed
  <2>2. Chart!ActiveIn(d.rows) = Chart!ActiveIn(Chart!Rows)
            /\ \A x : Chart!Children(d.rows, x) = Chart!Children(Chart!Rows, x)
    BY <1>7 DEF Chart!ActiveIn, Chart!Children
  <2>3. ChartRooted(d.rows)
    BY <1>1, <1>7, <2>1 DEF ChartTidy, ChartRooted
  <2>4. ChartHung(d.rows, hist.switched)
    <3> SUFFICES ASSUME NEW x \in Chart!ActiveIn(d.rows), d.rows[x].parent # None,
            d.rows[x].parent \notin hist.switched
                 PROVE  d.rows[d.rows[x].parent].state = "active"
      BY DEF ChartHung
    <3>1. x \in Chart!ActiveIn(Chart!Rows) /\ x \in Accounts /\ d.rows[x].parent = Chart!Rows[x].parent
      BY <1>7, <2>2 DEF Chart!ActiveIn
    <3>2. Chart!Rows[Chart!Rows[x].parent].state = "active" /\ Chart!Rows[x].parent \in Accounts
      BY <1>1, <2>1, <3>1 DEF ChartTidy, ChartHung, Chart!Row
    <3> QED
      BY <1>7, <3>1, <3>2
  <2>5. ChartGrouped(d.rows, hist.switched)
    <3> SUFFICES ASSUME NEW x \in Chart!ActiveIn(Chart!Rows), Chart!Children(Chart!Rows, x) # {}
                 PROVE  d.rows[x].group \/ x \in hist.switched
      BY <2>2 DEF ChartGrouped
    <3>1. x # r.old
      BY <1>2, <2>1
    <3> QED
      BY <1>1, <1>7, <2>1, <3>1 DEF ChartTidy, ChartGrouped, Chart!ActiveIn
  <2>6. ChartUnused(d.rows, d.lines, hist.switched)
    BY <1>1, <1>6, <1>7, <2>1 DEF ChartTidy, ChartUnused, Chart!Dbs
  <2> QED
    BY <1>5, <2>3, <2>4, <2>5, <2>6 DEF ChartTidy
<1>11. db' = d /\ hist' = h /\ Chart!Answer(r, "ok") /\ UNCHANGED <<shown, due, dialog, form>>
  BY <1>3, <1>4 DEF Chart!Ungroup
<1>12. PICK q \in Chart!Requests : wire' \subseteq (wire \ {r}) \cup {q} /\ ChartSound(q, Chart!Rows)
  BY <1>1, <1>2, <1>11, ChartAnswered
<1>13. ChartSound(q, d.rows)
  BY <1>8, <1>12, ChartSoundKept
<1> QED
  BY <1>5, <1>6, <1>8, <1>9, <1>10, <1>11, <1>12, <1>13, ChartWrote

\* Journals book on an account in use.
LEMMA ChartBooks ==
  ASSUME Chart!AccountsAssumption, ChartIInv, NEW a \in Accounts, Chart!Book(a)
  PROVE  ChartIInv'
<1>1. PICK d : d = [db EXCEPT !.lines = db.lines \cup {a}]
  OBVIOUS
<1>2. db' = d /\ UNCHANGED <<shown, due, dialog, form, wire, hist>>
  BY <1>1 DEF Chart!Book
<1>3. d \in Chart!Dbs /\ d.rows = Chart!Rows /\ d.lines = db.lines \cup {a} /\ db.rows = Chart!Rows
  BY <1>1 DEF ChartIInv, Chart!Dbs, Chart!Rows
<1>4. Chart!Rows' = Chart!Rows /\ Chart!Tree' = Chart!Tree
  BY <1>2, <1>3 DEF Chart!Rows, Chart!Tree
<1>5. hist.crossed \/ ChartTidy(d, hist.switched)
  BY <1>3 DEF ChartIInv, ChartTidy, ChartUnused, Chart!Book
<1>6. ChartPageShape'
  BY <1>2, <1>4 DEF ChartIInv, ChartPageShape, ChartTreeShape, ChartDialogShape, ChartFormShape, ChartMade,
     ChartNames
<1>7. ChartWireInv' /\ ChartNamed(Chart!Rows)'
  BY <1>2, <1>4 DEF ChartIInv, ChartWireInv, ChartSound, ChartTested, ChartNamed, ChartNames, ChartMade
<1>8. (hist.crossed \/ ChartTidy(db, hist.switched))'
  BY <1>2, <1>5 DEF ChartTidy, ChartRooted, ChartHung, ChartGrouped, ChartUnused, Chart!ActiveIn, Chart!Children
<1> QED
  BY <1>2, <1>3, <1>6, <1>7, <1>8 DEF ChartIInv
-----------------------------------------------------------------------------
LEMMA ChartInitIInv == ASSUME Chart!AccountsAssumption PROVE Chart!Init => ChartIInv
<1> SUFFICES ASSUME Chart!Init PROVE ChartIInv
  OBVIOUS
<1>1. PICK g \in System, a \in Accounts \ System :
        db = [rows |-> [x \in Accounts |-> IF x = g THEN [Chart!BlankForm EXCEPT !.group = TRUE]
                                           ELSE IF x = a THEN [Chart!BlankForm EXCEPT !.parent = g]
                                           ELSE Chart!NoAccount],
              lines |-> {}]
  BY DEF Chart!Init
<1>2. g \in Accounts /\ g # a
  BY DEF Chart!AccountsAssumption
<1>3. /\ Chart!Rows[g] = [Chart!BlankForm EXCEPT !.group = TRUE]
             /\ Chart!Rows[a] = [Chart!BlankForm EXCEPT !.parent = g]
      /\ \A x \in Accounts \ {g, a} : Chart!Rows[x] = Chart!NoAccount
      /\ db.lines = {} /\ db.rows = Chart!Rows
  BY <1>1, <1>2 DEF Chart!Rows
<1>4. /\ Chart!Rows[g] \in Chart!Row /\ Chart!Rows[g].parent = None /\ Chart!Rows[g].state = "active"
             /\ Chart!Rows[g].group = TRUE
      /\ Chart!Rows[a] \in Chart!Row /\ Chart!Rows[a].parent = g /\ Chart!Rows[a].state = "active"
             /\ Chart!Rows[a].group = FALSE
      /\ \A x \in Accounts \ {g, a} : Chart!Rows[x] \in Chart!Row /\ Chart!Rows[x].parent = None
             /\ Chart!Rows[x].state = "none"
  BY <1>2, <1>3, ChartBlankType DEF Chart!BlankForm, Chart!NoAccount, Chart!Row
<1>5. db \in Chart!Dbs
  <2>1. db = [rows |-> Chart!Rows, lines |-> {}] /\ Chart!Rows = [x \in Accounts |-> Chart!Rows[x]]
    BY <1>1, <1>3 DEF Chart!Rows
  <2>2. Chart!Rows \in [Accounts -> Chart!Row]
    BY <1>4, <2>1
  <2> QED
    BY <2>1, <2>2 DEF Chart!Dbs
<1>6. ChartNamed(Chart!Rows)
  BY <1>2, <1>4 DEF ChartNamed, ChartNames, ChartMade
<1>7. ChartPageShape
  <2>1. ChartTreeShape(Chart!Rows) /\ ChartDialogShape(Chart!Rows) /\ due \subseteq {"tree"}
    BY DEF Chart!Init, ChartTreeShape, Chart!Tree, ChartDialogShape
  <2>2. ChartFormShape(Chart!Rows)
    BY ChartBlankType DEF Chart!Init, ChartFormShape, ChartForms, Chart!NoForm, ChartNames
  <2>3. hist \in ChartHists
    BY DEF Chart!Init, ChartHists, Chart!AccountsAssumption
  <2> QED
    BY <2>1, <2>2, <2>3 DEF ChartPageShape
<1>8. ChartWireInv
  BY DEF Chart!Init, ChartWireInv
<1>9. ChartTidy(db, hist.switched)
  <2>1. Chart!ActiveIn(Chart!Rows) = {g, a}
    BY <1>2, <1>4 DEF Chart!ActiveIn
  <2>2. ChartRooted(Chart!Rows)
    <3> SUFFICES ASSUME NEW S \in SUBSET Accounts, S # {}, \A x \in S : Chart!Rows[x].parent \in S
                 PROVE  FALSE
      BY DEF ChartRooted
    <3>1. None \notin S
      BY DEF Chart!AccountsAssumption
    <3>2. g \notin S
      BY <1>4, <3>1
    <3>3. a \notin S
      BY <1>4, <3>2
    <3> QED
      BY <1>4, <3>1, <3>2, <3>3
  <2>3. ChartHung(Chart!Rows, hist.switched)
    BY <1>4, <2>1 DEF ChartHung
  <2>4. ChartGrouped(Chart!Rows, hist.switched)
    BY <1>2, <1>4, <2>1 DEF ChartGrouped, Chart!Children, Chart!AccountsAssumption
  <2> QED
    BY <1>3, <2>2, <2>3, <2>4 DEF ChartTidy, ChartUnused
<1> QED
  BY <1>5, <1>6, <1>7, <1>8, <1>9 DEF ChartIInv

LEMMA ChartNextIInv ==
  ASSUME Chart!AccountsAssumption, ChartIInv, [Chart!Next]_deskVars
  PROVE  ChartIInv'
<1>1. CASE Chart!LoadTree \/ Chart!Mount
  BY <1>1, ChartLoads
<1>2. CASE Chart!HandleSave
  BY <1>2, ChartSaves
<1>3. CASE Chart!CloseMoveDialog \/ \E a \in DOMAIN Chart!Tree : Chart!OpenMoveDialog(a)
  BY <1>3, ChartDialogs
<1>4. CASE Chart!GiveUp
  BY <1>4, ChartGivesUp
<1>5. CASE \/ \E a \in DOMAIN Chart!Tree : Chart!HandleSelect(a) \/ Chart!OpenEdit(a)
           \/ \E p \in DOMAIN Chart!Tree \cup {None} : Chart!OpenCreate(p)
  BY <1>5, ChartTurns
<1>6. ASSUME NEW a \in DOMAIN Chart!Tree, Chart!HandleDelete(a) PROVE ChartIInv'
  BY <1>6, ChartDeletes
<1>7. CASE \/ \E p \in DOMAIN Chart!Tree \cup {None} : Chart!MoveHere(p)
           \/ \E a \in DOMAIN Chart!Tree : \E p \in DOMAIN Chart!Tree : Chart!HandleDrop(a, p)
  BY <1>7, ChartMovesSent
<1>8. ASSUME NEW a \in Accounts, Chart!Book(a) PROVE ChartIInv'
  BY <1>8, ChartBooks
<1>9. ASSUME NEW r \in wire, Chart!CheckMove(r) \/ Chart!CheckUpdate(r) \/ Chart!CheckDelete(r) PROVE ChartIInv'
  BY <1>9, ChartChecks
<1>10. ASSUME NEW r \in wire, Chart!ServeCreate(r) PROVE ChartIInv'
  BY <1>10, ChartCreates
<1>11. ASSUME NEW r \in wire, Chart!SaveMove(r) PROVE ChartIInv'
  BY <1>11, ChartSavesMove
<1>12. ASSUME NEW r \in wire, Chart!SaveUpdate(r) PROVE ChartIInv'
  BY <1>12, ChartSavesUpdate
<1>13. ASSUME NEW r \in wire, Chart!SaveDelete(r) PROVE ChartIInv'
  BY <1>13, ChartSavesDelete
<1>14. ASSUME NEW r \in wire, Chart!LookBack(r) PROVE ChartIInv'
  BY <1>14, ChartLooksBack
<1>15. ASSUME NEW r \in wire, Chart!Ungroup(r) PROVE ChartIInv'
  BY <1>15, ChartUngroups
<1>16. ASSUME NEW r \in wire, Chart!Succeed(r) \/ Chart!Fail(r) PROVE ChartIInv'
  BY <1>16, ChartHeard
<1>17. CASE UNCHANGED deskVars
  <2>1. UNCHANGED <<db, shown, due, dialog, form, wire, hist>> /\ UNCHANGED <<Chart!Rows, Chart!Tree>>
    BY <1>17 DEF deskVars, Chart!Rows, Chart!Tree
  <2> QED
    BY <2>1 DEF ChartIInv, ChartPageShape, ChartTreeShape, ChartDialogShape, ChartFormShape, ChartWireInv,
       ChartSound, ChartTested, ChartNamed, ChartNames, ChartMade,
                ChartTidy, ChartRooted, ChartHung, ChartGrouped, ChartUnused, Chart!ActiveIn, Chart!Children
<1> QED
  BY <1>1, <1>2, <1>3, <1>4, <1>5, <1>6, <1>7, <1>8, <1>9, <1>10, <1>11, <1>12, <1>13, <1>14, <1>15, <1>16, <1>17
     DEF Chart!Next

LEMMA ChartInvariant == ASSUME Chart!AccountsAssumption PROVE Chart!Spec => []ChartIInv
<1>1. Chart!Init => ChartIInv
  BY ChartInitIInv
<1>2. ChartIInv /\ [Chart!Next]_deskVars => ChartIInv'
  BY ChartNextIInv
<1> QED
  BY <1>1, <1>2, PTL DEF Chart!Spec, Chart!deskVars, deskVars

\* The accounts, the tree on the page, its forms and the requests under way are
\* what the panel and the API take them for.
THEOREM ChartAccountsTypeCorrect == ASSUME Chart!AccountsAssumption PROVE Chart!Spec => []Chart!TypeOK
<1>1. ASSUME ChartIInv PROVE Chart!TypeOK
  <2>1. db \in Chart!Dbs /\ wire \subseteq Chart!Requests
    BY <1>1 DEF ChartIInv, ChartWireInv
  <2>2. DOMAIN shown = {"tree"} /\ DOMAIN Chart!Tree \subseteq Accounts /\ due \subseteq {"tree"}
    BY <1>1 DEF ChartIInv, ChartPageShape, ChartTreeShape, ChartMade
  <2>3. dialog \in [kind: {"move"}, id: Accounts] \cup {None}
    BY <1>1 DEF ChartIInv, ChartPageShape, ChartDialogShape
  <2>4. /\ form.mode \in {"none", "create", "edit"} /\ form.selected \in Accounts \cup {None}
        /\ form.account \in Accounts \cup {None} /\ form.row \in Chart!Row
    BY <1>1 DEF ChartIInv, ChartPageShape, ChartFormShape, ChartForms
  <2>5. hist.crossed \in BOOLEAN /\ hist.switched \subseteq Accounts
    BY <1>1 DEF ChartIInv, ChartPageShape, ChartHists
  <2> QED
    BY <2>1, <2>2, <2>3, <2>4, <2>5 DEF Chart!TypeOK
<1> QED
  BY <1>1, ChartInvariant, PTL

\* However accounts are created, moved, edited and deleted, the tree keeps every
\* account in use and books on leaves, unless two handlers crossed or an edit
\* switched off what it names.
THEOREM ChartTreeSound == ASSUME Chart!AccountsAssumption PROVE Chart!Spec => []Chart!TreeIsSound
<1>1. ASSUME ChartIInv, ~hist.crossed, NEW a \in Chart!ActiveIn(Chart!Rows)
      PROVE  /\ a \in Chart!InTree(Chart!Rows) \/ \E b \in hist.switched : Chart!Above(Chart!Rows, a, b)
             /\ Chart!Children(Chart!Rows, a) # {} => Chart!Rows[a].group \/ a \in hist.switched
  <2>1. db \in Chart!Dbs /\ db.rows = Chart!Rows /\ ChartTidy(db, hist.switched)
            /\ hist.switched \in SUBSET Accounts
    BY <1>1 DEF ChartIInv, Chart!Rows, ChartPageShape, ChartHists
  <2>2. a \in Chart!InTree(Chart!Rows) \/ \E b \in hist.switched : Chart!Above(Chart!Rows, a, b)
    BY <2>1, ChartTidyTree
  <2>3. Chart!Children(Chart!Rows, a) # {} => Chart!Rows[a].group \/ a \in hist.switched
    BY <2>1 DEF ChartTidy, ChartGrouped
  <2> QED
    BY <2>2, <2>3
<1>2. ChartIInv => Chart!TreeIsSound
  BY <1>1 DEF Chart!TreeIsSound
<1> QED
  BY <1>2, ChartInvariant, PTL

\* An account with bookings is in use, unless it was deleted as they were made
\* or an edit switched it off.
THEOREM ChartRetiredEmpty == ASSUME Chart!AccountsAssumption PROVE Chart!Spec => []Chart!RetiredAreEmpty
<1>1. ChartIInv => Chart!RetiredAreEmpty
  BY DEF ChartIInv, ChartTidy, ChartUnused, Chart!RetiredAreEmpty, Chart!Rows
<1> QED
  BY <1>1, ChartInvariant, PTL
=============================================================================

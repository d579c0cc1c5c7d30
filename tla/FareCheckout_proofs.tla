------------------------ MODULE FareCheckout_proofs ------------------------
(***************************************************************************)
(* What holds of FareCheckout for any number of requests, fares and        *)
(* gateway checkouts.  The inductive invariant says what a request still   *)
(* knows when it saves: which fare its gateway checkout was opened for,    *)
(* that the payment it is about to book was collected for the amount it    *)
(* has seen, and that a row it saves to is in the table.                   *)
(***************************************************************************)
EXTENDS FareCheckout, TLAPS

\* A checkout the gateway has opened has a reference and an amount.
GatewayInv ==
    \A g \in Gids :
        /\ gateway[g].status = "none" => gateway[g].ref = None
        /\ gateway[g].status # "none" => gateway[g].ref \in Refs /\ gateway[g].amount \in Amounts

\* A row's checkout_id was opened under the row's own reference.
RowInv ==
    \A r \in Refs :
        /\ row[r].gid # None => gateway[row[r].gid].ref = r
        /\ row[r].status = "absent" => row[r] = NoRow

\* What a request relies on when it takes its next step.
RequestInv ==
    \A w \in Workers :
        /\ request[w].step # "idle" => request[w].ref \in Refs
        /\ request[w].step \in {"insert", "saveGid"} =>
               request[w].gid \in Gids /\ gateway[request[w].gid].ref = request[w].ref
        /\ request[w].step = "insert" =>
               row[request[w].ref].status = "absent" /\ request[w].amount \in Amounts
        /\ request[w].step \notin {"idle", "insert"} =>
               row[request[w].ref].status # "absent" /\ request[w].seen.amount \in Amounts
        /\ request[w].step \in {"enquire", "digital"} =>
               /\ request[w].seen.gid \in Gids
               /\ gateway[request[w].seen.gid].ref = request[w].ref
        /\ request[w].step = "digital" =>
               /\ gateway[request[w].seen.gid].status \in Collected
               /\ gateway[request[w].seen.gid].amount = request[w].seen.amount
        /\ request[w].step = "confirm" =>
               /\ request[w].booking \in Bookings
               /\ booking[request[w].booking] # None
               /\ booking[request[w].booking].ref = request[w].ref

\* Two walk-in sales under way never insert the same row.
InsertsApart ==
    \A v, w \in Workers :
        /\ request[v].step = "insert"
        /\ request[w].step = "insert"
        /\ request[v].ref = request[w].ref
        => v = w

IInv == TypeOK /\ GatewayInv /\ RowInv /\ RequestInv /\ InsertsApart /\ ConfirmedIsSold
-----------------------------------------------------------------------------
\* SaveGid changes a row into a row.
LEMMA GidSaved ==
  ASSUME NEW x \in Row, NEW g \in Gids \cup {None}
  PROVE  [x EXCEPT !.gid = g] \in Row
  BY DEF Row

\* Nothing is reserved, opened or booked at the start.
LEMMA InitIInv == Init => IInv
  BY ConstantsAssumption
  DEF Init, IInv, TypeOK, GatewayInv, RowInv, RequestInv, InsertsApart, ConfirmedIsSold,
      Row, NoRow, GatewayCheckout, GatewayStatus, NoCheckout, Request, NoRequest, Step

\* Every step of a request, of the gateway or of the configuration keeps the inductive invariant.
LEMMA NextIInv == IInv /\ [Next]_vars => IInv'
<1> SUFFICES ASSUME IInv, [Next]_vars PROVE IInv'
  OBVIOUS
<1> USE ConstantsAssumption, NoneAssumption
<1> USE DEF IInv, TypeOK, Row, NoRow, GatewayCheckout, GatewayStatus, NoCheckout, Booking,
            Request, NoRequest, Step, Collected
<1>1. ASSUME NEW r \in Refs, NEW amount \in Amounts,
            Reserve(r, amount)
     PROVE  IInv'
  <2>1. TypeOK'
    BY <1>1 DEF Reserve, Fresh, NewRow, RequestInv, GatewayInv
  <2>2. GatewayInv'
    BY <1>1 DEF Reserve, Fresh, NewRow, GatewayInv, RequestInv
  <2>3. RowInv'
    BY <1>1 DEF Reserve, Fresh, NewRow, GatewayInv, RowInv, RequestInv
  <2>4. RequestInv'
    BY <1>1 DEF Reserve, Fresh, NewRow, GatewayInv, RowInv, RequestInv, InsertsApart
  <2>5. InsertsApart'
    BY <1>1 DEF Reserve, Fresh, NewRow, RequestInv, InsertsApart
  <2>6. ConfirmedIsSold'
    BY <1>1 DEF Reserve, Fresh, NewRow, ConfirmedIsSold, RequestInv, RowInv
  <2> QED
    BY <2>1, <2>2, <2>3, <2>4, <2>5, <2>6
<1>2. ASSUME NEW w \in Workers, NEW r \in Refs, NEW amount \in Amounts, NEW g \in Gids,
            StartWalkIn(w, r, amount, g)
     PROVE  IInv'
  <2>1. TypeOK'
    BY <1>2 DEF StartWalkIn, Fresh, Open, Begin, RequestInv, GatewayInv
  <2>2. GatewayInv'
    BY <1>2 DEF StartWalkIn, Fresh, Open, Begin, GatewayInv, RequestInv
  <2>3. RowInv'
    BY <1>2 DEF StartWalkIn, Fresh, Open, Begin, GatewayInv, RowInv, RequestInv
  <2>4. RequestInv'
    BY <1>2 DEF StartWalkIn, Fresh, Open, Begin, GatewayInv, RowInv, RequestInv, InsertsApart
  <2>5. InsertsApart'
    BY <1>2 DEF StartWalkIn, Fresh, Open, Begin, RequestInv, InsertsApart
  <2>6. ConfirmedIsSold'
    BY <1>2 DEF StartWalkIn, Fresh, Open, Begin, ConfirmedIsSold, RequestInv, RowInv
  <2> QED
    BY <2>1, <2>2, <2>3, <2>4, <2>5, <2>6
<1>3. ASSUME NEW w \in Workers,
            InsertWalkIn(w)
     PROVE  IInv'
  <2>1. TypeOK'
    BY <1>3 DEF InsertWalkIn, NewRow, Done, RequestInv, GatewayInv
  <2>2. GatewayInv'
    BY <1>3 DEF InsertWalkIn, NewRow, Done, GatewayInv, RequestInv
  <2>3. RowInv'
    BY <1>3 DEF InsertWalkIn, NewRow, Done, GatewayInv, RowInv, RequestInv
  <2>4. RequestInv'
    BY <1>3 DEF InsertWalkIn, NewRow, Done, GatewayInv, RowInv, RequestInv, InsertsApart
  <2>5. InsertsApart'
    BY <1>3 DEF InsertWalkIn, NewRow, Done, RequestInv, InsertsApart
  <2>6. ConfirmedIsSold'
    BY <1>3 DEF InsertWalkIn, NewRow, Done, ConfirmedIsSold, RequestInv, RowInv
  <2> QED
    BY <2>1, <2>2, <2>3, <2>4, <2>5, <2>6
<1>4. ASSUME NEW w \in Workers, NEW r \in Refs, NEW step \in Step,
            StartValidate(w, r, step)
     PROVE  IInv'
  <2>1. TypeOK'
    BY <1>4 DEF StartValidate, Begin, RequestInv, GatewayInv
  <2>2. GatewayInv'
    BY <1>4 DEF StartValidate, Begin, GatewayInv, RequestInv
  <2>3. RowInv'
    BY <1>4 DEF StartValidate, Begin, GatewayInv, RowInv, RequestInv
  <2>4. RequestInv'
    BY <1>4 DEF StartValidate, Begin, GatewayInv, RowInv, RequestInv, InsertsApart
  <2>5. InsertsApart'
    BY <1>4 DEF StartValidate, Begin, RequestInv, InsertsApart
  <2>6. ConfirmedIsSold'
    BY <1>4 DEF StartValidate, Begin, ConfirmedIsSold, RequestInv, RowInv
  <2> QED
    BY <2>1, <2>2, <2>3, <2>4, <2>5, <2>6
<1>5. ASSUME NEW w \in Workers,
            RejectSave(w)
     PROVE  IInv'
  <2>1. TypeOK'
    BY <1>5 DEF RejectSave, Done, RequestInv, GatewayInv
  <2>2. GatewayInv'
    BY <1>5 DEF RejectSave, Done, GatewayInv, RequestInv
  <2>3. RowInv'
    BY <1>5 DEF RejectSave, Done, GatewayInv, RowInv, RequestInv
  <2>4. RequestInv'
    BY <1>5 DEF RejectSave, Done, GatewayInv, RowInv, RequestInv, InsertsApart
  <2>5. InsertsApart'
    BY <1>5 DEF RejectSave, Done, RequestInv, InsertsApart
  <2>6. ConfirmedIsSold'
    BY <1>5 DEF RejectSave, Done, ConfirmedIsSold, RequestInv, RowInv
  <2> QED
    BY <2>1, <2>2, <2>3, <2>4, <2>5, <2>6
<1>6. ASSUME NEW w \in Workers, NEW g \in Gids,
            Initiate(w, g)
     PROVE  IInv'
  <2>1. TypeOK'
    <3>1. request' \in [Workers -> Request]
      BY <1>6 DEF Initiate, Open, Continue
    <3> QED
      BY <1>6, <3>1 DEF Initiate, Open, Continue, RequestInv, GatewayInv
  <2>2. GatewayInv'
    BY <1>6 DEF Initiate, Open, Continue, GatewayInv, RequestInv
  <2>3. RowInv'
    BY <1>6 DEF Initiate, Open, Continue, GatewayInv, RowInv, RequestInv
  <2>4. RequestInv'
    BY <1>6 DEF Initiate, Open, Continue, GatewayInv, RowInv, RequestInv, InsertsApart
  <2>5. InsertsApart'
    BY <1>6 DEF Initiate, Open, Continue, RequestInv, InsertsApart
  <2>6. ConfirmedIsSold'
    BY <1>6 DEF Initiate, Open, Continue, ConfirmedIsSold, RequestInv, RowInv
  <2> QED
    BY <2>1, <2>2, <2>3, <2>4, <2>5, <2>6
<1>7. ASSUME NEW w \in Workers,
            SaveGid(w)
     PROVE  IInv'
  <2>1. TypeOK'
    <3> DEFINE saved == [row[request[w].ref] EXCEPT !.gid = request[w].gid]
    <3>1. request[w].ref \in Refs /\ request[w].gid \in Gids
      BY <1>7 DEF SaveGid, RequestInv
    <3>2. row[request[w].ref] \in Row
      BY <3>1
    <3>3. saved \in Row
      BY <3>1, <3>2, GidSaved
    <3>4. row' \in [Refs -> Row]
      BY <1>7, <3>1, <3>3 DEF SaveGid
    <3> QED
      BY <1>7, <3>1, <3>4 DEF SaveGid, Done, RequestInv, GatewayInv
  <2>2. GatewayInv'
    BY <1>7 DEF SaveGid, Done, GatewayInv, RequestInv
  <2>3. RowInv'
    BY <1>7 DEF SaveGid, Done, GatewayInv, RowInv, RequestInv
  <2>4. RequestInv'
    BY <1>7 DEF SaveGid, Done, GatewayInv, RowInv, RequestInv, InsertsApart
  <2>5. InsertsApart'
    BY <1>7 DEF SaveGid, Done, RequestInv, InsertsApart
  <2>6. ConfirmedIsSold'
    BY <1>7 DEF SaveGid, Done, ConfirmedIsSold, RequestInv, RowInv
  <2> QED
    BY <2>1, <2>2, <2>3, <2>4, <2>5, <2>6
<1>8. ASSUME NEW w \in Workers, NEW r \in Refs,
            StartConfirm(w, r)
     PROVE  IInv'
  <2>1. TypeOK'
    BY <1>8 DEF StartConfirm, Begin, RequestInv, GatewayInv
  <2>2. GatewayInv'
    BY <1>8 DEF StartConfirm, Begin, GatewayInv, RequestInv
  <2>3. RowInv'
    BY <1>8 DEF StartConfirm, Begin, GatewayInv, RowInv, RequestInv
  <2>4. RequestInv'
    BY <1>8 DEF StartConfirm, Begin, GatewayInv, RowInv, RequestInv, InsertsApart
  <2>5. InsertsApart'
    BY <1>8 DEF StartConfirm, Begin, RequestInv, InsertsApart
  <2>6. ConfirmedIsSold'
    BY <1>8 DEF StartConfirm, Begin, ConfirmedIsSold, RequestInv, RowInv
  <2> QED
    BY <2>1, <2>2, <2>3, <2>4, <2>5, <2>6
<1>9. ASSUME NEW w \in Workers,
            Enquire(w)
     PROVE  IInv'
  <2>1. TypeOK'
    <3>1. request' \in [Workers -> Request]
      BY <1>9 DEF Enquire, AfterEnquiry, Done, Continue
    <3>2. UNCHANGED <<row, gateway, booking, config>>
      BY <1>9 DEF Enquire
    <3> QED
      BY <3>1, <3>2
  <2>2. GatewayInv'
    BY <1>9 DEF Enquire, AfterEnquiry, Done, Continue, GatewayInv, RequestInv
  <2>3. RowInv'
    BY <1>9 DEF Enquire, AfterEnquiry, Done, Continue, GatewayInv, RowInv, RequestInv
  <2>4. RequestInv'
    BY <1>9 DEF Enquire, AfterEnquiry, Done, Continue, GatewayInv, RowInv, RequestInv, InsertsApart
  <2>5. InsertsApart'
    BY <1>9 DEF Enquire, AfterEnquiry, Done, Continue, RequestInv, InsertsApart
  <2>6. ConfirmedIsSold'
    BY <1>9 DEF Enquire, AfterEnquiry, Done, Continue, ConfirmedIsSold, RequestInv, RowInv
  <2> QED
    BY <2>1, <2>2, <2>3, <2>4, <2>5, <2>6
<1>10. ASSUME NEW w \in Workers,
            FailSave(w)
     PROVE  IInv'
  <2>1. TypeOK'
    BY <1>10 DEF FailSave, Done, RequestInv, GatewayInv
  <2>2. GatewayInv'
    BY <1>10 DEF FailSave, Done, GatewayInv, RequestInv
  <2>3. RowInv'
    BY <1>10 DEF FailSave, Done, GatewayInv, RowInv, RequestInv
  <2>4. RequestInv'
    BY <1>10 DEF FailSave, Done, GatewayInv, RowInv, RequestInv, InsertsApart
  <2>5. InsertsApart'
    BY <1>10 DEF FailSave, Done, RequestInv, InsertsApart
  <2>6. ConfirmedIsSold'
    BY <1>10 DEF FailSave, Done, ConfirmedIsSold, RequestInv, RowInv
  <2> QED
    BY <2>1, <2>2, <2>3, <2>4, <2>5, <2>6
<1>11. ASSUME NEW w \in Workers, NEW b \in Bookings,
            Book(w, b)
     PROVE  IInv'
  <2>1. TypeOK'
    <3>1. request' \in [Workers -> Request]
      BY <1>11 DEF Book, Continue
    <3> QED
      BY <1>11, <3>1 DEF Book, Continue, RequestInv, GatewayInv
  <2>2. GatewayInv'
    BY <1>11 DEF Book, Continue, GatewayInv, RequestInv
  <2>3. RowInv'
    BY <1>11 DEF Book, Continue, GatewayInv, RowInv, RequestInv
  <2>4. RequestInv'
    <3>1. booking'[b] \in Booking /\ booking'[b].ref = request[w].ref
      BY <1>11 DEF Book, RequestInv
    <3>2. \A c \in Bookings : booking[c] # None => booking'[c] = booking[c]
      BY <1>11 DEF Book
    <3>3. request'[w].step = "confirm" /\ request'[w].booking = b
          /\ request'[w].ref = request[w].ref /\ request'[w].seen = request[w].seen
      BY <1>11 DEF Book, Continue
    <3>4. \A v \in Workers : v # w => request'[v] = request[v]
      BY <1>11 DEF Book, Continue
    <3>5. row' = row /\ gateway' = gateway /\ request[w].step \in {"cash", "digital"}
      BY <1>11 DEF Book
    <3> HIDE DEF TypeOK
    <3> QED
      BY <3>1, <3>2, <3>3, <3>4, <3>5, NoneAssumption DEF RequestInv
  <2>5. InsertsApart'
    BY <1>11 DEF Book, Continue, RequestInv, InsertsApart
  <2>6. ConfirmedIsSold'
    BY <1>11 DEF Book, Continue, ConfirmedIsSold, RequestInv, RowInv
  <2> QED
    BY <2>1, <2>2, <2>3, <2>4, <2>5, <2>6
<1>12. ASSUME NEW w \in Workers,
            ConfirmSave(w)
     PROVE  IInv'
  <2>1. TypeOK'
    BY <1>12 DEF ConfirmSave, Done, RequestInv, GatewayInv
  <2>2. GatewayInv'
    BY <1>12 DEF ConfirmSave, Done, GatewayInv, RequestInv
  <2>3. RowInv'
    BY <1>12 DEF ConfirmSave, Done, GatewayInv, RowInv, RequestInv
  <2>4. RequestInv'
    BY <1>12 DEF ConfirmSave, Done, GatewayInv, RowInv, RequestInv, InsertsApart
  <2>5. InsertsApart'
    BY <1>12 DEF ConfirmSave, Done, RequestInv, InsertsApart
  <2>6. ConfirmedIsSold'
    BY <1>12 DEF ConfirmSave, Done, ConfirmedIsSold, RequestInv, RowInv
  <2> QED
    BY <2>1, <2>2, <2>3, <2>4, <2>5, <2>6
<1>13. ASSUME NEW w \in Workers, NEW r \in Refs, NEW amount \in Amounts \cup {0},
            StartEdit(w, r, amount)
     PROVE  IInv'
  <2>1. TypeOK'
    BY <1>13 DEF StartEdit, Begin, RequestInv, GatewayInv
  <2>2. GatewayInv'
    BY <1>13 DEF StartEdit, Begin, GatewayInv, RequestInv
  <2>3. RowInv'
    BY <1>13 DEF StartEdit, Begin, GatewayInv, RowInv, RequestInv
  <2>4. RequestInv'
    BY <1>13 DEF StartEdit, Begin, GatewayInv, RowInv, RequestInv, InsertsApart
  <2>5. InsertsApart'
    BY <1>13 DEF StartEdit, Begin, RequestInv, InsertsApart
  <2>6. ConfirmedIsSold'
    BY <1>13 DEF StartEdit, Begin, ConfirmedIsSold, RequestInv, RowInv
  <2> QED
    BY <2>1, <2>2, <2>3, <2>4, <2>5, <2>6
<1>14. ASSUME NEW w \in Workers,
            EditSave(w)
     PROVE  IInv'
  <2>1. TypeOK'
    BY <1>14 DEF EditSave, Done, RequestInv, GatewayInv
  <2>2. GatewayInv'
    BY <1>14 DEF EditSave, Done, GatewayInv, RequestInv
  <2>3. RowInv'
    BY <1>14 DEF EditSave, Done, GatewayInv, RowInv, RequestInv
  <2>4. RequestInv'
    BY <1>14 DEF EditSave, Done, GatewayInv, RowInv, RequestInv, InsertsApart
  <2>5. InsertsApart'
    BY <1>14 DEF EditSave, Done, RequestInv, InsertsApart
  <2>6. ConfirmedIsSold'
    BY <1>14 DEF EditSave, Done, ConfirmedIsSold, RequestInv, RowInv
  <2> QED
    BY <2>1, <2>2, <2>3, <2>4, <2>5, <2>6
<1>15. ASSUME NEW w \in Workers,
            Abort(w)
     PROVE  IInv'
  <2>1. TypeOK'
    BY <1>15 DEF Abort, Done, RequestInv, GatewayInv
  <2>2. GatewayInv'
    BY <1>15 DEF Abort, Done, GatewayInv, RequestInv
  <2>3. RowInv'
    BY <1>15 DEF Abort, Done, GatewayInv, RowInv, RequestInv
  <2>4. RequestInv'
    BY <1>15 DEF Abort, Done, GatewayInv, RowInv, RequestInv, InsertsApart
  <2>5. InsertsApart'
    BY <1>15 DEF Abort, Done, RequestInv, InsertsApart
  <2>6. ConfirmedIsSold'
    BY <1>15 DEF Abort, Done, ConfirmedIsSold, RequestInv, RowInv
  <2> QED
    BY <2>1, <2>2, <2>3, <2>4, <2>5, <2>6
<1>16. ASSUME NEW c \in {"inactive", "active"},
            SaveConfig(c)
     PROVE  IInv'
  <2>1. TypeOK'
    BY <1>16 DEF SaveConfig, RequestInv, GatewayInv
  <2>2. GatewayInv'
    BY <1>16 DEF SaveConfig, GatewayInv, RequestInv
  <2>3. RowInv'
    BY <1>16 DEF SaveConfig, GatewayInv, RowInv, RequestInv
  <2>4. RequestInv'
    BY <1>16 DEF SaveConfig, GatewayInv, RowInv, RequestInv, InsertsApart
  <2>5. InsertsApart'
    BY <1>16 DEF SaveConfig, RequestInv, InsertsApart
  <2>6. ConfirmedIsSold'
    BY <1>16 DEF SaveConfig, ConfirmedIsSold, RequestInv, RowInv
  <2> QED
    BY <2>1, <2>2, <2>3, <2>4, <2>5, <2>6
<1>17. ASSUME NEW g \in Gids, NEW status \in GatewayStatus,
            GatewayMove(g, status)
     PROVE  IInv'
  <2>1. TypeOK'
    BY <1>17 DEF GatewayMove, RequestInv, GatewayInv
  <2>2. GatewayInv'
    BY <1>17 DEF GatewayMove, GatewayInv, RequestInv
  <2>3. RowInv'
    BY <1>17 DEF GatewayMove, GatewayInv, RowInv, RequestInv
  <2>4. RequestInv'
    BY <1>17 DEF GatewayMove, GatewayInv, RowInv, RequestInv, InsertsApart
  <2>5. InsertsApart'
    BY <1>17 DEF GatewayMove, RequestInv, InsertsApart
  <2>6. ConfirmedIsSold'
    BY <1>17 DEF GatewayMove, ConfirmedIsSold, RequestInv, RowInv
  <2> QED
    BY <2>1, <2>2, <2>3, <2>4, <2>5, <2>6
<1>18. CASE UNCHANGED vars
  BY <1>18 DEF vars, GatewayInv, RowInv, RequestInv, InsertsApart, ConfirmedIsSold
<1> HIDE DEF IInv
<1> QED
  BY <1>1, <1>2, <1>3, <1>4, <1>5, <1>6, <1>7, <1>8, <1>9, <1>10, <1>11, <1>12, <1>13, <1>14, <1>15, <1>16, <1>17, <1>18 DEF Next, Handle

\* Types, for any number of requests in flight: no save writes a value its column cannot
\* hold, and a row never loses the amount it was reserved for.
THEOREM TypeCorrect == Spec => []TypeOK
<1>1. IInv => TypeOK
  BY DEF IInv
<1> QED
  BY InitIInv, NextIInv, <1>1, PTL DEF Spec

\* A row settled for a fare keeps pointing at a sale of that fare (ConfirmSave runs after
\* Book has committed).
THEOREM ConfirmedSold == Spec => []ConfirmedIsSold
<1>1. IInv => ConfirmedIsSold
  BY DEF IInv
<1> QED
  BY InitIInv, NextIInv, <1>1, PTL DEF Spec

-----------------------------------------------------------------------------
\* Only a request that saves touches the table of rows.
LEMMA RowsUntouched ==
  ASSUME Next, ~(\E r \in Refs, amount \in Amounts : Reserve(r, amount)),
         \A w \in Workers : ~(InsertWalkIn(w) \/ RejectSave(w) \/ SaveGid(w) \/ FailSave(w)
                              \/ ConfirmSave(w) \/ EditSave(w))
  PROVE  row' = row
  BY DEF Next, Handle, StartWalkIn, StartValidate, Initiate, StartConfirm, Enquire, Book,
         StartEdit, Abort, SaveConfig, GatewayMove

\* RejectSave, FailSave and ConfirmSave write closed statuses; the others keep the status.
LEMMA NothingReopenedStep ==
  ASSUME IInv, Next, NEW r \in Refs
  PROVE  /\ row[r].status \in Closed => row'[r].status \in Closed
         /\ row[r].booking # None => row'[r].booking # None
<1> USE ConstantsAssumption
<1> USE DEF IInv, TypeOK, Row, Request, Closed
<1>1. ASSUME NEW s \in Refs, NEW amount \in Amounts, Reserve(s, amount)
      PROVE  /\ row[r].status \in Closed => row'[r].status \in Closed
             /\ row[r].booking # None => row'[r].booking # None
  BY <1>1 DEF Reserve, Fresh, NewRow, NoRow, RowInv
<1>2. ASSUME NEW w \in Workers, InsertWalkIn(w)
      PROVE  /\ row[r].status \in Closed => row'[r].status \in Closed
             /\ row[r].booking # None => row'[r].booking # None
  BY <1>2 DEF InsertWalkIn, NewRow, NoRow, RequestInv, RowInv
<1>3. ASSUME NEW w \in Workers, RejectSave(w) \/ FailSave(w) \/ SaveGid(w) \/ EditSave(w)
      PROVE  /\ row[r].status \in Closed => row'[r].status \in Closed
             /\ row[r].booking # None => row'[r].booking # None
  BY <1>3 DEF RejectSave, FailSave, SaveGid, EditSave
<1>4. ASSUME NEW w \in Workers, ConfirmSave(w)
      PROVE  /\ row[r].status \in Closed => row'[r].status \in Closed
             /\ row[r].booking # None => row'[r].booking # None
  BY <1>4 DEF ConfirmSave, RequestInv
<1>5. CASE row' = row
  BY <1>5
<1> HIDE DEF IInv, TypeOK, Row, Request, Closed
<1> QED
  BY <1>1, <1>2, <1>3, <1>4, <1>5, RowsUntouched

\* No interleaving of stale requests reopens a closed reservation or loses the link to
\* its Booking.
THEOREM NeverReopened == Spec => NothingReopened
<1>1. IInv /\ [Next]_vars =>
        [\A r \in Refs :
            /\ row[r].status \in Closed => row'[r].status \in Closed
            /\ row[r].booking # None => row'[r].booking # None]_vars
  BY NothingReopenedStep
<1> QED
  BY InitIInv, NextIInv, <1>1, PTL DEF Spec, NothingReopened

-----------------------------------------------------------------------------
\* A settlement in its first commit has money in hand or in the gateway's books.
LEMMA BookIsBacked ==
  ASSUME IInv, NEW w \in Workers, NEW b \in Bookings, Book(w, b)
  PROVE  /\ booking[b] = None
         /\ booking'[b] \in AnyTimes!Sale
         /\ AnyTimes!Backed(booking'[b])
         /\ booking' = [booking EXCEPT ![b] = booking'[b]]
         /\ UNCHANGED Payments
<1> USE ConstantsAssumption DEF IInv, TypeOK, Row, Request
<1>1. CASE request[w].step = "cash"
  BY <1>1 DEF Book, RequestInv, AnyTimes!Sale, AnyTimes!Backed, Payments
<1>2. CASE request[w].step = "digital"
  <2>1. /\ request[w].seen.gid \in Gids
        /\ Payments[request[w].seen.gid] =
             [ref |-> request[w].ref, amount |-> request[w].seen.amount]
    BY <1>2 DEF RequestInv, Payments, GatewayCheckout
  <2> QED
    BY <1>2, <2>1 DEF Book, RequestInv, AnyTimes!Sale, AnyTimes!Backed, Payments
<1> QED
  BY <1>1, <1>2 DEF Book

\* Every other step collects a payment through the gateway or changes nothing FareSale sees.
LEMMA StepIsSaleStep == IInv /\ [Next]_vars => [AnyTimes!Next]_(AnyTimes!vars)
<1> SUFFICES ASSUME IInv, Next PROVE AnyTimes!Next \/ UNCHANGED AnyTimes!vars
  BY DEF vars, AnyTimes!vars, Payments
<1>1. ASSUME NEW w \in Workers, NEW b \in Bookings, Book(w, b)
      PROVE  AnyTimes!Next
  BY <1>1, BookIsBacked DEF AnyTimes!Next, AnyTimes!Sell
<1>2. ASSUME NEW g \in Gids, NEW status \in GatewayStatus, GatewayMove(g, status)
      PROVE  AnyTimes!Next \/ UNCHANGED AnyTimes!vars
  <2> DEFINE p == [ref |-> gateway[g].ref, amount |-> gateway[g].amount]
  <2>1. booking' = booking
    BY <1>2 DEF GatewayMove
  <2>2. CASE status = "success"
    <3>1. p \in AnyTimes!Payment
      BY <1>2 DEF GatewayMove, IInv, GatewayInv, AnyTimes!Payment
    <3>2. Payments[g] = None /\ Payments' = [Payments EXCEPT ![g] = p]
      BY <1>2, <2>2 DEF GatewayMove, Payments, Collected, IInv, TypeOK, GatewayCheckout
    <3> QED
      BY <2>1, <3>1, <3>2 DEF AnyTimes!Next, AnyTimes!Collect
  <2>3. CASE status # "success"
    <3>1. Payments' = Payments
      BY <1>2, <2>3 DEF GatewayMove, Payments, Collected, IInv, TypeOK, GatewayCheckout
    <3> QED
      BY <2>1, <3>1 DEF AnyTimes!vars
  <2> QED
    BY <2>2, <2>3
<1>3. ASSUME NEW g \in Gids, NEW r, NEW amount, Open(g, r, amount), booking' = booking
      PROVE  UNCHANGED AnyTimes!vars
  BY <1>3 DEF Open, Payments, Collected, AnyTimes!vars, IInv, TypeOK, GatewayCheckout
<1>4. CASE gateway' = gateway /\ booking' = booking
  BY <1>4 DEF Payments, AnyTimes!vars
<1> QED
  BY <1>1, <1>2, <1>3, <1>4
  DEF Next, Handle, Reserve, StartWalkIn, InsertWalkIn, StartValidate, RejectSave, Initiate,
      SaveGid, StartConfirm, Enquire, FailSave, ConfirmSave, StartEdit, EditSave, Abort,
      SaveConfig

\* The handlers implement FareSale without the at-most-once clause: every Booking is
\* backed by cash or by exactly the payment the gateway collected for that fare.
THEOREM SalesBacked == Spec => SoldAgainstMoney
<1>1. Init => AnyTimes!Init
  BY DEF Init, AnyTimes!Init, Payments, NoCheckout, Collected
<1> QED
  BY <1>1, InitIInv, NextIInv, StepIsSaleStep, PTL DEF Spec, SoldAgainstMoney, AnyTimes!Spec

-----------------------------------------------------------------------------
\* Requests one after the other, none dying between the two commits of a settlement.
OneAtATime == (\A v, w \in Workers : v = w) /\ ~Crashes

\* What the lone request knows besides: its copy of the row is still accurate, and every
\* Booking has marked its row CONFIRMED, but for the one being settled right now.
SerialInv ==
    /\ \A w \in Workers :
          request[w].step \notin {"idle", "insert"} =>
              /\ row[request[w].ref].status # "CONFIRMED"
              /\ row[request[w].ref].amount = request[w].seen.amount
    /\ \A w \in Workers :
          request[w].step = "confirm" => booking[request[w].booking].amount = request[w].seen.amount
    /\ \A b \in Bookings :
          booking[b] # None =>
              \/ row[booking[b].ref].status = "CONFIRMED"
              \/ \E w \in Workers : request[w].step = "confirm" /\ request[w].booking = b
    /\ ReceiptMatchesRow

\* At the start the lone request knows nothing and nothing is sold.
LEMMA SerialInit == Init => SerialInv
  BY DEF Init, SerialInv, ReceiptMatchesRow, NoRow, NoRequest

\* Marking the row CONFIRMED closes the settlement under way.
LEMMA SerialConfirm ==
  ASSUME OneAtATime, IInv, SerialInv, NEW w \in Workers, ConfirmSave(w)
  PROVE  SerialInv'
<1> DEFINE r == request[w].ref
           b == request[w].booking
<1>1. /\ r \in Refs
      /\ b \in Bookings
      /\ booking[b] # None
      /\ booking[b].ref = r
  BY DEF IInv, RequestInv, ConfirmSave
<1>2. booking[b].amount = row[r].amount
  BY DEF SerialInv, ConfirmSave
<1>3. \A v \in Workers : request'[v].step = "idle"
  BY DEF ConfirmSave, Done, OneAtATime, NoRequest, IInv, TypeOK
<1>4. row[r] \in Row
  BY <1>1 DEF IInv, TypeOK
<1>5. /\ row'[r].status = "CONFIRMED"
      /\ row'[r].booking = b
      /\ row'[r].amount = row[r].amount
      /\ \A s \in Refs : s # r => row'[s] = row[s]
  BY <1>1, <1>4 DEF ConfirmSave, IInv, TypeOK, Row
<1>6. booking' = booking
  BY DEF ConfirmSave
<1>7. \A c \in Bookings : booking[c] # None => booking[c].ref \in Refs
  BY DEF IInv, TypeOK, Booking
<1>8. \A c \in Bookings :
        booking[c] # None => row[booking[c].ref].status = "CONFIRMED" \/ c = b
  BY DEF SerialInv, ConfirmSave, OneAtATime
<1> HIDE DEF r, b
<1>9. \A c \in Bookings : booking'[c] # None => row'[booking'[c].ref].status = "CONFIRMED"
  BY <1>1, <1>5, <1>6, <1>7, <1>8
<1>10. ReceiptMatchesRow'
  BY <1>1, <1>2, <1>5, <1>6 DEF ReceiptMatchesRow, SerialInv
<1> QED
  BY <1>3, <1>9, <1>10 DEF SerialInv

\* A request that ends, not having just booked, leaves no request under way: what remains
\* is that CONFIRMED rows are the ones they were.
LEMMA SerialDone ==
  ASSUME OneAtATime, IInv, SerialInv, NEW w \in Workers, Done(w), booking' = booking,
         request[w].step # "confirm",
         \A r \in Refs : row[r].status = "CONFIRMED" => row'[r] = row[r],
         \A r \in Refs : row'[r].status = "CONFIRMED" => row[r].status = "CONFIRMED"
  PROVE  SerialInv'
<1>1. \A v \in Workers : request'[v].step = "idle"
  <2>1. request \in [Workers -> Request]
    BY DEF IInv, TypeOK
  <2> QED
    BY <2>1 DEF Done, OneAtATime, NoRequest
<1>2. \A c \in Bookings : booking[c] # None => row[booking[c].ref].status = "CONFIRMED"
  BY DEF SerialInv, OneAtATime
<1>3. \A c \in Bookings : booking[c] # None => booking[c].ref \in Refs
  BY DEF IInv, TypeOK, Booking
<1>4. \A c \in Bookings : booking'[c] # None => row'[booking'[c].ref].status = "CONFIRMED"
  BY <1>2, <1>3
<1>5. ReceiptMatchesRow'
  BY DEF SerialInv, ReceiptMatchesRow
<1> QED
  BY <1>1, <1>4, <1>5 DEF SerialInv

\* The settlement under way has its Booking, made for the amount the row has.
LEMMA SerialBook ==
  ASSUME OneAtATime, IInv, SerialInv, NEW w \in Workers, NEW b \in Bookings, Book(w, b)
  PROVE  SerialInv'
<1>1. /\ booking[b] = None
      /\ request[w].step \in {"cash", "digital"}
      /\ row' = row
      /\ request[w].ref \in Refs
  BY DEF Book, IInv, RequestInv
<1>2. /\ request'[w].step = "confirm"
      /\ request'[w].ref = request[w].ref
      /\ request'[w].seen = request[w].seen
      /\ request'[w].booking = b
  BY DEF Book, Continue, IInv, TypeOK
<1>3. /\ booking'[b].amount = request[w].seen.amount
      /\ \A c \in Bookings \ {b} : booking'[c] = booking[c]
  BY DEF Book, IInv, TypeOK
<1>4. \A v \in Workers : v = w
  BY DEF OneAtATime
<1>5. \A c \in Bookings : booking[c] # None => row[booking[c].ref].status = "CONFIRMED"
  BY <1>1, <1>4 DEF SerialInv
<1>6. ReceiptMatchesRow'
  <2>1. \A r \in Refs : row[r].status = "CONFIRMED" =>
          row[r].booking # None /\ booking[row[r].booking] # None /\ row[r].booking \in Bookings
    BY DEF IInv, ConfirmedIsSold, TypeOK, Row
  <2> QED
    BY <1>1, <1>3, <2>1 DEF SerialInv, ReceiptMatchesRow
<1>7. \A v \in Workers :
        request'[v].step \notin {"idle", "insert"} =>
            /\ row'[request'[v].ref].status # "CONFIRMED"
            /\ row'[request'[v].ref].amount = request'[v].seen.amount
  BY <1>1, <1>2, <1>4 DEF SerialInv
<1>8. \A v \in Workers :
        request'[v].step = "confirm" => booking'[request'[v].booking].amount = request'[v].seen.amount
  BY <1>2, <1>3, <1>4
<1>9. \A c \in Bookings :
        booking'[c] # None =>
            \/ row'[booking'[c].ref].status = "CONFIRMED"
            \/ \E v \in Workers : request'[v].step = "confirm" /\ request'[v].booking = c
  BY <1>1, <1>2, <1>3, <1>5
<1> QED
  BY <1>6, <1>7, <1>8, <1>9 DEF SerialInv

\* Every other step keeps the lone request's knowledge accurate.
LEMMA SerialStep ==
  ASSUME OneAtATime, IInv, IInv', SerialInv, [Next]_vars
  PROVE  SerialInv'
<1> USE ConstantsAssumption, NoneAssumption
<1> USE DEF IInv, TypeOK, Row, Request, NoRow, NoRequest, Booking, SerialInv, OneAtATime,
            ReceiptMatchesRow, RequestInv, ConfirmedIsSold
<1>1. ASSUME NEW r \in Refs, NEW amount \in Amounts,
            Reserve(r, amount)
     PROVE  SerialInv'
  BY <1>1 DEF Reserve, Fresh, NewRow, RowInv
<1>2. ASSUME NEW w \in Workers, NEW r \in Refs, NEW amount \in Amounts, NEW g \in Gids,
            StartWalkIn(w, r, amount, g)
     PROVE  SerialInv'
  BY <1>2 DEF StartWalkIn, Begin
<1>3. ASSUME NEW w \in Workers,
            InsertWalkIn(w)
     PROVE  SerialInv'
  BY <1>3 DEF InsertWalkIn, NewRow, Done, RowInv
<1>4. ASSUME NEW w \in Workers, NEW r \in Refs, NEW step \in Step,
            StartValidate(w, r, step)
     PROVE  SerialInv'
  BY <1>4 DEF StartValidate, Begin
<1>5. ASSUME NEW w \in Workers,
            RejectSave(w)
     PROVE  SerialInv'
  <2> HIDE DEF IInv, TypeOK, Row, Request, NoRow, NoRequest, Booking, SerialInv, OneAtATime,
               ReceiptMatchesRow, RequestInv, ConfirmedIsSold
  <2>1. Done(w) /\ booking' = booking /\ request[w].step # "confirm"
    BY <1>5 DEF RejectSave
  <2>2. \A r \in Refs :
          /\ row[r].status = "CONFIRMED" => row'[r] = row[r]
          /\ row'[r].status = "CONFIRMED" => row[r].status = "CONFIRMED"
    <3>1. row[request[w].ref].status # "CONFIRMED"
      BY <1>5 DEF RejectSave, SerialInv
    <3>2. row \in [Refs -> Row]
      BY DEF IInv, TypeOK
    <3>3. row' = [row EXCEPT ![request[w].ref].status = "REJECTED"]
      BY <1>5 DEF RejectSave
    <3>4. \A r \in Refs : r # request[w].ref => row'[r] = row[r]
      BY <3>2, <3>3
    <3>5. \A r \in Refs : r = request[w].ref => row'[r].status # "CONFIRMED"
      BY <3>2, <3>3 DEF Row
    <3> QED
      BY <3>1, <3>4, <3>5
  <2>3. \A r \in Refs : row[r].status = "CONFIRMED" => row'[r] = row[r]
    BY <2>2
  <2>4. \A r \in Refs : row'[r].status = "CONFIRMED" => row[r].status = "CONFIRMED"
    BY <2>2
  <2> QED
    BY <2>1, <2>3, <2>4, SerialDone, Zenon
<1>6. ASSUME NEW w \in Workers, NEW g \in Gids,
            Initiate(w, g)
     PROVE  SerialInv'
  BY <1>6 DEF Initiate, Continue
<1>7. ASSUME NEW w \in Workers,
            SaveGid(w)
     PROVE  SerialInv'
  <2> HIDE DEF IInv, TypeOK, Row, Request, NoRow, NoRequest, Booking, SerialInv, OneAtATime,
               ReceiptMatchesRow, RequestInv, ConfirmedIsSold
  <2>1. Done(w) /\ booking' = booking /\ request[w].step # "confirm"
    BY <1>7 DEF SaveGid
  <2>2. \A r \in Refs :
          /\ row[r].status = "CONFIRMED" => row'[r] = row[r]
          /\ row'[r].status = "CONFIRMED" => row[r].status = "CONFIRMED"
    <3>1. row[request[w].ref].status # "CONFIRMED"
      BY <1>7 DEF SaveGid, SerialInv
    <3>2. row \in [Refs -> Row]
      BY DEF IInv, TypeOK
    <3>3. row' = [row EXCEPT ![request[w].ref].gid = request[w].gid]
      BY <1>7 DEF SaveGid
    <3>4. \A r \in Refs : r # request[w].ref => row'[r] = row[r]
      BY <3>2, <3>3
    <3>5. \A r \in Refs : r = request[w].ref => row'[r].status = row[r].status
      BY <3>2, <3>3 DEF Row
    <3> QED
      BY <3>1, <3>4, <3>5
  <2>3. \A r \in Refs : row[r].status = "CONFIRMED" => row'[r] = row[r]
    BY <2>2
  <2>4. \A r \in Refs : row'[r].status = "CONFIRMED" => row[r].status = "CONFIRMED"
    BY <2>2
  <2> QED
    BY <2>1, <2>3, <2>4, SerialDone, Zenon
<1>8. ASSUME NEW w \in Workers, NEW r \in Refs,
            StartConfirm(w, r)
     PROVE  SerialInv'
  BY <1>8 DEF StartConfirm, Begin
<1>9. ASSUME NEW w \in Workers,
            Enquire(w)
     PROVE  SerialInv'
  BY <1>9 DEF Enquire, AfterEnquiry, Done, Continue
<1>10. ASSUME NEW w \in Workers,
            FailSave(w)
     PROVE  SerialInv'
  <2> HIDE DEF IInv, TypeOK, Row, Request, NoRow, NoRequest, Booking, SerialInv, OneAtATime,
               ReceiptMatchesRow, RequestInv, ConfirmedIsSold
  <2>1. Done(w) /\ booking' = booking /\ request[w].step # "confirm"
    BY <1>10 DEF FailSave
  <2>2. \A r \in Refs :
          /\ row[r].status = "CONFIRMED" => row'[r] = row[r]
          /\ row'[r].status = "CONFIRMED" => row[r].status = "CONFIRMED"
    <3>1. row[request[w].ref].status # "CONFIRMED"
      BY <1>10 DEF FailSave, SerialInv
    <3>2. row \in [Refs -> Row]
      BY DEF IInv, TypeOK
    <3>3. row' = [row EXCEPT ![request[w].ref].status = "FAILED"]
      BY <1>10 DEF FailSave
    <3>4. \A r \in Refs : r # request[w].ref => row'[r] = row[r]
      BY <3>2, <3>3
    <3>5. \A r \in Refs : r = request[w].ref => row'[r].status # "CONFIRMED"
      BY <3>2, <3>3 DEF Row
    <3> QED
      BY <3>1, <3>4, <3>5
  <2>3. \A r \in Refs : row[r].status = "CONFIRMED" => row'[r] = row[r]
    BY <2>2
  <2>4. \A r \in Refs : row'[r].status = "CONFIRMED" => row[r].status = "CONFIRMED"
    BY <2>2
  <2> QED
    BY <2>1, <2>3, <2>4, SerialDone, Zenon
<1>11. ASSUME NEW w \in Workers, NEW b \in Bookings,
            Book(w, b)
     PROVE  SerialInv'
  BY <1>11, SerialBook DEF SerialInv
<1>12. ASSUME NEW w \in Workers,
            ConfirmSave(w)
     PROVE  SerialInv'
  BY <1>12, SerialConfirm DEF SerialInv
<1>13. ASSUME NEW w \in Workers, NEW r \in Refs, NEW amount \in Amounts \cup {0},
            StartEdit(w, r, amount)
     PROVE  SerialInv'
  BY <1>13 DEF StartEdit, Begin
<1>14. ASSUME NEW w \in Workers,
            EditSave(w)
     PROVE  SerialInv'
  <2> HIDE DEF IInv, TypeOK, Row, Request, NoRow, NoRequest, Booking, SerialInv, OneAtATime,
               ReceiptMatchesRow, RequestInv, ConfirmedIsSold
  <2>1. Done(w) /\ booking' = booking /\ request[w].step # "confirm"
    BY <1>14 DEF EditSave
  <2>2. \A r \in Refs :
          /\ row[r].status = "CONFIRMED" => row'[r] = row[r]
          /\ row'[r].status = "CONFIRMED" => row[r].status = "CONFIRMED"
    <3>1. row[request[w].ref].status # "CONFIRMED"
      BY <1>14 DEF EditSave, SerialInv
    <3>2. row \in [Refs -> Row]
      BY DEF IInv, TypeOK
    <3>3. row' = [row EXCEPT ![request[w].ref].amount =
                        IF request[w].amount = 0 THEN request[w].seen.amount ELSE request[w].amount]
      BY <1>14 DEF EditSave
    <3>4. \A r \in Refs : r # request[w].ref => row'[r] = row[r]
      BY <3>2, <3>3
    <3>5. \A r \in Refs : r = request[w].ref => row'[r].status = row[r].status
      BY <3>2, <3>3 DEF Row
    <3> QED
      BY <3>1, <3>4, <3>5
  <2>3. \A r \in Refs : row[r].status = "CONFIRMED" => row'[r] = row[r]
    BY <2>2
  <2>4. \A r \in Refs : row'[r].status = "CONFIRMED" => row[r].status = "CONFIRMED"
    BY <2>2
  <2> QED
    BY <2>1, <2>3, <2>4, SerialDone, Zenon
<1>15. ASSUME NEW w \in Workers,
            Abort(w)
     PROVE  SerialInv'
  <2> HIDE DEF IInv, TypeOK, Row, Request, NoRow, NoRequest, Booking, SerialInv, OneAtATime,
               ReceiptMatchesRow, RequestInv, ConfirmedIsSold
  <2>1. Done(w) /\ booking' = booking /\ request[w].step # "confirm" /\ row' = row
    BY <1>15 DEF Abort, OneAtATime
  <2> QED
    BY <2>1, SerialDone
<1>16. CASE UNCHANGED <<row, booking, request>>
  BY <1>16
<1> HIDE DEF SerialInv
<1> QED
  BY <1>1, <1>2, <1>3, <1>4, <1>5, <1>6, <1>7, <1>8, <1>9, <1>10, <1>11, <1>12, <1>13, <1>14, <1>15, <1>16 DEF Next, Handle, vars, SaveConfig, GatewayMove

\* One sale of a fare at a time, so at most one.
LEMMA SerialStepIsSaleStep ==
  ASSUME OneAtATime, IInv, SerialInv, [Next]_vars
  PROVE  [Once!Next]_(Once!vars)
<1>1. [AnyTimes!Next]_(AnyTimes!vars)
  BY StepIsSaleStep
<1>2. ASSUME NEW w \in Workers, NEW b \in Bookings, Book(w, b)
      PROVE  Once!Next
  <2>1. ~Once!Sold(booking'[b].ref)
    <3>1. booking'[b].ref = request[w].ref
      BY <1>2 DEF Book, IInv, TypeOK
    <3>2. row[request[w].ref].status # "CONFIRMED"
      BY <1>2 DEF Book, SerialInv
    <3>3. \A v \in Workers : request[v].step # "confirm"
      BY <1>2 DEF Book, OneAtATime
    <3> QED
      BY <3>1, <3>2, <3>3 DEF SerialInv, Once!Sold
  <2> QED
    BY <1>2, <2>1, BookIsBacked
    DEF Once!Next, Once!Sell, Once!Sale, Once!Backed, AnyTimes!Sale, AnyTimes!Backed
<1>3. CASE UNCHANGED booking
  <2>1. SUFFICES ASSUME AnyTimes!Next PROVE [Once!Next]_(Once!vars)
    BY <1>1 DEF Once!vars, AnyTimes!vars
  <2>2. ASSUME NEW b \in Bookings, NEW s \in AnyTimes!Sale, AnyTimes!Sell(b, s)
        PROVE  UNCHANGED Once!vars
    BY <2>2, <1>3 DEF AnyTimes!Sell, Once!vars
  <2> QED
    BY <2>1, <2>2
    DEF AnyTimes!Next, AnyTimes!Collect, AnyTimes!Payment, Once!Next, Once!Collect,
        Once!Payment, Once!vars
<1> QED
  BY <1>2, <1>3
  DEF Next, Handle, vars, Reserve, StartWalkIn, InsertWalkIn, StartValidate, RejectSave,
      Initiate, SaveGid, StartConfirm, Enquire, FailSave, ConfirmSave, StartEdit, EditSave,
      Abort, SaveConfig, GatewayMove

\* With requests one after the other, a fare is sold at most once.
THEOREM SoldOnceSerially == OneAtATime => (Spec => SoldOnce)
<1> SUFFICES ASSUME OneAtATime PROVE Spec => SoldOnce
  OBVIOUS
<1>1. Init => Once!Init
  BY DEF Init, Once!Init, Payments, NoCheckout, Collected
<1>2. IInv /\ IInv' /\ SerialInv /\ [Next]_vars => SerialInv'
  BY SerialStep
<1>3. IInv /\ SerialInv /\ [Next]_vars => [Once!Next]_(Once!vars)
  BY SerialStepIsSaleStep
<1> QED
  BY <1>1, <1>2, <1>3, InitIInv, NextIInv, SerialInit, PTL DEF Spec, SoldOnce, Once!Spec

\* ... and a CONFIRMED row shows the amount that was sold.
THEOREM ReceiptsMatchSerially == OneAtATime => (Spec => []ReceiptMatchesRow)
<1> SUFFICES ASSUME OneAtATime PROVE Spec => []ReceiptMatchesRow
  OBVIOUS
<1>1. IInv /\ IInv' /\ SerialInv /\ [Next]_vars => SerialInv'
  BY SerialStep
<1>2. SerialInv => ReceiptMatchesRow
  BY DEF SerialInv
<1> QED
  BY <1>1, <1>2, InitIInv, NextIInv, SerialInit, PTL DEF Spec
============================================================================

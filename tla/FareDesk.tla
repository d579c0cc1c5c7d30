------------------------------ MODULE FareDesk ------------------------------
(***************************************************************************)
(* The fare chart of an operator: FaresPage.tsx, and the FareMatrix rows   *)
(* of platform/views.py.  A fare prices a leg of a route for one type of   *)
(* ticket; the model follows one type, and leaves the amounts out.         *)
(*                                                                         *)
(* History of a row: whether a hand ever wrote it, whether the formula     *)
(* made it, whether its import was sent with no stops at hand to check its *)
(* legs by, whether it was written over what its writer had not read.      *)
(***************************************************************************)
EXTENDS Desk, Sequences, SequencesExt

CONSTANTS
    Line,        \* per route, the names of its stops in order
    MaxFares,    \* bound on the fares ever written
    MaxRows,     \* bound on the rows of the import form
    MaxPicks     \* bound on the choices made in the forms

Ids == 1..MaxFares
Routes == DOMAIN Line
Forms == {"add", "edit"}

\* A leg of a route, in either direction; the flat fare has blank stops.
Flat == <<>>
LegsOf == [route \in Routes |-> {leg \in ToSet(Line[route]) \X ToSet(Line[route]) : leg[1] # leg[2]}]
Legs == UNION {LegsOf[route] : route \in Routes}
Back(leg) == <<leg[2], leg[1]>>

Draft == [route: Routes \cup {None}, leg: Legs \cup {Flat}]
Blank == [route |-> None, leg |-> Flat]

Rows == [live: BOOLEAN, route: Routes, leg: Legs \cup {Flat},
         hand: BOOLEAN, formula: BOOLEAN, early: BOOLEAN, slip: BOOLEAN]

\* A route has a stop once, its stops have the names by which a fare tells them.
FareAssumption ==
    /\ MaxFares \in Nat \ {0} /\ MaxRows \in Nat \ {0} /\ None \notin Routes
    /\ \A route \in Routes : LET stops == Line[route] IN
        /\ stops \in Seq(ToSet(stops)) /\ Len(stops) - 1 <= MaxRows
        /\ \A p, q \in DOMAIN stops : stops[p] = stops[q] => p = q

Row(route, leg) == [live |-> TRUE, route |-> route, leg |-> leg,
                    hand |-> FALSE, formula |-> FALSE, early |-> FALSE, slip |-> FALSE]

Whos == {"desk", "gone"}
Phases == {"sent", "read", "ok", "error"}
Fare == [route: Routes, leg: Legs \cup {Flat}]

Requests ==
    [kind: {"add"}, who: Whos, phase: {"sent", "ok"}, route: Routes, leg: Legs \cup {Flat}]
      \cup [kind: {"edit"}, who: Whos, phase: Phases, route: Routes, leg: Legs \cup {Flat}, id: Ids, read: Nat]
      \cup [kind: {"delete"}, who: Whos, phase: {"sent", "ok", "error"}, id: Ids]
      \cup [kind: {"import"}, who: Whos, phase: Phases, route: Routes, rows: Seq(Legs), early: BOOLEAN,
            found: Seq(Ids \cup {0}), read: Nat]
      \cup [kind: {"generate"}, who: Whos, phase: Phases, route: Routes, legs: SUBSET Legs, read: Nat]

\* The numbers of the fares, in the order in which they were made.
TypeOK ==
    /\ db \in Seq(Rows) /\ Len(db) <= MaxFares
    /\ shown \in [{"fares"} -> [DOMAIN shown["fares"] -> Fare]]
    /\ due \subseteq {"fares"} \cup Routes
    /\ dialog \in [kind: {"add", "import", "generate"}, id: {None}]
                     \cup [kind: {"edit", "delete"}, id: Ids] \cup {None}
    /\ form \in [known: SUBSET Routes, add: Draft, edit: Draft,
                  route: Routes \cup {None}, rows: Seq(Legs \cup {Flat})]
    /\ Len(form.rows) \in 1..MaxRows
    /\ wire \subseteq Requests
    /\ hist \in [opens: Nat, sends: Nat, picks: Nat, writes: Nat]

\* No fare yet, or one that the formula made.
Init ==
    /\ db \in {<<>>} \cup {<<[Row(s, <<Line[s][1], Line[s][2]>>) EXCEPT !.formula = TRUE]>> :
                               s \in {t \in Routes : Len(Line[t]) > 1}}
    /\ shown = [fares |-> <<>>]
    /\ due = {"fares"} /\ dialog = None /\ wire = {}
    /\ form = [known |-> {}, add |-> Blank, edit |-> Blank, route |-> None, rows |-> <<Flat>>]
    /\ hist = [opens |-> 0, sends |-> 0, picks |-> 0, writes |-> 0]

Live == {i \in DOMAIN db : db[i].live}

\* ---- the page -----------------------------------------------------------------------

LoadFares == Arrive("fares", [i \in Live |-> [route |-> db[i].route, leg |-> db[i].leg]])

Browse == Ask("fares")

OpenForm(kind) == Open([kind |-> kind, id |-> None])

OpenDelete(i) == Open([kind |-> "delete", id |-> i])

OpenEdit(i) ==
    /\ dialog = None /\ hist.opens < MaxOpens
    /\ dialog' = [kind |-> "edit", id |-> i]
    /\ form' = [form EXCEPT !.edit = shown["fares"][i]]
    /\ due' = due \cup ({shown["fares"][i].route} \ form.known)
    /\ hist' = [hist EXCEPT !.opens = @ + 1]
    /\ UNCHANGED <<db, shown, wire>>

\* The forms keep what they hold.
CloseDialog ==
    /\ dialog # None
    /\ dialog' = None
    /\ UNCHANGED <<db, shown, due, form, wire, hist>>

In(kind) == dialog # None /\ dialog.kind = kind

Pick(kind) ==
    /\ In(kind) /\ hist.picks < MaxPicks
    /\ hist' = [hist EXCEPT !.picks = @ + 1]
    /\ UNCHANGED <<db, shown, dialog, wire>>

\* The route of a single fare; its two stops stay as they were.
ChooseRoute(f, route) ==
    /\ Pick(f)
    /\ form' = [form EXCEPT ![f].route = route]
    /\ due' = due \cup ({route} \ form.known)

ChooseStops(f) ==
    /\ Pick(f)
    /\ \E leg \in {Flat} \cup IF form[f].route \in form.known THEN LegsOf[form[f].route] ELSE {} :
        form' = [form EXCEPT ![f].leg = leg]
    /\ UNCHANGED due

\* A slip: rows that were filled are kept.
SuggestedOnce(rows, route) ==
    IF Len(Line[route]) < 2 \/ rows # <<Flat>> THEN rows
    ELSE [k \in 1..(Len(Line[route]) - 1) |-> <<Line[route][k], Line[route][k + 1]>>]

\* The effect on the stops of the import form's route: one row per leg.
Suggested(rows, route) ==
    IF Len(Line[route]) < 2 THEN rows
    ELSE [k \in 1..(Len(Line[route]) - 1) |-> <<Line[route][k], Line[route][k + 1]>>]

ChooseImportRoute(route) ==
    /\ Pick("import") /\ route # form.route
    /\ form' = [form EXCEPT !.route = route,
                            !.rows = IF route \in form.known THEN Suggested(@, route) ELSE @]
    /\ due' = due \cup ({route} \ form.known)

StopsFound(route) ==
    /\ route \in due
    /\ due' = due \ {route}
    /\ form' = [form EXCEPT !.known = @ \cup {route},
                            !.rows = IF form.route = route THEN Suggested(@, route) ELSE @]
    /\ UNCHANGED <<db, shown, dialog, wire, hist>>

EditRow(k) ==
    /\ Pick("import") /\ form.route \in form.known
    /\ \E leg \in LegsOf[form.route] : form' = [form EXCEPT !.rows[k] = leg]
    /\ UNCHANGED due

AppendRow ==
    /\ Pick("import") /\ Len(form.rows) < MaxRows
    /\ form' = [form EXCEPT !.rows = Append(@, Flat)]
    /\ UNCHANGED due

\* A slip: the last row can be removed too.
RemoveAnyRow(k) ==
    /\ Pick("import")
    /\ form' = [form EXCEPT !.rows = RemoveAt(@, k)]
    /\ UNCHANGED due

RemoveRow(k) ==
    /\ Pick("import") /\ Len(form.rows) > 1
    /\ form' = [form EXCEPT !.rows = RemoveAt(@, k)]
    /\ UNCHANGED due

SubmitAdd ==
    /\ In("add") /\ ~Pending("add") /\ form.add.route # None
    /\ Send([kind |-> "add", who |-> "desk", phase |-> "sent", route |-> form.add.route, leg |-> form.add.leg])
    /\ UNCHANGED <<db, shown, due, dialog, form>>

SubmitEdit ==
    /\ In("edit") /\ ~Pending("edit")
    /\ Send([kind |-> "edit", who |-> "desk", phase |-> "sent", route |-> form.edit.route, leg |-> form.edit.leg,
             id |-> dialog.id, read |-> 0])
    /\ UNCHANGED <<db, shown, due, dialog, form>>

SubmitDelete ==
    /\ In("delete") /\ ~Pending("delete")
    /\ Send([kind |-> "delete", who |-> "desk", phase |-> "sent", id |-> dialog.id])
    /\ UNCHANGED <<db, shown, due, dialog, form>>

SubmitImport ==
    /\ In("import") /\ ~Pending("import")
    /\ form.route # None /\ Flat \notin ToSet(form.rows)
    /\ Send([kind |-> "import", who |-> "desk", phase |-> "sent", route |-> form.route, rows |-> form.rows,
             early |-> form.route \notin form.known \/ Len(Line[form.route]) < 2, found |-> <<>>, read |-> 0])
    /\ UNCHANGED <<db, shown, due, dialog, form>>

SubmitGenerate(route) ==
    /\ In("generate") /\ ~Pending("generate")
    /\ Send([kind |-> "generate", who |-> "desk", phase |-> "sent", route |-> route, legs |-> {}, read |-> 0])
    /\ UNCHANGED <<db, shown, due, dialog, form>>

\* ---- the server -------------------------------------------------------------------------

\* Others wrote between what a request read and its own write.
Late(r) == r.read # hist.writes

\* Writes are counted as long as somebody else holds what he read.
Counted(r) == IF \E q \in wire \ {r} : q.phase = "read" THEN hist.writes + 1 ELSE 0

Commit(r, rows) ==
    /\ Len(rows) <= MaxFares
    /\ db' = rows
    /\ hist' = [hist EXCEPT !.writes = Counted(r)]
    /\ Answer(r, "ok")
    /\ UNCHANGED <<shown, due, dialog, form>>

Refuse(r) ==
    /\ Answer(r, "error")
    /\ UNCHANGED <<db, shown, due, dialog, form, hist>>

\* create: nothing looks for another fare of the leg.
ServeAdd(r) ==
    /\ r.kind = "add" /\ r.phase = "sent"
    /\ Commit(r, Append(db, [Row(r.route, r.leg) EXCEPT !.hand = TRUE]))

ServeDelete(r) ==
    /\ r.kind = "delete" /\ r.phase = "sent"
    /\ IF db[r.id].live THEN Commit(r, [db EXCEPT ![r.id].live = FALSE]) ELSE Refuse(r)

\* update: get_object, then a save that inserts the row again if it is gone.
ReadEdit(r) ==
    /\ r.kind = "edit" /\ r.phase = "sent"
    /\ IF db[r.id].live
       THEN /\ Replace(r, [r EXCEPT !.phase = "read", !.read = hist.writes])
            /\ UNCHANGED <<db, shown, due, dialog, form, hist>>
       ELSE Refuse(r)

Edited(r) == [db[r.id] EXCEPT !.live = TRUE, !.route = r.route, !.leg = r.leg,
                              !.hand = TRUE, !.formula = FALSE, !.slip = @ \/ Late(r)]

SaveEdit(r) ==
    /\ r.kind = "edit" /\ r.phase = "read"
    /\ Commit(r, [db EXCEPT ![r.id] = Edited(r)])

\* bulk_import: per row of the form, the fare of that very leg, 0 for none;
\* all rows are looked up before any is written.
Priced(route, leg) == {i \in Live : db[i].route = route /\ db[i].leg = leg}

ReadImport(r) ==
    /\ r.kind = "import" /\ r.phase = "sent"
    /\ \E found \in [DOMAIN r.rows -> DOMAIN db \cup {0}] :
        /\ \A k \in DOMAIN r.rows :
            LET there == Priced(r.route, r.rows[k]) IN IF there = {} THEN found[k] = 0 ELSE found[k] \in there
        /\ Replace(r, [r EXCEPT !.phase = "read", !.read = hist.writes, !.found = found])
    /\ UNCHANGED <<db, shown, due, dialog, form, hist>>

\* A row of the form goes to the fare it found, or to the next number.
Positions(r, n) ==
    {place \in [DOMAIN r.rows -> 1..n] :
        /\ \A k \in DOMAIN r.rows : IF r.found[k] = 0 THEN place[k] > Len(db) ELSE place[k] = r.found[k]
        /\ \A k, m \in DOMAIN r.rows : r.found[k] = 0 /\ r.found[m] = 0 /\ k < m => place[k] < place[m]
        /\ \A i \in (Len(db) + 1)..n : \E k \in DOMAIN r.rows : place[k] = i}

\* The fare written by some rows of the form, which are of one leg.
Import(r, from, i) ==
    LET old == i \in DOMAIN db IN
    [Row(r.route, r.rows[CHOOSE k \in from : TRUE]) EXCEPT
        !.hand = old /\ db[i].hand,
        !.early = r.early,
        !.slip = \/ Late(r)
                 \/ old /\ db[i].slip
                 \/ \E k \in from, m \in DOMAIN r.rows : m < k /\ r.rows[m] = r.rows[k]]

SaveImport(r) ==
    /\ r.kind = "import" /\ r.phase = "read"
    /\ \E n \in Len(db)..MaxFares : \E place \in Positions(r, n) :
        Commit(r, [i \in 1..n |-> LET from == {k \in DOMAIN r.rows : place[k] = i}
                                  IN IF from = {} THEN db[i] ELSE Import(r, from, i)])

\* generate_from_formula: the pairs of stops with no fare in either direction.
Ahead(route) ==
    LET stops == Line[route]
    IN {<<stops[p[1]], stops[p[2]]>> : p \in {q \in (DOMAIN stops) \X (DOMAIN stops) : q[1] < q[2]}}

\* A slip: a fare of the way back is not seen.
UnpricedAhead(route) == {leg \in Ahead(route) : Priced(route, leg) = {}}

Unpriced(route) == {leg \in Ahead(route) : Priced(route, leg) \cup Priced(route, Back(leg)) = {}}

ReadGenerate(r) ==
    /\ r.kind = "generate" /\ r.phase = "sent"
    /\ IF Len(Line[r.route]) < 2 THEN Refuse(r)
       ELSE /\ Replace(r, [r EXCEPT !.phase = "read", !.read = hist.writes, !.legs = Unpriced(r.route)])
            /\ UNCHANGED <<db, shown, due, dialog, form, hist>>

\* One fare per leg, in whatever order.
SaveGenerate(r) ==
    /\ r.kind = "generate" /\ r.phase = "read"
    /\ \E n \in Len(db)..MaxFares : \E leg \in [(Len(db) + 1)..n -> r.legs] :
        /\ \A l \in r.legs : \E i \in DOMAIN leg : leg[i] = l
        /\ \A i, j \in DOMAIN leg : leg[i] = leg[j] => i = j
        /\ Commit(r, [i \in 1..n |-> IF i <= Len(db) THEN db[i]
                                     ELSE [Row(r.route, leg[i]) EXCEPT !.formula = TRUE, !.slip = Late(r)]])

\* ---- the page hears of it -----------------------------------------------------------------------

Succeed(r) ==
    /\ r.phase = "ok" /\ Settle(r)
    /\ dialog' = IF In(r.kind) THEN None ELSE dialog
    /\ form' = CASE r.kind = "add" -> [form EXCEPT !.add = Blank]
                 [] r.kind = "import" -> [form EXCEPT !.route = None, !.rows = <<Flat>>]
                 [] OTHER -> form
    /\ Invalidate({"fares"})
    /\ UNCHANGED <<db, shown, hist>>

Fail(r) ==
    /\ r.phase = "error" /\ Settle(r)
    /\ UNCHANGED <<db, shown, due, dialog, form, hist>>

Next ==
    \/ LoadFares \/ Browse \/ CloseDialog \/ AppendRow
    \/ SubmitAdd \/ SubmitEdit \/ SubmitDelete \/ SubmitImport \/ GiveUp
    \/ \E kind \in {"add", "import", "generate"} : OpenForm(kind)
    \/ \E i \in DOMAIN shown["fares"] : OpenEdit(i) \/ OpenDelete(i)
    \/ \E f \in Forms : ChooseStops(f) \/ \E route \in Routes : ChooseRoute(f, route)
    \/ \E route \in Routes : ChooseImportRoute(route) \/ StopsFound(route) \/ SubmitGenerate(route)
    \/ \E k \in DOMAIN form.rows : EditRow(k) \/ RemoveRow(k)
    \/ \E r \in wire : \/ ServeAdd(r) \/ ServeDelete(r) \/ ReadEdit(r) \/ SaveEdit(r)
                       \/ ReadImport(r) \/ SaveImport(r) \/ ReadGenerate(r) \/ SaveGenerate(r)
                       \/ Succeed(r) \/ Fail(r)

Spec == Init /\ [][Next]_deskVars

\* ---- what it promises ----------------------------------------------------------------------------

\* A leg is priced twice only if a hand priced it or a writer had not read the
\* other: an import updates the fare of its leg, the formula leaves a leg alone
\* that has a fare, be it of the way back.
PricedTwiceKnowingly ==
    \A i, j \in Live :
        /\ i < j /\ db[i].route = db[j].route
        /\ db[i].leg = db[j].leg \/ (db[j].formula /\ db[i].leg = Back(db[j].leg))
        => \E k \in {i, j} : db[k].hand \/ db[k].slip

\* What was imported or generated prices legs of its own route, unless it was
\* imported before the stops of that route were there to choose from.
ImportsFitTheRoute ==
    \A i \in Live : db[i].hand \/ db[i].early \/ db[i].leg \in LegsOf[db[i].route]

\* ---- why it holds: true of every state, and kept by every step -----------------------------------

\* The page speaks of fares there are, and has no leg of another route in the
\* import form once it knows the stops.
PageInv ==
    /\ DOMAIN shown["fares"] \subseteq DOMAIN db
    /\ In("edit") \/ In("delete") => dialog.id \in DOMAIN db
    /\ In("edit") => form.edit.route # None
    /\ form.route \in form.known /\ Len(Line[form.route]) > 1
          => ToSet(form.rows) \subseteq LegsOf[form.route] \cup {Flat}

\* What a request has read still is so, unless others wrote since.
Knows(r) ==
    /\ r.kind = "import" =>
        \A k \in DOMAIN r.rows : LET there == Priced(r.route, r.rows[k])
                                 IN IF r.found[k] = 0 THEN there = {} ELSE r.found[k] \in there
    /\ r.kind = "generate" => r.legs \subseteq Unpriced(r.route)

Sound(r) ==
    /\ r.kind \in {"edit", "delete"} => r.id \in DOMAIN db
    /\ r.kind = "import" /\ ~r.early => ToSet(r.rows) \subseteq LegsOf[r.route]
    /\ r.phase = "read" =>
        /\ r.read <= hist.writes
        /\ r.kind = "import" => Len(r.found) = Len(r.rows) /\ ToSet(r.found) \subseteq DOMAIN db \cup {0}
        /\ r.kind = "generate" => r.legs \subseteq Ahead(r.route)
        /\ ~Late(r) => Knows(r)

WireInv == \A r \in wire : Sound(r)

IInv == TypeOK /\ PageInv /\ WireInv /\ PricedTwiceKnowingly /\ ImportsFitTheRoute
=============================================================================

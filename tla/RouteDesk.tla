----------------------------- MODULE RouteDesk -----------------------------
(***************************************************************************)
(* Drawing a route: the create, edit and delete dialogs of RoutesPage.tsx, *)
(* its two search boxes (PlaceSearchInput.tsx), and the routes of          *)
(* platform/views.py.                                                      *)
(*                                                                         *)
(* A path is known by what it was found for: the pair of places asked of   *)
(* the directions service, and whether a hand has changed it since; fewer  *)
(* than two points are no path.  `early` is history of a request: its path *)
(* was sent before the directions between its ends had come, or after they *)
(* had failed to.                                                          *)
(***************************************************************************)
EXTENDS Desk

CONSTANTS
    Places,
    MaxAsks,     \* bound on the places looked up
    MaxRoutes    \* bound on the routes ever created

Ids == 1..MaxRoutes
Boxes == {"start", "end"}
Ends == [Boxes -> Places \cup {None}]
NoEnds == [b \in Boxes |-> None]
Complete(ends) == \A b \in Boxes : ends[b] # None

Path == [of: Ends, hand: BOOLEAN]
Paths == Path \cup {None}
Row == [state: {"bare", "locked", "deleted"}, ends: {e \in Ends : Complete(e)}, path: Paths, early: BOOLEAN]

Draft == [text |-> NoEnds, pick |-> NoEnds, path |-> None, options |-> None, failed |-> FALSE]

\* NULL is not a place, and there is room for the routes of the start.
RouteAssumption == None \notin Places /\ MaxRoutes \in Nat /\ MaxRoutes >= 2

Drafts == [text: Ends, pick: Ends, path: Paths, options: Ends \cup {None}, failed: BOOLEAN]
Forms == [draft: Drafts, places: SUBSET [box: Boxes, place: Places], roads: SUBSET [of: Ends, live: BOOLEAN],
          edit: Paths]
Dialogs == [kind: {"create"}, id: {None}] \cup [kind: {"edit", "delete"}, id: Ids]
             \cup [kind: {"view"}, id: Ids, seen: Paths]

Creates == [kind: {"create"}, who: {"desk", "gone"}, phase: {"sent"}, ends: {e \in Ends : Complete(e)},
            path: Path, early: BOOLEAN]
Created == [kind: {"create"}, who: {"desk", "gone"}, phase: {"read", "ok", "error"}, id: Ids]
Updates == [kind: {"update"}, who: {"desk", "gone"}, phase: {"sent", "ok", "error"}, id: Ids, path: Paths]
Deletes == [kind: {"delete"}, who: {"desk", "gone"}, phase: {"sent", "ok", "error"}, id: Ids]

TypeOK ==
    /\ DOMAIN db \subseteq Ids /\ \A i \in DOMAIN db : db[i] \in Row
    /\ \A i \in DOMAIN shown["routes"] : shown["routes"][i] \in Paths
    /\ due \subseteq {"routes"}
    /\ dialog = None \/ dialog \in Dialogs
    /\ form \in Forms
    /\ wire \subseteq Creates \cup Created \cup Updates \cup Deletes
    /\ hist \in [opens: Nat, sends: Nat, asks: Nat, crossed: BOOLEAN]

\* Two routes, there and back.
Init ==
    /\ \E ends \in Ends :
        /\ Complete(ends) /\ ends["start"] # ends["end"]
        /\ db = [i \in 1..2 |->
                   LET own == IF i = 1 THEN ends ELSE [start |-> ends["end"], end |-> ends["start"]]
                   IN [state |-> "locked", ends |-> own, path |-> [of |-> own, hand |-> FALSE], early |-> FALSE]]
    /\ shown = [k \in {"routes"} |-> [i \in {} |-> None]]
    /\ due = {"routes"} /\ dialog = None /\ wire = {}
    /\ form = [draft |-> Draft, places |-> {}, roads |-> {}, edit |-> None]
    /\ hist = [opens |-> 0, sends |-> 0, asks |-> 0, crossed |-> FALSE]

\* ---- the page -------------------------------------------------------------------

LoadRoutes == Arrive("routes", [i \in {j \in DOMAIN db : db[j].state # "deleted"} |-> db[i].path])

Browse == Ask("routes")

HandleOpen == Open([kind |-> "create", id |-> None])

\* The handlers of the page's own state.
Page(f) ==
    /\ form' = f
    /\ UNCHANGED <<db, shown, due, dialog, wire>>

Creating == dialog # None /\ dialog.kind = "create"

\* PlaceSearchInput: a result is chosen, the box shows its name at once and
\* its coordinates are asked for; a box that asks again does not forget the
\* first answer.
HandleSelect(b, p) ==
    /\ Creating
    /\ hist.asks < MaxAsks
    /\ [box |-> b, place |-> p] \notin form.places
    /\ Page([form EXCEPT !.draft.text[b] = p, !.places = @ \cup {[box |-> b, place |-> p]}])
    /\ hist' = [hist EXCEPT !.asks = @ + 1]

\* The effect on routeStart and routeEnd: the directions asked for before are
\* cancelled, those between the present ends are asked for.
Cancelled(roads) == {[q EXCEPT !.live = FALSE] : q \in roads}

\* A slip: the directions asked for before are not cancelled.
AskRoadsBeside(pick, roads) == roads \cup (IF Complete(pick) THEN {[of |-> pick, live |-> TRUE]} ELSE {})

AskRoads(pick, roads) ==
    Cancelled(roads) \cup (IF Complete(pick) THEN {[of |-> pick, live |-> TRUE]} ELSE {})

\* onSelect, whether or not the box still shows the place or is still there.
PlaceFound(q) ==
    /\ q \in form.places
    /\ LET pick == [form.draft.pick EXCEPT ![q.box] = q.place]
       IN Page([form EXCEPT !.draft.pick = pick, !.draft.failed = FALSE,
                            !.places = @ \ {q}, !.roads = AskRoads(pick, @)])
    /\ hist' = [hist EXCEPT !.crossed = @ \/ form.draft.text[q.box] # q.place]

PlaceLost(q) ==
    /\ q \in form.places
    /\ Page([form EXCEPT !.places = @ \ {q}])
    /\ hist' = [hist EXCEPT !.crossed = TRUE]

RoadsFound(q) ==
    /\ q \in form.roads
    /\ Page([form EXCEPT !.roads = @ \ {q},
                         !.draft = IF q.live THEN [@ EXCEPT !.options = q.of, !.path = [of |-> q.of, hand |-> FALSE]]
                                             ELSE @])
    /\ UNCHANGED hist

\* No road: the path that was there stays.
RoadsLost(q) ==
    /\ q \in form.roads
    /\ Page([form EXCEPT !.roads = @ \ {q},
                         !.draft = IF q.live THEN [@ EXCEPT !.options = None, !.failed = TRUE] ELSE @])
    /\ UNCHANGED hist

\* Another of the roads suggested.
ChooseOption ==
    /\ Creating /\ form.draft.options # None
    /\ Page([form EXCEPT !.draft.path = [of |-> form.draft.options, hand |-> FALSE]])
    /\ UNCHANGED hist

ByHand(path) == [of |-> IF path = None THEN NoEnds ELSE path.of, hand |-> TRUE]

\* A click on the map, a point dragged or undone; all points cleared.
Redraw ==
    /\ Creating
    /\ \E path \in {None, ByHand(form.draft.path)} :
        path # form.draft.path /\ Page([form EXCEPT !.draft.path = path])
    /\ UNCHANGED hist

RedrawEdit ==
    /\ dialog # None /\ dialog.kind = "edit"
    /\ \E path \in {None, ByHand(form.edit)} :
        path # form.edit /\ Page([form EXCEPT !.edit = path])
    /\ UNCHANGED hist

\* resetRouteDraft; the boxes go with the modal, what they asked for does not.
Reset == [form EXCEPT !.draft = Draft, !.roads = Cancelled(@)]

SubmitRoute ==
    /\ Creating /\ ~Pending("create")
    /\ form.draft.path # None /\ Complete(form.draft.pick)
    /\ Send([kind |-> "create", who |-> "desk", phase |-> "sent", ends |-> form.draft.pick, path |-> form.draft.path,
             early |-> form.draft.failed \/ \E q \in form.roads : q.live])
    /\ UNCHANGED <<db, shown, due, dialog, form>>

\* A slip: a form that is filled is left as it is.
SeedOnce(i) == IF form.edit = None THEN shown["routes"][i] ELSE form.edit

\* The edit form is filled from the row by an effect.
Seed(i) == shown["routes"][i]

\* The row buttons.
OpenEdit(i) ==
    /\ dialog = None /\ hist.opens < MaxOpens
    /\ dialog' = [kind |-> "edit", id |-> i]
    /\ form' = [form EXCEPT !.edit = Seed(i)]
    /\ hist' = [hist EXCEPT !.opens = @ + 1]
    /\ UNCHANGED <<db, shown, due, wire>>

OpenDelete(i) == Open([kind |-> "delete", id |-> i])

OpenView(i) == Open([kind |-> "view", id |-> i, seen |-> shown["routes"][i]])

\* The details stay those of the row as it was when they were opened; their
\* Edit button goes on with that row.
EditViewed ==
    /\ dialog # None /\ dialog.kind = "view"
    /\ dialog' = [kind |-> "edit", id |-> dialog.id]
    /\ form' = [form EXCEPT !.edit = dialog.seen]
    /\ UNCHANGED <<db, shown, due, wire, hist>>

CloseDialog ==
    /\ dialog # None
    /\ dialog' = None
    /\ form' = IF Creating THEN Reset ELSE form
    /\ UNCHANGED <<db, shown, due, wire, hist>>

SubmitUpdate ==
    /\ dialog # None /\ dialog.kind = "edit" /\ ~Pending("update")
    /\ Send([kind |-> "update", who |-> "desk", phase |-> "sent", id |-> dialog.id, path |-> form.edit])
    /\ UNCHANGED <<db, shown, due, dialog, form>>

SubmitDelete ==
    /\ dialog # None /\ dialog.kind = "delete" /\ ~Pending("delete")
    /\ Send([kind |-> "delete", who |-> "desk", phase |-> "sent", id |-> dialog.id])
    /\ UNCHANGED <<db, shown, due, dialog, form>>

\* ---- the server -------------------------------------------------------------------

\* perform_create: the route first ...
ServeCreate(r) ==
    /\ r.kind = "create" /\ r.phase = "sent"
    /\ LET id == Cardinality(DOMAIN db) + 1 IN
       /\ id \in Ids
       /\ db' = [i \in DOMAIN db \cup {id} |->
                   IF i \in DOMAIN db THEN db[i]
                   ELSE [state |-> "bare", ends |-> r.ends, path |-> r.path, early |-> r.early]]
       /\ Replace(r, [kind |-> "create", who |-> r.who, phase |-> "read", id |-> id])
    /\ UNCHANGED <<shown, due, dialog, form, hist>>

\* ... then its two end stops, numbered 1 and 2, unless the route is gone or a
\* stop was added to it meanwhile.
SaveEnds(r) ==
    /\ r.kind = "create" /\ r.phase = "read"
    /\ \/ /\ db[r.id].state = "bare"
          /\ db' = [db EXCEPT ![r.id].state = "locked"]
          /\ Answer(r, "ok")
       \/ Answer(r, "error") /\ UNCHANGED db
    /\ UNCHANGED <<shown, due, dialog, form, hist>>

\* PATCH: a form with no path to send leaves the path alone.
ServeUpdate(r) ==
    /\ r.kind = "update" /\ r.phase = "sent"
    /\ IF db[r.id].state = "deleted"
       THEN Answer(r, "error") /\ UNCHANGED db
       ELSE /\ Answer(r, "ok")
            /\ db' = IF r.path = None THEN db ELSE [db EXCEPT ![r.id].path = r.path]
    /\ UNCHANGED <<shown, due, dialog, form, hist>>

ServeDelete(r) ==
    /\ r.kind = "delete" /\ r.phase = "sent"
    /\ Answer(r, IF db[r.id].state = "deleted" THEN "error" ELSE "ok")
    /\ db' = [db EXCEPT ![r.id].state = "deleted"]
    /\ UNCHANGED <<shown, due, dialog, form, hist>>

\* ---- the page hears of it ----------------------------------------------------------------

\* Whichever dialog of its kind is open is closed; a created route resets the
\* draft, the one it was made from or the next.
Succeed(r) ==
    /\ r.phase = "ok" /\ Settle(r)
    /\ dialog' = IF dialog # None /\ r.kind = (IF dialog.kind = "edit" THEN "update" ELSE dialog.kind)
                 THEN None ELSE dialog
    /\ form' = IF r.kind = "create" THEN Reset ELSE form
    /\ Invalidate({"routes"})
    /\ UNCHANGED <<db, shown, hist>>

Fail(r) ==
    /\ r.phase = "error" /\ Settle(r)
    /\ UNCHANGED <<db, shown, due, dialog, form, hist>>

Next ==
    \/ LoadRoutes \/ Browse \/ HandleOpen \/ ChooseOption \/ Redraw \/ RedrawEdit \/ EditViewed \/ SubmitRoute \/ CloseDialog
    \/ SubmitUpdate \/ SubmitDelete \/ GiveUp
    \/ \E b \in Boxes, p \in Places : HandleSelect(b, p)
    \/ \E q \in form.places : PlaceFound(q) \/ PlaceLost(q)
    \/ \E q \in form.roads : RoadsFound(q) \/ RoadsLost(q)
    \/ \E i \in DOMAIN shown["routes"] : OpenEdit(i) \/ OpenView(i) \/ OpenDelete(i)
    \/ \E r \in wire : \/ ServeCreate(r) \/ SaveEnds(r) \/ ServeUpdate(r) \/ ServeDelete(r)
                       \/ Succeed(r) \/ Fail(r)

Spec == Init /\ [][Next]_deskVars

\* ---- what it promises -----------------------------------------------------------------------

\* The draft is of a piece.  Its ends are the places its boxes show, once they
\* are answered, unless an answer was for what its box no longer shows, or did
\* not come; the road drawn leads between its ends, unless a hand drew it or
\* those directions are still to come or could not be had.
DraftIsOfAPiece ==
    /\ form.places = {} => hist.crossed \/ form.draft.pick = form.draft.text
    /\ form.draft.path # None => \/ form.draft.path.hand \/ form.draft.failed
                                 \/ form.draft.path.of = form.draft.pick
                                 \/ \E q \in form.roads : q.live

\* A stored route follows a road between its own ends, unless a hand drew it
\* or it was sent early; editing one route never gives it another's road.
StoredPathFits ==
    \A i \in DOMAIN db : db[i].path # None => \/ db[i].path.hand \/ db[i].early
                                              \/ db[i].path.of = db[i].ends

\* ---- why it keeps it --------------------------------------------------------------------------

Live == \E q \in form.roads : q.live

\* What a box shows is asked for until it is answered, only the directions asked
\* for last are awaited, and a road of the draft leads between its ends unless
\* they changed since, and then others are on their way or were not to be had.
DraftInv ==
    /\ hist.crossed \/ \A b \in Boxes : \/ form.draft.pick[b] = form.draft.text[b]
                                        \/ [box |-> b, place |-> form.draft.text[b]] \in form.places
    /\ \A q \in form.roads : q.live => q.of = form.draft.pick /\ Complete(form.draft.pick)
    /\ form.draft.path # None /\ ~form.draft.path.hand =>
          Complete(form.draft.pick) /\ (form.draft.failed \/ form.draft.path.of = form.draft.pick \/ Live)
    /\ form.draft.options # None =>
          Complete(form.draft.pick) /\ (form.draft.failed \/ form.draft.options = form.draft.pick \/ Live)

\* A path route i may have.
Fits(rows, i, path) ==
    /\ i \in DOMAIN rows
    /\ path # None => path.hand \/ rows[i].early \/ path.of = rows[i].ends

StoreInv == \A i \in DOMAIN db : Fits(db, i, db[i].path)

\* The page and the requests hold no path of a route but one that it may have.
PageInv ==
    /\ shown = [k \in {"routes"} |-> shown[k]]
    /\ \A i \in DOMAIN shown["routes"] : Fits(db, i, shown["routes"][i])
    /\ dialog # None /\ dialog.kind = "edit" => Fits(db, dialog.id, form.edit)
    /\ dialog # None /\ dialog.kind = "view" => Fits(db, dialog.id, dialog.seen)
    /\ dialog # None /\ dialog.kind = "delete" => dialog.id \in DOMAIN db

WireInv ==
    \A r \in wire :
        /\ r.kind = "create" /\ r.phase = "sent" => r.path.hand \/ r.early \/ r.path.of = r.ends
        /\ (r.kind = "create" /\ r.phase # "sent") \/ r.kind = "delete" => r.id \in DOMAIN db
        /\ r.kind = "update" => Fits(db, r.id, r.path)

IInv == TypeOK /\ DraftInv /\ StoreInv /\ PageInv /\ WireInv
=============================================================================

------------------------------ MODULE StopDesk ------------------------------
(***************************************************************************)
(* Adding stops to a route: the map dialog of StopsPage.tsx, the stop      *)
(* operations of RouteViewSet and StopViewSet (platform/views.py).         *)
(*                                                                         *)
(* A place is the index of a point of the route's path, to which the page  *)
(* snaps every click.  A stop keeps its number for good; its `seq` is its  *)
(* sequence_no while it is on the route.  The field `fresh` of a pin and   *)
(* of a request is history: nothing was written to the route since the     *)
(* place was computed from what the server really had.                     *)
(***************************************************************************)
EXTENDS Desk, Sequences

CONSTANTS
    Length,      \* points of the path
    Hints,       \* places sampled as suggested stops when the route was drawn
    MaxStops     \* bound on the stops ever created

Points == 1..Length
Ids == 1..MaxStops
Ends == Ids \cup {None}

\* There are points, places on them, and numbers for the two ends of a route.
StopAssumption ==
    /\ Length \in Nat \ {0} /\ Hints \subseteq Points
    /\ MaxStops \in Nat /\ MaxStops >= 2 /\ None \notin Ids

Stops == db.stops
OnRoute == {i \in DOMAIN Stops : Stops[i].state = "on"}

One(S) == IF S = {} THEN None ELSE CHOOSE i \in S : TRUE
Lowest(S) == {i \in S : \A j \in S : Stops[i].seq <= Stops[j].seq}
Highest(S) == {i \in S : \A j \in S : Stops[j].seq <= Stops[i].seq}
FirstStop == One(Lowest(OnRoute))
LastStop == One(Highest(OnRoute))

\* A route lists its stops by sequence_no (RouteStop.Meta.ordering): the order
\* of a list is in its numbers.
Listing == {[id |-> i, at |-> Stops[i].at, seq |-> Stops[i].seq] : i \in OnRoute}

AddModal == [kind |-> "add", id |-> None]

Blank == [pin |-> None, applying |-> None, saved |-> {}]

Entry == [id: Ids, at: Points, seq: Nat]
Pins == [at: Points, seq: Nat, fresh: BOOLEAN]
Whos == {"desk", "other", "gone"}
Phases == {"sent", "read", "ok", "error"}

Requests ==
    [kind: {"add"}, who: Whos, phase: Phases, fresh: BOOLEAN, at: Points, seq: Nat,
     id: Ends, shift: [Ids -> Nat], append: BOOLEAN, start: Ends, end: Ends]
      \cup [kind: {"remove"}, who: Whos, phase: Phases \ {"read"}, id: Ids, session: BOOLEAN]
      \cup [kind: {"delete"}, who: Whos, phase: Phases \ {"read"}, id: Ids]
      \cup [kind: {"dismiss"}, who: Whos, phase: Phases \ {"read"}, hint: Hints]

TypeOK ==
    /\ db \in [stops: Seq([at: Points, seq: Nat, state: {"on", "loose", "deleted"}]),
               start: Ends, end: Ends, locked: BOOLEAN, hints: SUBSET Hints]
    /\ Len(Stops) <= MaxStops
    /\ shown \in [{"routes"} -> SUBSET Entry] /\ due \subseteq {"routes"}
    /\ dialog \in [kind: {"add"}, id: {None}] \cup [kind: {"delete"}, id: Ids] \cup {None}
    /\ form \in [pin: Pins \cup {None}, applying: Hints \cup {None}, saved: SUBSET Entry]
    /\ wire \subseteq Requests
    /\ hist \in [opens: Nat, sends: Nat, stale: BOOLEAN]

\* A route drawn with its start and end picked, drawn without, and one of those
\* with two stops.
Init ==
    /\ \E locked, two \in BOOLEAN :
        /\ locked => two
        /\ db = [stops |-> IF two THEN <<[at |-> 1, seq |-> 1, state |-> "on"],
                                         [at |-> Length, seq |-> 2, state |-> "on"]>>
                                  ELSE <<>>,
                 start |-> IF two THEN 1 ELSE None, end |-> IF two THEN 2 ELSE None,
                 locked |-> locked, hints |-> Hints]
    /\ shown = [routes |-> Listing]   \* no route can be chosen before they are loaded
    /\ due = {} /\ dialog = None /\ form = Blank /\ wire = {}
    /\ hist = [opens |-> 0, sends |-> 0, stale |-> FALSE]

\* ---- the page -------------------------------------------------------------------

LoadRoutes == Arrive("routes", Listing)

Browse == Ask("routes")

\* A slip: the new stop takes the number of the one it follows.
InPlaceOf(e) == e.seq

NextTo(e) == e.seq + 1

\* computeSnappedPosition sorts the listed stops and, behind them, those saved in
\* this session, by their places; the last one up to p is the closest.
Closest(listed, saved, p) ==
    LET near(S) == {e \in S : e.at <= p}
    IN {e \in near(listed) :
            /\ \A f \in near(listed) : f.at < e.at \/ (f.at = e.at /\ f.seq <= e.seq)
            /\ \A f \in near(saved) : f.at < e.at}
         \cup {e \in near(saved) :
            /\ \A f \in near(saved) : f.at < e.at \/ (f.at = e.at /\ f.id <= e.id)
            /\ \A f \in near(listed) : f.at <= e.at}

\* The number is the next one; the first if no stop is that near the start;
\* undefined, 0 here, if there is none at all.
Numbers(listed, saved, p) ==
    LET existing == listed \cup saved
    IN IF existing = {} THEN {0}
       ELSE IF \A e \in existing : e.at > p THEN {1}
       ELSE {NextTo(e) : e \in Closest(listed, saved, p)}

\* What the page knows is what the server has, and no stop saved in this session
\* hides a listed one behind it at the same place.
InSync ==
    /\ shown["routes"] = Listing
    /\ \A s \in form.saved : /\ s \in Listing
                             /\ \A e \in Listing : e.at = s.at => e.seq <= s.seq

PutPin(p, applying) ==
    /\ dialog = AddModal
    /\ \E n \in Numbers(shown["routes"], form.saved, p) :
        form' = [form EXCEPT !.pin = [at |-> p, seq |-> n, fresh |-> InSync], !.applying = applying]
    /\ UNCHANGED <<db, shown, due, dialog, wire, hist>>

\* The add dialog opens on a route chosen in it.
HandleOpen == Open(AddModal)

\* Choosing the route anew, cancelling the pin, closing the modal: the pin is
\* dropped, whatever is under way for it.
Forget(kept, d) ==
    /\ dialog = AddModal
    /\ form' = [Blank EXCEPT !.saved = kept]
    /\ dialog' = d
    /\ UNCHANGED <<db, shown, due, wire, hist>>

SelectRoute == form # Blank /\ Forget({}, AddModal)
CancelPin == form.pin # None /\ Forget(form.saved, AddModal)
HandleCloseModal == Forget({}, None)

HandleMapClick(p) == form.pin = None /\ PutPin(p, form.applying)

HandlePendingStopDrag(p) == form.pin # None /\ form.pin.at # p /\ PutPin(p, form.applying)

HandleApplySuggestion(h) == form.pin = None /\ PutPin(h, h)

\* What the server will read is blank until it does.
NewAdd(who, at, seq, fresh) ==
    [kind |-> "add", who |-> who, phase |-> "sent", fresh |-> fresh, at |-> at, seq |-> seq,
     id |-> None, shift |-> [i \in Ids |-> 0], append |-> FALSE, start |-> None, end |-> None]

Dismissal(h) == [kind |-> "dismiss", who |-> "desk", phase |-> "sent", hint |-> h]

SubmitStop ==
    /\ dialog = AddModal /\ form.pin # None /\ ~Pending("add")
    /\ Send(NewAdd("desk", form.pin.at, form.pin.seq, form.pin.fresh))
    /\ UNCHANGED <<db, shown, due, dialog, form>>

HandleRejectSuggestion(h) ==
    /\ dialog = AddModal /\ ~Pending("dismiss")
    /\ Send(Dismissal(h))
    /\ UNCHANGED <<db, shown, due, dialog, form>>

Listed == {e.id : e \in shown["routes"]}
InSession == {s.id : s \in form.saved}

\* The popup of a marker of the list; a stop of this session has a marker of
\* its own, and a row.
RemoveFromRoute(i) ==
    /\ dialog = AddModal /\ ~Pending("remove")
    /\ \E session \in BOOLEAN :
        /\ i \in IF session THEN InSession ELSE Listed
        /\ Send([kind |-> "remove", who |-> "desk", phase |-> "sent", id |-> i, session |-> session])
    /\ UNCHANGED <<db, shown, due, dialog, form>>

OpenDelete(i) == Open([kind |-> "delete", id |-> i])

CloseDelete ==
    /\ dialog \notin {None, AddModal} /\ dialog' = None
    /\ UNCHANGED <<db, shown, due, form, wire, hist>>

SubmitDelete ==
    /\ dialog \notin {None, AddModal} /\ ~Pending("delete")
    /\ Send([kind |-> "delete", who |-> "desk", phase |-> "sent", id |-> dialog.id])
    /\ UNCHANGED <<db, shown, due, dialog, form>>

\* ---- the server -------------------------------------------------------------------

\* A commit of r's handler, the last it makes: what others computed from the
\* route is out of date.
Stale(q) == IF q.kind = "add" THEN [q EXCEPT !.fresh = FALSE] ELSE q

Write(r, new, phase) ==
    /\ db' = new
    /\ wire' = {Stale(q) : q \in wire \ {r}} \cup {q \in {[r EXCEPT !.phase = phase]} : r.who = "desk"}
    /\ form' = IF form.pin = None THEN form ELSE [form EXCEPT !.pin.fresh = FALSE]
    /\ hist' = [hist EXCEPT !.stale = @ \/ (r.kind = "add" /\ ~r.fresh)]
    /\ UNCHANGED <<shown, due, dialog>>

Refuse(r) ==
    /\ Answer(r, "error")
    /\ UNCHANGED <<db, shown, due, dialog, form, hist>>

\* add_stop creates the Stop and reads the route.  Between locked ends it takes
\* the place asked for, or the end's; otherwise it is appended unless the place
\* asked for exists.
Appends(r) == ~db.locked /\ (r.seq = 0 \/ \A i \in OnRoute : Stops[i].seq < r.seq)

\* The number asked for; or that of the locked end, or the next one.
Granted(r) ==
    IF r.seq # 0 THEN {r.seq}
    ELSE IF db.locked THEN {Stops[db.end].seq}
    ELSE IF OnRoute = {} THEN {1}
    ELSE {Stops[i].seq + 1 : i \in Highest(OnRoute)}

ServeAdd(r) ==
    /\ r.kind = "add" /\ r.phase = "sent"
    /\ Len(Stops) < MaxStops
    /\ db' = [db EXCEPT !.stops = Append(@, [at |-> r.at, seq |-> 0, state |-> "loose"])]
    /\ \E seq \in Granted(r) :
        LET above == IF Appends(r) THEN {} ELSE {i \in OnRoute : Stops[i].seq >= seq}
        IN Replace(r, [r EXCEPT !.phase = "read", !.id = Len(Stops) + 1, !.seq = seq,
                                !.shift = [i \in Ids |-> IF i \in above THEN Stops[i].seq + 1 ELSE 0],
                                !.append = Appends(r), !.start = db.start, !.end = db.end])
    /\ UNCHANGED <<shown, due, dialog, form, hist>>

\* The rows with the new stop on the route and the others where they were moved.
Moved(r) == {i \in Ids : r.shift[i] # 0}

Inserted(r) ==
    [i \in DOMAIN Stops |->
        IF i = r.id THEN [at |-> r.at, seq |-> r.seq, state |-> "on"]
        ELSE IF i \in Moved(r) THEN [Stops[i] EXCEPT !.seq = r.shift[i]]
        ELSE Stops[i]]

\* _shift_route_stops_up saves the rows it had read one by one, the highest
\* first.  A row that is gone, or whose new number another has by then, is an
\* error, and the rows above it have moved.
Blocked(r) ==
    {i \in Moved(r) :
        \/ i \notin OnRoute
        \/ \E j \in OnRoute \ {i} :
              Stops[j].seq = r.shift[i] /\ (j \notin Moved(r) \/ r.shift[j] < r.shift[i])}

Cleared(r) == {i \in Moved(r) : \A b \in Blocked(r) : r.shift[b] < r.shift[i]}

Shifted(r) ==
    [i \in DOMAIN Stops |-> IF i \in Cleared(r) THEN [Stops[i] EXCEPT !.seq = r.shift[i]] ELSE Stops[i]]

HasRoom(r) == Blocked(r) = {} /\ \A j \in OnRoute \ Moved(r) : Stops[j].seq # r.seq

\* The stop takes the place made, unless that failed or the number is taken.  An
\* unlocked route takes the new stop as an end, the other is saved as read.
SaveAdd(r) ==
    /\ r.kind = "add" /\ r.phase = "read"
    /\ \/ /\ HasRoom(r)
          /\ Write(r, [db EXCEPT
                !.stops = Inserted(r),
                !.start = IF db.locked THEN @ ELSE IF r.seq = 1 \/ r.start = None THEN r.id ELSE r.start,
                !.end = IF db.locked THEN @ ELSE IF r.append THEN r.id ELSE r.end], "ok")
       \/ ~HasRoom(r) /\ Cleared(r) = {} /\ Refuse(r)
       \/ ~HasRoom(r) /\ Cleared(r) # {} /\ Write(r, [db EXCEPT !.stops = Shifted(r)], "error")

\* A stop leaves the route, and the ends are looked up again.
Off(i, state) ==
    [k \in DOMAIN Stops |-> IF k = i THEN [at |-> Stops[i].at, seq |-> 0, state |-> state] ELSE Stops[k]]

Detach(i, state, recompute) ==
    LET left == OnRoute \ {i}
    IN IF recompute THEN [db EXCEPT !.stops = Off(i, state), !.start = One(Lowest(left)), !.end = One(Highest(left))]
                    ELSE [db EXCEPT !.stops = Off(i, state)]

\* A slip: the ends are not looked up again.
ServeRemoveOnly(r) ==
    /\ r.kind = "remove" /\ r.phase = "sent"
    /\ IF r.id \notin OnRoute \/ (db.locked /\ r.id \in {db.start, db.end})
       THEN Refuse(r)
       ELSE Write(r, Detach(r.id, "loose", FALSE), "ok")

\* remove_stop refuses a locked end.
ServeRemove(r) ==
    /\ r.kind = "remove" /\ r.phase = "sent"
    /\ IF r.id \notin OnRoute \/ (db.locked /\ r.id \in {db.start, db.end})
       THEN Refuse(r)
       ELSE Write(r, Detach(r.id, "loose", ~db.locked), "ok")

\* StopViewSet.destroy refuses an end and takes any other stop off its route,
\* looking up the ends again even of a locked one.
ServeDelete(r) ==
    /\ r.kind = "delete" /\ r.phase = "sent"
    /\ IF Stops[r.id].state = "deleted" \/ (r.id \in OnRoute /\ r.id \in {db.start, db.end})
       THEN Refuse(r)
       ELSE Write(r, Detach(r.id, "deleted", r.id \in OnRoute), "ok")

ServeDismiss(r) ==
    /\ r.kind = "dismiss" /\ r.phase = "sent"
    /\ Answer(r, IF r.hint \in db.hints THEN "ok" ELSE "error")
    /\ db' = [db EXCEPT !.hints = @ \ {r.hint}]
    /\ UNCHANGED <<shown, due, dialog, form, hist>>

\* A colleague's page, its list loaded a moment ago.
OtherAdds(p) ==
    /\ \E n \in Numbers(Listing, {}, p) : Send(NewAdd("other", p, n, TRUE))
    /\ UNCHANGED <<db, shown, due, dialog, form>>

\* ---- the page hears of it ----------------------------------------------------------------

\* The stop is listed where the pin now is, and the suggestion now applied is
\* dismissed.  Stops are saved one at a time, so a later one has a higher id.
SucceedAdd(r) ==
    /\ r.kind = "add" /\ r.phase = "ok" /\ r.who = "desk"
    /\ form' = [Blank EXCEPT !.saved = form.saved \cup
                  {[id |-> r.id, at |-> IF form.pin = None THEN 1 ELSE form.pin.at, seq |-> r.seq]}]
    /\ wire' = (wire \ {r}) \cup {Dismissal(h) : h \in {form.applying} \ {None}}
    /\ Invalidate({"routes"})
    /\ UNCHANGED <<db, shown, dialog, hist>>

SucceedRemove(r) ==
    /\ r.kind = "remove" /\ r.phase = "ok" /\ Settle(r)
    /\ form' = [form EXCEPT !.saved = {s \in @ : r.session => s.id # r.id}]
    /\ Invalidate({"routes"})
    /\ UNCHANGED <<db, shown, dialog, hist>>

\* A deleted stop stays in the routes' lists until they are asked for again.
SucceedOther(r) ==
    /\ r.kind \in {"dismiss", "delete"} /\ r.phase = "ok" /\ Settle(r)
    /\ dialog' = IF r.kind = "delete" /\ dialog # AddModal THEN None ELSE dialog
    /\ UNCHANGED <<db, shown, due, form, hist>>

Fail(r) ==
    /\ r.phase = "error" /\ Settle(r)
    /\ UNCHANGED <<db, shown, due, dialog, form, hist>>

Next ==
    \/ LoadRoutes \/ Browse \/ HandleOpen \/ SelectRoute \/ CancelPin \/ HandleCloseModal
    \/ SubmitStop \/ CloseDelete \/ SubmitDelete \/ GiveUp
    \/ \E p \in Points : HandleMapClick(p) \/ HandlePendingStopDrag(p) \/ OtherAdds(p)
    \/ \E h \in db.hints : HandleApplySuggestion(h) \/ HandleRejectSuggestion(h)
    \/ \E i \in Listed \cup InSession : RemoveFromRoute(i) \/ (i \in Listed /\ OpenDelete(i))
    \/ \E r \in wire : \/ ServeAdd(r) \/ SaveAdd(r) \/ ServeRemove(r) \/ ServeDelete(r) \/ ServeDismiss(r)
                       \/ SucceedAdd(r) \/ SucceedRemove(r) \/ SucceedOther(r) \/ Fail(r)

Spec == Init /\ [][Next]_deskVars

\* ---- what it promises -----------------------------------------------------------------------

\* Along the route the stops follow the path.
StopsFollowPath == \A i, j \in OnRoute : Stops[i].seq < Stops[j].seq => Stops[i].at <= Stops[j].at

\* They do unless some place was computed from a list that was out of date by
\* the time it was used, or from the session's own copies of stops.
InOrderUnlessStale == StopsFollowPath \/ hist.stale

\* A route drawn without ends starts and ends at its first and last stop.
EndsAreFirstAndLast ==
    ~db.locked => hist.stale \/ (db.start = FirstStop /\ db.end = LastStop)

\* ---- why it holds: true of every state, and kept by every step -----------------------------------

\* Two stops of a route never have one number, none has more than there are
\* stops, and the ends somebody picked stay on it.
RouteInv ==
    /\ \A i \in OnRoute : Stops[i].seq \in 1..Len(Stops)
    /\ \A i, j \in OnRoute : Stops[i].seq = Stops[j].seq => i = j
    /\ db.locked => db.start \in OnRoute /\ db.end \in OnRoute

\* A page knows no number higher than the stops there are, so it asks for one
\* more at most; what add_stop is to save was free when it was read.
Sound(r) ==
    r.kind = "add" =>
        IF r.phase = "sent" THEN r.seq <= Len(Stops) + 1
        ELSE /\ r.seq \in 1..Len(Stops) /\ r.id \in DOMAIN Stops
             /\ \A i \in Moved(r) : r.shift[i] \in (r.seq + 1)..Len(Stops)
             /\ \A i, j \in Moved(r) : r.shift[i] = r.shift[j] => i = j

NumbersInv ==
    /\ \A e \in shown["routes"] \cup form.saved : e.seq <= Len(Stops)
    /\ form.pin # None => form.pin.seq <= Len(Stops) + 1
    /\ \A r \in wire : Sound(r)

\* A number that fits the place: the stops before it are not behind the place on
\* the path, the others not ahead of it.
Fits(p, n) ==
    /\ n = 0 => OnRoute = {}
    /\ n > 1 => \E i \in OnRoute : Stops[i].seq < n
    /\ \A i \in OnRoute : IF Stops[i].seq < n THEN Stops[i].at <= p ELSE p <= Stops[i].at

\* What add_stop has read still is so.
ReadsNow(r) ==
    /\ r.start = db.start /\ r.end = db.end /\ r.id \notin OnRoute
    /\ r.append <=> ~db.locked /\ \A i \in OnRoute : Stops[i].seq < r.seq
    /\ \A i \in Ids : r.shift[i] = IF i \in OnRoute /\ Stops[i].seq >= r.seq THEN Stops[i].seq + 1 ELSE 0

Current(r) ==
    r.kind = "add" /\ r.fresh =>
        /\ r.phase \in {"sent", "read"} => Fits(r.at, r.seq)
        /\ r.phase = "read" => ReadsNow(r)

FreshInv ==
    /\ form.pin # None /\ form.pin.fresh => Fits(form.pin.at, form.pin.seq)
    /\ \A r \in wire : Current(r)

EndsInv ==
    ~db.locked => IF OnRoute = {} THEN db.start = None /\ db.end = None
                  ELSE db.start \in Lowest(OnRoute) /\ db.end \in Highest(OnRoute)

IInv ==
    /\ TypeOK /\ RouteInv /\ NumbersInv
    /\ ~hist.stale => StopsFollowPath /\ EndsInv /\ FreshInv
=============================================================================

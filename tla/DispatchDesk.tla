---------------------------- MODULE DispatchDesk ----------------------------
(***************************************************************************)
(* The dispatch page (DispatchPage.tsx), the allocation API behind it      *)
(* (dispatch/views.py) and the clock's task that ends shifts and repeats   *)
(* them the next day (dispatch/tasks.py).                                  *)
(*                                                                         *)
(* An allocation puts a bus and one member of the crew on a day: 0 is      *)
(* yesterday, 1 today, 2 tomorrow.  A driver and a conductor are checked   *)
(* alike, so one person stands for both.  Handlers that test and then      *)
(* write do so in two steps.                                               *)
(***************************************************************************)
EXTENDS Desk

CONSTANTS
    Buses,
    Crew,
    MaxRows      \* bound on the allocations a behaviour creates

\* What the theorems assume of the bounds.
DispatchAssumption == MaxRows \in Nat /\ MaxOpens \in Nat /\ MaxSends \in Nat

Ids == 1..MaxRows
Today == 1

Live == {"PENDING", "ACTIVE"}
Kept == Live \cup {"COMPLETED", "CANCELLED"}    \* the row is in the table

NoRow == [status |-> "none", day |-> 0, bus |-> None, driver |-> None, daily |-> FALSE]

Rows == db.rows

Row(day, bus, driver, status, daily) ==
    [status |-> status, day |-> day, bus |-> bus, driver |-> driver, daily |-> daily]

RowType == [status: Kept \cup {"none", "gone"}, day: 0..2, bus: Buses \cup {None},
            driver: Crew \cup {None}, daily: BOOLEAN]

NoRows == [i \in Ids |-> NoRow]

\* A request, from whoever makes it: the row it is about, the buses of a
\* schedule, the row read or to insert, the row an edit puts in its place,
\* whether the crew was found free, the shifts a run of the clock's task holds,
\* the row that was made.
Request(kind) ==
    [kind |-> kind, who |-> "desk", phase |-> "sent", id |-> 0, buses |-> {}, row |-> NoRow, put |-> NoRow,
     free |-> FALSE, seen |-> NoRows, made |-> 0]

Requests ==
    [kind: {"assign", "generate", "copy", "breakdown", "remove", "end", "delete", "reassign", "update", "beat"},
     who: {"desk", "other", "gone"}, phase: {"sent", "read", "run", "recur", "ok", "error"}, id: Ids \cup {0},
     buses: SUBSET Buses, row: RowType, put: RowType, free: BOOLEAN, seen: [Ids -> RowType], made: Ids \cup {0}]

Dialogs == [kind: {"edit", "delete", "breakdown", "reassign", "remove", "end"}, id: Ids, seen: RowType]

TypeOK ==
    /\ DOMAIN db = {"rows", "fleet"} /\ Rows \in [Ids -> RowType]
    /\ db.fleet \in [Buses -> {"ACTIVE", "ASSIGNED", "BREAKDOWN"}]
    /\ \A i, j \in Ids : i # j /\ Rows[i].status \in Kept /\ Rows[j].status \in Kept
                         => <<Rows[i].day, Rows[i].bus>> # <<Rows[j].day, Rows[j].bus>>
    /\ DOMAIN shown = {"today", "fleet"} /\ due \subseteq DOMAIN shown
    /\ DOMAIN shown["today"] \subseteq Ids /\ shown["today"] \in [DOMAIN shown["today"] -> RowType]
    /\ shown["fleet"] \subseteq Buses
    /\ form \in [selected: SUBSET Buses, picked: SUBSET Ids]
    /\ dialog \in Dialogs \cup {None}
    /\ wire \subseteq Requests
    /\ hist \in [opens: 0..MaxOpens, sends: 0..MaxSends, loose: SUBSET Ids, made: SUBSET Ids,
                 deleted: SUBSET Ids, ran: BOOLEAN]

Init ==
    /\ \E b, c \in Buses, d, e \in Crew :
        /\ b # c
        /\ db = [rows |-> [i \in Ids |-> CASE i = 1 -> Row(0, b, d, "COMPLETED", FALSE)
                                           [] i = 2 -> Row(1, c, e, "ACTIVE", TRUE)
                                           [] OTHER -> NoRow],
                 fleet |-> [v \in Buses |-> IF v = c THEN "ASSIGNED" ELSE "ACTIVE"]]
    /\ shown = [k \in {"today", "fleet"} |-> IF k = "fleet" THEN {} ELSE <<>>]
    /\ due = {"today", "fleet"}
    /\ dialog = None
    /\ form = [selected |-> {}, picked |-> {}]
    /\ wire = {}
    /\ hist = [opens |-> 0, sends |-> 0, loose |-> {}, made |-> {}, deleted |-> {}, ran |-> FALSE]

\* ---- the page ---------------------------------------------------------------

On(day) == [i \in {j \in Ids : Rows[j].status \in Kept /\ Rows[j].day = day} |-> Rows[i]]

LoadToday == Arrive("today", On(Today))

\* The 30 s poll, Refresh.
Poll == Ask("today")

\* The list of active vehicles is read when the page mounts: no mutation
\* invalidates it.
LoadFleet == Arrive("fleet", {v \in Buses : db.fleet[v] = "ACTIVE"})

\* availableVehicles: the list of active vehicles, as old as it may be, minus
\* those the page shows on the road today.
Available ==
    shown["fleet"] \ {shown["today"][i].bus : i \in {j \in DOMAIN shown["today"] : shown["today"][j].status # "CANCELLED"}}

\* The buttons of a row.
RowButtons(i) ==
    LET row == shown["today"][i] IN
    \/ \E kind \in {"edit", "delete"} : Open([kind |-> kind, id |-> i, seen |-> row])
    \/ /\ row.status # "CANCELLED"
       /\ \E kind \in {"breakdown", "reassign", "remove"} : Open([kind |-> kind, id |-> i, seen |-> row])
    \/ /\ row.status \notin {"CANCELLED", "COMPLETED"}
       /\ Open([kind |-> "end", id |-> i, seen |-> row])

CloseDialog ==
    /\ dialog # None
    /\ dialog' = None
    /\ UNCHANGED <<db, shown, due, form, wire, hist>>

\* Ticked boxes stay ticked whatever becomes of the lists; ticking counts as
\* opening.
Tick(field, x) ==
    /\ hist.opens < MaxOpens
    /\ form' = [form EXCEPT ![field] = IF x \in @ THEN @ \ {x} ELSE @ \cup {x}]
    /\ hist' = [hist EXCEPT !.opens = @ + 1]
    /\ UNCHANGED <<db, shown, due, dialog, wire>>

ToggleVehicle(v) == v \in Available /\ Tick("selected", v)

\* Yesterday's rows: no button of the page changes them.
ToggleCopySelect(i) == i \in DOMAIN On(0) /\ On(0)[i].status # "CANCELLED" /\ Tick("picked", i)

\* One pending request per kind of button.
Submit(r) ==
    /\ ~Pending(r.kind)
    /\ Send(r)
    /\ UNCHANGED <<db, shown, due, dialog, form>>

\* The forms of the tabs can be sent whatever the page shows by now.
SubmitAssign ==
    \E v \in Available, d \in Crew : Submit([Request("assign") EXCEPT !.row = Row(Today, v, d, "PENDING", FALSE)])

SubmitGenerate ==
    /\ form.selected # {}
    /\ Submit([Request("generate") EXCEPT !.buses = form.selected])

HandleCopySelected ==
    /\ form.picked # {}
    /\ \E i \in form.picked : Submit([Request("copy") EXCEPT !.id = i])

\* Reads yesterday again before it sends.
HandleRepeatYesterday ==
    \E i \in DOMAIN On(0) : On(0)[i].status # "CANCELLED" /\ Submit([Request("copy") EXCEPT !.id = i])

\* The modals over a row send its id, whatever has become of the row.
SubmitRow(kind) == dialog # None /\ dialog.kind = kind /\ Submit([Request(kind) EXCEPT !.id = dialog.id])

SubmitBreakdown == SubmitRow("breakdown")
SubmitRemove == SubmitRow("remove")
SubmitEndShift == SubmitRow("end")
SubmitDelete == SubmitRow("delete")

SubmitReassign ==
    /\ dialog # None /\ dialog.kind = "reassign"
    /\ \E v \in Available : Submit([Request("reassign") EXCEPT !.id = dialog.id, !.row.bus = v])

\* The form was filled from the row the dialog was opened for; all of it is
\* sent, the fields the dispatcher left alone included.
SubmitEdit ==
    /\ dialog # None /\ dialog.kind = "edit"
    /\ LET old == dialog.seen IN
       \E new \in {old} \cup {[old EXCEPT !.bus = v] : v \in Available}
                  \cup {[old EXCEPT !.driver = d] : d \in Crew}
                  \cup {[old EXCEPT !.status = s] : s \in {"ACTIVE", "CANCELLED"}} :
          Submit([Request("update") EXCEPT !.id = dialog.id, !.put = new])

\* ---- the server: tests ---------------------------------------------------------

\* A slip: only shifts under way count as taken.
BusyUnderWay(day, person, except) ==
    /\ person # None
    /\ \E i \in Ids \ except : Rows[i].status = "ACTIVE" /\ Rows[i].day = day /\ Rows[i].driver = person

Busy(day, person, except) ==
    /\ person # None
    /\ \E i \in Ids \ except : Rows[i].status \in Live /\ Rows[i].day = day /\ Rows[i].driver = person

\* A slip: a cancelled or completed row does not hold its day and bus.
OccupiedByLive(day, bus, except) ==
    \E i \in Ids \ except : Rows[i].status \in Live /\ Rows[i].day = day /\ Rows[i].bus = bus

Occupied(day, bus, except) ==
    \E i \in Ids \ except : Rows[i].status \in Kept /\ Rows[i].day = day /\ Rows[i].bus = bus

\* A handler goes on with what it has found; `free` is the outcome of
\* _crew_conflict_message.
GoOn(r, ok, row, free) ==
    /\ IF ok THEN Replace(r, [r EXCEPT !.phase = "read", !.row = row, !.free = free]) ELSE Answer(r, "error")
    /\ UNCHANGED <<db, shown, due, dialog, form, hist>>

CheckAssign(r) ==
    /\ r.kind = "assign" /\ r.phase = "sent"
    /\ LET free == ~Busy(r.row.day, r.row.driver, {})
       IN GoOn(r, ~Occupied(r.row.day, r.row.bus, {}) /\ free, r.row, free)

\* copy: a source that is gone or conflicts is skipped, the answer is a success.
CheckCopy(r) ==
    /\ r.kind = "copy" /\ r.phase = "sent"
    /\ LET row == Row(Today, Rows[r.id].bus, Rows[r.id].driver, "PENDING", FALSE)
           free == ~Busy(Today, row.driver, {})
       IN IF Rows[r.id].status \in Kept /\ ~Occupied(Today, row.bus, {}) /\ free
          THEN GoOn(r, TRUE, row, free)
          ELSE Answer(r, "ok") /\ UNCHANGED <<db, shown, due, dialog, form, hist>>

\* reassign: the replacement must not be on an open row; the allocation it
\* replaces is left out of the crew's test.
CheckReassign(r) ==
    /\ r.kind = "reassign" /\ r.phase = "sent"
    /\ LET old == Rows[r.id]
           free == ~Busy(old.day, old.driver, {r.id})
           taken == \E i \in Ids : Rows[i].status \in Live /\ Rows[i].day = old.day /\ Rows[i].bus = r.row.bus
       IN GoOn(r, old.status \in Kept /\ ~taken /\ free,
               Row(old.day, r.row.bus, old.driver, "ACTIVE", FALSE), free)

CheckUpdate(r) ==
    /\ r.kind = "update" /\ r.phase = "sent"
    /\ LET old == Rows[r.id]
           free == ~Busy(old.day, r.put.driver, {r.id})
       IN GoOn(r, old.status \in Kept /\ ~Occupied(old.day, r.put.bus, {r.id}) /\ free, old, free)

CheckEndShift(r) ==
    /\ r.kind = "end" /\ r.phase = "sent"
    /\ GoOn(r, Rows[r.id].status \in Live, Rows[r.id], FALSE)

\* ---- the server: writes ----------------------------------------------------------

\* The conductor of the new or changed row was free when the handler looked
\* and is taken now.
Loose(r, i, row) ==
    IF r.free /\ row.status \in Live /\ Busy(row.day, row.driver, {i}) THEN {i} ELSE {}

Fresh == {i \in Ids : Rows[i].status = "none" /\ \A j \in 1..(i - 1) : Rows[j].status # "none"}

\* assign marks the vehicle first; the unique index on day and bus may still
\* refuse the row.
Insert(r) ==
    /\ r.kind \in {"assign", "copy", "reassign"} /\ r.phase = "read"
    /\ IF Occupied(r.row.day, r.row.bus, {})
       THEN /\ db' = IF r.kind = "assign" THEN [db EXCEPT !.fleet[r.row.bus] = "ASSIGNED"] ELSE db
            /\ Answer(r, "error") /\ UNCHANGED hist
       ELSE \E i \in Fresh :
            /\ db' = [db EXCEPT !.rows[i] = r.row, !.fleet[r.row.bus] = "ASSIGNED"]
            /\ hist' = [hist EXCEPT !.loose = @ \cup Loose(r, i, r.row)]
            /\ IF r.who = "desk" THEN Replace(r, [r EXCEPT !.phase = "ok", !.made = i]) ELSE Answer(r, "ok")
    /\ UNCHANGED <<shown, due, dialog, form>>

\* PATCH saves the whole row as it was read; a changed bus is released and
\* the new one marked.
SaveUpdate(r) ==
    /\ r.kind = "update" /\ r.phase = "read"
    /\ LET row == [r.row EXCEPT !.bus = r.put.bus, !.driver = r.put.driver, !.status = r.put.status]
       IN IF Occupied(row.day, row.bus, {r.id})
          THEN Answer(r, "error") /\ UNCHANGED <<db, hist>>
          ELSE /\ db' = [db EXCEPT !.rows[r.id] = row,
                                   !.fleet = IF row.bus = r.row.bus THEN @
                                             ELSE [@ EXCEPT ![r.row.bus] = "ACTIVE", ![row.bus] = "ASSIGNED"]]
               /\ hist' = [hist EXCEPT !.loose = @ \cup Loose(r, r.id, row)]
               /\ Answer(r, "ok")
    /\ UNCHANGED <<shown, due, dialog, form>>

\* status alone is saved, over whatever it is by now.
SaveEndShift(r) ==
    /\ r.kind = "end" /\ r.phase = "read"
    /\ IF Rows[r.id].status \in Kept
       THEN /\ db' = [db EXCEPT !.rows[r.id].status = "COMPLETED", !.fleet[r.row.bus] = "ACTIVE"]
            /\ Answer(r, "ok")
       ELSE db' = [db EXCEPT !.fleet[r.row.bus] = "ACTIVE"] /\ Answer(r, "error")
    /\ UNCHANGED <<shown, due, dialog, form, hist>>

\* breakdown, remove and delete do not look at the status.
ServeOff(r) ==
    /\ r.kind \in {"breakdown", "remove", "delete"} /\ r.phase = "sent"
    /\ IF Rows[r.id].status \in Kept
       THEN /\ db' = [db EXCEPT !.rows[r.id].status = IF r.kind = "delete" THEN "gone" ELSE "CANCELLED",
                                !.fleet[Rows[r.id].bus] = IF r.kind = "breakdown" THEN "BREAKDOWN" ELSE "ACTIVE"]
            /\ hist' = IF r.kind = "delete" THEN [hist EXCEPT !.deleted = @ \cup {r.id}] ELSE hist
            /\ Answer(r, "ok")
       ELSE UNCHANGED <<db, hist>> /\ Answer(r, "error")
    /\ UNCHANGED <<shown, due, dialog, form>>

\* GenerateScheduleView: update_or_create of every bus's row of the day, open,
\* its crew as it was and unchecked.
ServeGenerate(r) ==
    /\ r.kind = "generate" /\ r.phase = "sent"
    /\ LET of(v) == {i \in Ids : Rows[i].status \in Kept /\ Rows[i].day = Today /\ Rows[i].bus = v}
           new == {v \in r.buses : of(v) = {}}
           old == UNION {of(v) : v \in r.buses}
       IN /\ \E made \in {f \in [new -> {i \in Ids : Rows[i].status = "none"}] :
                            \A v, w \in new : f[v] = f[w] => v = w} :
             db' = [rows |-> [i \in Ids |-> IF i \in old THEN [Rows[i] EXCEPT !.status = "ACTIVE"]
                                            ELSE IF \E v \in new : made[v] = i
                                            THEN Row(Today, CHOOSE v \in new : made[v] = i, None, "ACTIVE", FALSE)
                                            ELSE Rows[i]],
                    fleet |-> [v \in Buses |-> IF v \in r.buses THEN "ASSIGNED" ELSE db.fleet[v]]]
          /\ hist' = [hist EXCEPT !.loose = @ \cup {i \in old : Rows[i].status \notin Live}]
    /\ Answer(r, "ok")
    /\ UNCHANGED <<shown, due, dialog, form>>

\* ---- the clock ---------------------------------------------------------------------

\* A slip: every shift that is not completed is due.
NotCompletedToday == {i \in Ids : Rows[i].status \in Kept \ {"COMPLETED"} /\ Rows[i].day = Today}

\* _process_tenant_shifts reads the shifts that are due, any of those that are
\* open today ...
OpenToday == {i \in Ids : Rows[i].status \in Live /\ Rows[i].day = Today}

BeatReads ==
    /\ ~hist.ran
    /\ \E ended \in SUBSET OpenToday :
        /\ ended # {}
        /\ wire' = wire \cup {[Request("beat") EXCEPT !.who = "other", !.phase = "run",
                                  !.seen = [i \in Ids |-> IF i \in ended THEN Rows[i] ELSE NoRow]]}
    /\ hist' = [hist EXCEPT !.ran = TRUE]
    /\ UNCHANGED <<db, shown, due, dialog, form>>

\* ... ends them one by one, whatever has become of them, and tests whether a
\* daily one can be repeated ...
CompleteDue(r, i) ==
    /\ r.kind = "beat" /\ r.phase = "run" /\ r.seen[i] # NoRow
    /\ LET row == r.seen[i]
           next == Row(2, row.bus, row.driver, "PENDING", TRUE)
           rest == [r.seen EXCEPT ![i] = NoRow]
       IN IF Rows[i].status \notin Kept
          THEN db' = [db EXCEPT !.fleet[row.bus] = "ACTIVE"] /\ wire' = wire \ {r}
          ELSE /\ db' = [db EXCEPT !.rows[i].status = "COMPLETED", !.fleet[row.bus] = "ACTIVE"]
               /\ Replace(r, IF row.daily /\ ~Occupied(2, row.bus, {}) /\ ~Busy(2, row.driver, {})
                             THEN [r EXCEPT !.phase = "recur", !.seen = rest, !.row = next, !.free = TRUE]
                             ELSE [r EXCEPT !.seen = rest])
    /\ UNCHANGED <<shown, due, dialog, form, hist>>

\* ... which a row inserted meanwhile makes fail, and the run with it.
Recur(r) ==
    /\ r.kind = "beat" /\ r.phase = "recur"
    /\ IF Occupied(2, r.row.bus, {})
       THEN wire' = wire \ {r} /\ UNCHANGED <<db, hist>>
       ELSE \E i \in Fresh :
            /\ db' = [db EXCEPT !.rows[i] = r.row, !.fleet[r.row.bus] = "ASSIGNED"]
            /\ hist' = [hist EXCEPT !.loose = @ \cup Loose(r, i, r.row)]
            /\ Replace(r, [r EXCEPT !.phase = "run"])
    /\ UNCHANGED <<shown, due, dialog, form>>

BeatEnds(r) ==
    /\ r.kind = "beat" /\ r.phase = "run" /\ r.seen = NoRows
    /\ wire' = wire \ {r}
    /\ UNCHANGED <<db, shown, due, dialog, form, hist>>

\* ---- the page hears of it ---------------------------------------------------------

Succeed(r) ==
    /\ r.phase = "ok" /\ Settle(r)
    /\ dialog' = IF dialog # None /\ dialog.kind = (IF r.kind = "update" THEN "edit" ELSE r.kind) THEN None ELSE dialog
    /\ form' = [selected |-> IF r.kind = "generate" THEN {} ELSE form.selected,
                picked |-> IF r.kind = "copy" THEN {} ELSE form.picked]
    /\ Invalidate({"today"})
    /\ hist' = [hist EXCEPT !.made = @ \cup ({r.made} \ {0})]
    /\ UNCHANGED <<db, shown>>

Fail(r) ==
    /\ r.phase = "error" /\ Settle(r)
    /\ UNCHANGED <<db, shown, due, dialog, form, hist>>

Next ==
    \/ LoadToday \/ LoadFleet \/ Poll \/ CloseDialog \/ GiveUp
    \/ SubmitAssign \/ SubmitGenerate \/ HandleCopySelected \/ HandleRepeatYesterday
    \/ SubmitBreakdown \/ SubmitRemove \/ SubmitEndShift \/ SubmitDelete \/ SubmitReassign \/ SubmitEdit
    \/ BeatReads
    \/ \E i \in DOMAIN shown["today"] : RowButtons(i)
    \/ \E v \in Buses : ToggleVehicle(v)
    \/ \E i \in Ids : ToggleCopySelect(i)
    \/ \E r \in wire : \/ CheckAssign(r) \/ CheckCopy(r) \/ CheckReassign(r) \/ CheckUpdate(r) \/ CheckEndShift(r)
                       \/ Insert(r) \/ SaveUpdate(r) \/ SaveEndShift(r) \/ ServeOff(r) \/ ServeGenerate(r)
                       \/ Recur(r) \/ BeatEnds(r) \/ Succeed(r) \/ Fail(r)
                       \/ \E i \in Ids : CompleteDue(r, i)

Spec == Init /\ [][Next]_deskVars

\* Nobody is on two buses in one day, unless he was free when the later of two
\* handlers looked and not when it wrote, or a bus was replaced whose shift
\* was left open, or a schedule was generated over a closed shift.
OneBusPerDay ==
    \A i, j \in Ids :
        /\ i # j /\ Rows[i].status \in Live /\ Rows[j].status \in Live
        /\ Rows[i].day = Rows[j].day /\ Rows[i].driver = Rows[j].driver /\ Rows[i].driver # None
        => {i, j} \cap hist.loose # {}

\* A cancelled allocation is opened or completed again only by an edit, by a
\* generated schedule, or by a handler or a run of the clock's task that had
\* read it before it was cancelled.
CancelledStays ==
    \A i \in Ids :
        Rows[i].status = "CANCELLED" /\ Rows'[i].status \notin {"CANCELLED", "gone"} =>
            \E r \in wire \ wire' :
                \/ r.kind \in {"update", "generate"}
                \/ r.kind = "end" /\ r.row.status \in Live
                \/ r.kind = "beat" /\ r.seen[i].status \in Live

\* A list at rest has every allocation of today whose creation this page has
\* heard of, unless somebody deleted it.
RestingListKnowsMade ==
    "today" \notin due => \A i \in hist.made \ hist.deleted :
        Rows[i].day = Today => i \in DOMAIN shown["today"]
=============================================================================

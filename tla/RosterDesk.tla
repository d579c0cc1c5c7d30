----------------------------- MODULE RosterDesk -----------------------------
(***************************************************************************)
(* The duty roster: RosterGridPage.tsx over one period, the publish button *)
(* of RosterPeriodsPage.tsx, and roster/views.py.  The model follows the   *)
(* duties of one service date.  What makes a group fit for a route, and    *)
(* what the rotation prefers, are the operator's data: a choice here.  No  *)
(* request runs in a transaction, so each reads in one step and saves in   *)
(* another.                                                                *)
(***************************************************************************)
EXTENDS Desk

CONSTANTS
    Rotating,    \* groups of vehicles that rotate
    Reserve,     \* groups kept for surge duties
    Slots,       \* duties of the date by the demand of its routes
    MaxDuties    \* bound on the duties, surge ones included

\* A group of vehicles is of one kind, NULL is not a group, and there is room for
\* the duties of the demand.
RosterAssumption ==
    /\ Slots \in Nat /\ MaxDuties \in Nat /\ Slots <= MaxDuties /\ MaxOpens \in Nat /\ MaxSends \in Nat
    /\ Rotating \cap Reserve = {} /\ None \notin Rotating \cup Reserve

Groups == Rotating \cup Reserve
Numbers == 1..MaxDuties
Sources == {"MANUAL", "GENERATED", "OVERRIDE", "RESERVE_FILL"}
Queries == {"chart"}
Duties == [group: Groups \cup {None}, source: Sources, locked: BOOLEAN, overrides: Nat]

\* A duty as the page reads it.
Cells == [group: Groups \cup {None}, locked: BOOLEAN, surge: BOOLEAN]

\* A request, from whoever plans: the duty it is about, the group, the lock, the
\* policy it asks for, whether a reason was given, what it read of the chart,
\* and the groups found for the duties, None where a duty is left alone.
Request(who, kind) ==
    [kind |-> kind, who |-> who, phase |-> "sent", no |-> 0, group |-> None, locked |-> FALSE, fits |-> FALSE,
     reason |-> FALSE, read |-> 0, published |-> FALSE, cell |-> [group |-> None, locked |-> FALSE, surge |-> FALSE],
     solved |-> [no \in Numbers |-> None]]

Requests ==
    [kind: {"assign", "lock", "substitute", "policy", "rotate", "publish", "surge"}, who: {"desk", "other", "gone"},
     phase: {"sent", "read", "solved", "mended", "ok", "error"}, no: Numbers \cup {0}, group: Groups \cup {None},
     locked: BOOLEAN, fits: BOOLEAN, reason: BOOLEAN, read: Nat, published: BOOLEAN, cell: Cells,
     solved: [Numbers -> Groups \cup {None}]]

TypeOK ==
    /\ DOMAIN db = {"published", "fits", "duties"} /\ db.published \in BOOLEAN /\ db.fits \in BOOLEAN
    /\ DOMAIN db.duties \subseteq Numbers /\ db.duties \in [DOMAIN db.duties -> Duties]
    /\ DOMAIN shown = {"published", "duties"} /\ shown.published \in BOOLEAN
    /\ DOMAIN shown.duties \subseteq DOMAIN db.duties /\ shown.duties \in [DOMAIN shown.duties -> Cells]
    /\ due \subseteq Queries
    /\ dialog \in [no: DOMAIN db.duties, choice: Groups \cup {None}, group: Groups \cup {None},
                   locked: BOOLEAN, surge: BOOLEAN] \cup {None}
    /\ form \in [at: {"periods", "grid"}, policy: BOOLEAN]
    /\ wire \subseteq Requests
    /\ hist \in [opens: 0..MaxOpens, sends: 0..MaxSends, writes: Nat, crossed: BOOLEAN]

\* ---- what the server computes --------------------------------------------------------------

Held(duties, group) == {no \in DOMAIN duties : duties[no].group = group}

\* No group is on two duties.
Apart(duties) == \A a, b \in DOMAIN duties : a # b /\ duties[a].group = duties[b].group => duties[a].group = None

Cell(duty) == [group |-> duty.group, locked |-> duty.locked, surge |-> duty.source = "RESERVE_FILL"]

Chart == [no \in DOMAIN db.duties |-> Cell(db.duties[no])]

\* _compute_conflicts, as far as the date and its groups tell.
Hard(chart) ==
    \/ Held(chart, None) # {}
    \/ ~Apart(chart)
    \/ \E no \in DOMAIN chart : chart[no].group \in Reserve /\ ~chart[no].surge

\* The period in the course of its planning: each slot unassigned, set by hand or
\* generated, the unassigned ones last, and published only if nothing is in its way.
Charts == {duties \in [1..Slots -> [group: Rotating \cup {None}, source: {"MANUAL", "GENERATED"},
                                    locked: {FALSE}, overrides: {0}]] :
            \A no \in 1..Slots : duties[no].group = None
                => duties[no].source = "MANUAL" /\ \A later \in no..Slots : duties[later].group = None}

Init ==
    /\ db \in [published: BOOLEAN, fits: {TRUE}, duties: Charts]
    /\ db.published => ~Hard(Chart)
    /\ shown = [duties |-> <<>>, published |-> FALSE]
    /\ due = {} /\ dialog = None /\ wire = {}
    /\ form = [at |-> "periods", policy |-> FALSE]
    /\ hist = [opens |-> 0, sends |-> 0, writes |-> 0, crossed |-> FALSE]

\* ---- the page ----------------------------------------------------------------------------------

OpenGrid ==
    /\ form.at = "periods"
    /\ form' = [form EXCEPT !.at = "grid"]
    /\ due' = Queries
    /\ UNCHANGED <<db, shown, dialog, wire, hist>>

\* The duties, the conflicts and the period are asked in one go and shown here
\* in one go.
LoadChart ==
    /\ "chart" \in due
    /\ shown' = [shown EXCEPT !.duties = Chart, !.published = db.published]
    /\ due' = due \ {"chart"}
    /\ UNCHANGED <<db, dialog, form, wire, hist>>

\* The connection was lost, and the requests with it, and is back: whatever is
\* stale is asked again.
Browse ==
    /\ form.at = "grid" /\ due = {} /\ \A r \in wire : r.who # "desk"
    /\ due' = Queries
    /\ UNCHANGED <<db, shown, dialog, form, wire, hist>>

\* The grid is on show, with nothing over it.
Idle == form.at = "grid" /\ shown.duties # <<>> /\ dialog = None /\ ~form.policy

\* The buttons of the grid: what is unassigned, and per rotating group the last
\* of its duties of the date.
OnGrid ==
    {no \in DOMAIN shown.duties :
        LET group == shown.duties[no].group IN
        group = None \/ (group \in Rotating /\ \A other \in Held(shown.duties, group) : other <= no)}

Detail(no, cell, choice) ==
    [no |-> no, choice |-> choice, group |-> cell.group, locked |-> cell.locked, surge |-> cell.surge]

OpenDuty(no) == Idle /\ Open(Detail(no, shown.duties[no], shown.duties[no].group))

CloseDuty ==
    /\ dialog # None
    /\ dialog' = None
    /\ UNCHANGED <<db, shown, due, form, wire, hist>>

OpenPolicy ==
    /\ Idle /\ hist.opens < MaxOpens
    /\ form' = [form EXCEPT !.policy = TRUE]
    /\ hist' = [hist EXCEPT !.opens = @ + 1]
    /\ UNCHANGED <<db, shown, due, dialog, wire>>

ClosePolicy ==
    /\ form.policy
    /\ form' = [form EXCEPT !.policy = FALSE]
    /\ UNCHANGED <<db, shown, due, dialog, wire, hist>>

ChooseGroup(group) ==
    /\ dialog # None /\ ~dialog.locked /\ group # dialog.choice
    /\ group \in Reserve => dialog.surge
    /\ dialog' = [dialog EXCEPT !.choice = group]
    /\ UNCHANGED <<db, shown, due, form, wire, hist>>

SubmitAssign(reason) ==
    /\ dialog # None /\ ~dialog.locked /\ ~Pending("assign")
    /\ reason => shown.published
    /\ Send([Request("desk", "assign") EXCEPT !.no = dialog.no, !.group = dialog.choice, !.reason = reason])
    /\ UNCHANGED <<db, shown, due, dialog, form>>

\* The lock button does not wait for an answer under way.
SubmitLock ==
    /\ dialog # None
    /\ Send([Request("desk", "lock") EXCEPT !.no = dialog.no, !.locked = ~dialog.locked])
    /\ UNCHANGED <<db, shown, due, dialog, form>>

SubmitSubstitute ==
    /\ dialog # None /\ dialog.group # None /\ ~Pending("substitute")
    /\ Send([Request("desk", "substitute") EXCEPT !.no = dialog.no])
    /\ UNCHANGED <<db, shown, due, dialog, form>>

\* What is typed in the form may or may not let a rotation fit.
SubmitPolicy(fits) ==
    /\ form.policy /\ ~Pending("policy")
    /\ Send([Request("desk", "policy") EXCEPT !.fits = fits])
    /\ UNCHANGED <<db, shown, due, dialog, form>>

SubmitRotate ==
    /\ Idle /\ ~Pending("rotate")
    /\ Send(Request("desk", "rotate"))
    /\ UNCHANGED <<db, shown, due, dialog, form>>

\* The grid wants no hard conflict on show, the list of periods asks for nothing.
SubmitPublish ==
    /\ form.at = "periods" \/ (Idle /\ ~Hard(shown.duties))
    /\ ~Pending("publish")
    /\ Send(Request("desk", "publish"))
    /\ UNCHANGED <<db, shown, due, dialog, form>>

SubmitSurge ==
    /\ Idle /\ ~Pending("surge")
    /\ Send(Request("desk", "surge"))
    /\ UNCHANGED <<db, shown, due, dialog, form>>

\* A colleague at another grid.
OtherPlans ==
    /\ \/ \E no \in 1..Slots, group \in Rotating :
            Send([Request("other", "assign") EXCEPT !.no = no, !.group = group, !.reason = TRUE])
       \/ Send(Request("other", "publish"))
    /\ UNCHANGED <<db, shown, due, dialog, form>>

\* ---- the server ------------------------------------------------------------------------------------

\* Others wrote between what a request read and its own write.
Late(r) == r.read # hist.writes

\* Writes are counted as long as somebody else holds what he read.
Holding == {"read", "mended"}
Counted(r) == IF \E q \in wire \ {r} : q.phase \in Holding THEN hist.writes + 1 ELSE 0

\* The request with what it read of the chart.
Read(r, known) ==
    /\ Replace(r, [known EXCEPT !.phase = "read", !.read = hist.writes])
    /\ UNCHANGED <<db, shown, due, dialog, form, hist>>

Refuse(r) ==
    /\ Answer(r, "error")
    /\ UNCHANGED <<db, shown, due, dialog, form, hist>>

Save(r, duties) ==
    /\ db' = [db EXCEPT !.duties = duties]
    /\ hist' = [hist EXCEPT !.writes = Counted(r), !.crossed = @ \/ (r.phase # "sent" /\ Late(r))]
    /\ UNCHANGED <<shown, due, dialog, form>>

\* The duty as the request knows it goes back to the page.
Tell(r, cell) ==
    wire' = IF r.who = "desk" THEN (wire \ {r}) \cup {[r EXCEPT !.phase = "ok", !.cell = cell]} ELSE wire \ {r}

Taken(group, no) == group # None /\ Held(db.duties, group) \ {no} # {}

\* partial_update, asked for a group, which may be unfit for the route.
ReadAssign(r) ==
    LET duty == db.duties[r.no] IN
    /\ r.kind = "assign" /\ r.phase = "sent"
    /\ IF \/ duty.locked
          \/ db.published /\ ~r.reason
          \/ r.group \in Reserve /\ duty.source # "RESERVE_FILL"
          \/ Taken(r.group, r.no)
       THEN Refuse(r)
       ELSE \/ r.group # None /\ Refuse(r)
            \/ Read(r, [r EXCEPT !.cell = Cell(duty), !.published = db.published])

\* A slip: no override is recorded.
ReassignedUnrecorded(r) ==
    [db.duties[r.no] EXCEPT !.group = r.group, !.source = IF r.published THEN "OVERRIDE" ELSE "MANUAL"]

\* The duty with the group asked for, as a planner's choice; a change of a published
\* chart is recorded as an override.
Reassigned(r) ==
    [db.duties[r.no] EXCEPT !.group = r.group, !.source = IF r.published THEN "OVERRIDE" ELSE "MANUAL",
                            !.overrides = @ + IF r.published THEN 1 ELSE 0]

SaveAssign(r) ==
    /\ r.kind = "assign" /\ r.phase = "read"
    /\ Save(r, [db.duties EXCEPT ![r.no] = Reassigned(r)])
    /\ Tell(r, [r.cell EXCEPT !.group = r.group, !.surge = FALSE])

\* partial_update, asked for the lock alone.
ServeLock(r) ==
    /\ r.kind = "lock" /\ r.phase = "sent"
    /\ Save(r, [db.duties EXCEPT ![r.no].locked = r.locked])
    /\ Tell(r, [Chart[r.no] EXCEPT !.locked = r.locked])

\* substitute_vehicle: the vehicles are left out, the group stays.
ServeSubstitute(r) ==
    /\ r.kind = "substitute" /\ r.phase = "sent"
    /\ \/ Answer(r, "error")
       \/ db.duties[r.no].group # None /\ Tell(r, Chart[r.no])
    /\ UNCHANGED <<db, shown, due, dialog, form, hist>>

ServePolicy(r) ==
    /\ r.kind = "policy" /\ r.phase = "sent"
    /\ db' = [db EXCEPT !.fits = r.fits]
    /\ Answer(r, "ok")
    /\ UNCHANGED <<shown, due, dialog, form, hist>>

\* A slip: the conflicts are not computed again.
ReadPublishBlind(r) ==
    /\ r.kind = "publish" /\ r.phase = "sent"
    /\ Refuse(r) \/ Read(r, r)

\* Documents, other periods and the rules of the rotation may object as well.
ReadPublish(r) ==
    /\ r.kind = "publish" /\ r.phase = "sent"
    /\ Refuse(r) \/ (~Hard(Chart) /\ Read(r, r))

SavePublish(r) ==
    /\ r.kind = "publish" /\ r.phase = "read"
    /\ db' = [db EXCEPT !.published = TRUE]
    /\ hist' = [hist EXCEPT !.writes = Counted(r), !.crossed = @ \/ Late(r)]
    /\ Answer(r, "ok")
    /\ UNCHANGED <<shown, due, dialog, form>>

\* The duty after those of the date.
Following == {no \in Numbers \ DOMAIN db.duties : 1..(no - 1) \subseteq DOMAIN db.duties}

\* surge: a reserve group with no duty that day is to get the next slot of the route.
ReadSurge(r) ==
    /\ r.kind = "surge" /\ r.phase = "sent"
    /\ \/ Refuse(r)
       \/ \E group \in Reserve, no \in Following :
            Held(db.duties, group) = {} /\ Read(r, [r EXCEPT !.group = group, !.no = no])

\* Another surge may have taken the slot, if it was of the same route.
SaveSurge(r) ==
    /\ r.kind = "surge" /\ r.phase = "read"
    /\ \/ r.no \in DOMAIN db.duties /\ Refuse(r)
       \/ \E new \in Following :
            /\ Save(r, [no \in DOMAIN db.duties \cup {new} |->
                            IF no = new
                            THEN [group |-> r.group, source |-> "RESERVE_FILL", locked |-> FALSE, overrides |-> 1]
                            ELSE db.duties[no]])
            /\ Answer(r, "ok")

\* ---- rotate ----------------------------------------------------------------------------------------

\* A slip: a manual duty is rotated like a generated one.
EditableUnlocked == {no \in DOMAIN db.duties : ~db.duties[no].locked}

Editable == {no \in DOMAIN db.duties :
                ~db.duties[no].locked /\ (db.duties[no].group = None \/ db.duties[no].source = "GENERATED")}

\* A matching of the day: a rotating group runs one slot at most, an editable
\* slot no group matched stays as it is.
Matchings == {m \in [1..Slots -> Rotating \cup {None}] :
                \A a, b \in 1..Slots : a # b /\ m[a] = m[b] => m[a] = None}

ReadRotate(r) ==
    /\ r.kind = "rotate" /\ r.phase = "sent"
    /\ IF db.published \/ (Editable # {} /\ ~db.fits) THEN Refuse(r)
       ELSE IF Editable = {} THEN Answer(r, "ok") /\ UNCHANGED <<db, shown, due, dialog, form, hist>>
       ELSE \E m \in Matchings :
                Read(r, [r EXCEPT !.solved = [no \in Numbers |-> IF no \in Editable \cap 1..Slots THEN m[no] ELSE None]])

SaveRotate(r) ==
    /\ r.kind = "rotate" /\ r.phase = "read"
    /\ Save(r, [no \in DOMAIN db.duties |->
                    IF r.solved[no] = None THEN db.duties[no]
                    ELSE [db.duties[no] EXCEPT !.group = r.solved[no], !.source = "GENERATED"]])
    /\ Replace(r, [r EXCEPT !.phase = "solved"])

\* _repair_period reads every duty that has a group, and may exchange the groups of
\* two it generated, of this date or of another, as often as it helps: a group it
\* had on one duty of the date is not put on a second.
Repairs(held) ==
    LET read == [no \in Numbers |-> IF no \in held THEN db.duties[no].group ELSE None] IN
    {new \in [Numbers -> Groups \cup {None}] :
        /\ new # read
        /\ \A no \in Numbers :
            new[no] # read[no] => no \in held /\ db.duties[no].source = "GENERATED" /\ new[no] \in Rotating
        /\ \A a, b \in held : a # b /\ new[a] = new[b]
            => \E c, d \in held : c # d /\ read[c] = new[a] /\ read[d] = new[a]}

ReadRepair(r) ==
    /\ r.kind = "rotate" /\ r.phase = "solved"
    /\ \/ Answer(r, "ok")
       \/ \E new \in Repairs(DOMAIN db.duties \ Held(db.duties, None)) :
            Replace(r, [r EXCEPT !.phase = "mended", !.read = hist.writes, !.solved = new])
    /\ UNCHANGED <<db, shown, due, dialog, form, hist>>

\* All it read is written back, the duties it did not swap as well.
SaveRepair(r) ==
    /\ r.kind = "rotate" /\ r.phase = "mended"
    /\ Save(r, [no \in DOMAIN db.duties |->
                    IF r.solved[no] = None THEN db.duties[no] ELSE [db.duties[no] EXCEPT !.group = r.solved[no]]])
    /\ Answer(r, "ok")

\* ---- the page hears of it -------------------------------------------------------------------------

\* The dialog turns to the duty of the answer, whichever was open and even if
\* none was; a dialog that was open keeps the group chosen in it.
Succeed(r) ==
    /\ r.phase = "ok" /\ Settle(r)
    /\ dialog' = IF r.kind \in {"assign", "lock", "substitute"}
                 THEN Detail(r.no, r.cell, IF dialog = None THEN r.cell.group ELSE dialog.choice)
                 ELSE dialog
    /\ due' = IF form.at = "periods" THEN due
              ELSE due \cup IF r.kind = "policy" THEN {} ELSE {"chart"}
    /\ UNCHANGED <<db, shown, form, hist>>

Fail(r) ==
    /\ r.phase = "error" /\ Settle(r)
    /\ UNCHANGED <<db, shown, due, dialog, form, hist>>

Next ==
    \/ OpenGrid \/ LoadChart \/ Browse
    \/ CloseDuty \/ OpenPolicy \/ ClosePolicy
    \/ SubmitLock \/ SubmitSubstitute \/ SubmitRotate \/ SubmitPublish \/ SubmitSurge
    \/ OtherPlans \/ GiveUp
    \/ \E no \in OnGrid : OpenDuty(no)
    \/ \E group \in Groups \cup {None} : ChooseGroup(group)
    \/ \E answer \in BOOLEAN : SubmitAssign(answer) \/ SubmitPolicy(answer)
    \/ \E r \in wire : \/ ReadAssign(r) \/ SaveAssign(r) \/ ServeLock(r) \/ ServeSubstitute(r) \/ ServePolicy(r)
                       \/ ReadPublish(r) \/ SavePublish(r) \/ ReadSurge(r) \/ SaveSurge(r)
                       \/ ReadRotate(r) \/ SaveRotate(r) \/ ReadRepair(r) \/ SaveRepair(r) \/ Succeed(r) \/ Fail(r)

Spec == Init /\ [][Next]_deskVars

\* ---- what it promises --------------------------------------------------------------------------------

\* What crew were told is a chart they can run: once published, no group is on
\* two duties of the date and no reserve group on a duty of the demand, unless
\* two planners' requests crossed.
PublishedIsClean ==
    db.published => \/ hist.crossed
                    \/ /\ Apart(db.duties)
                       /\ \A no \in 1..Slots : db.duties[no].group \notin Reserve

\* The duty's group is another after the step.
Regrouped(no) == db'.duties[no].group # db.duties[no].group

\* Auto-Rotate leaves alone what a planner set by hand or locked: such a duty
\* changes its group by an assignment only, and a locked one by none, unless the
\* request had read the chart before another changed it.  The repair is let off
\* for what an earlier rotation generated: see LockedStays.
PlannersChoiceStays ==
    \A no \in DOMAIN db.duties :
        LET duty == db.duties[no] IN
        Regrouped(no) /\ (duty.locked \/ (duty.group # None /\ duty.source # "GENERATED"))
            => \E r \in wire \ wire' : \/ Late(r)
                                       \/ r.kind = "assign" /\ r.no = no /\ ~duty.locked
                                       \/ r.phase = "mended" /\ duty.source = "GENERATED"

\* "a locked or manually-set duty is exactly as the planner left it": a request
\* that read a duty locked does not change its group.
LockedStays ==
    \A no \in DOMAIN db.duties :
        db.duties[no].locked /\ Regrouped(no) => \E r \in wire \ wire' : Late(r)

\* Publishing freezes the chart: from then on a change of a duty's group adds to
\* its overrides, unless it was under way when the chart was published, as a
\* repair then was.
PublishedChangeIsOnRecord ==
    \A no \in DOMAIN db.duties :
        db.published /\ Regrouped(no)
            => \/ db'.duties[no].overrides > db.duties[no].overrides
               \/ \E r \in wire \ wire' : Late(r) \/ r.phase = "mended"

\* ---- what the promises rest on ------------------------------------------------------------------------

\* The duties of the demand are there, and no reserve group is on one, even while
\* the chart is planned; only they are rotated.
SlotsInv ==
    /\ 1..Slots \subseteq DOMAIN db.duties
    /\ \A no \in 1..Slots : db.duties[no].group \notin Reserve /\ db.duties[no].source # "RESERVE_FILL"
    /\ \A no \in DOMAIN db.duties : db.duties[no].source = "GENERATED" => no \in 1..Slots

\* What a request is about is there, and what it is to write keeps the reserve out
\* of the demand.
Sound(r) ==
    /\ r.kind \in {"assign", "lock", "substitute"} => r.no \in DOMAIN db.duties
    /\ r.phase = "read" => r.kind \in {"assign", "publish", "surge", "rotate"}
    /\ r.phase = "mended" => r.kind = "rotate"
    /\ r.phase \in Holding => r.read <= hist.writes
    /\ r.kind = "assign" /\ r.phase = "read" /\ r.group \in Reserve => r.no \notin 1..Slots
    /\ r.kind = "rotate" /\ r.phase = "read"
        => \A no \in Numbers : r.solved[no] # None => no \in 1..Slots /\ r.solved[no] \in Rotating
    /\ r.phase = "mended" => \A no \in 1..Slots : r.solved[no] \notin Reserve

WireInv == \A r \in wire : Sound(r)

\* What a request has read.
Knows(r) ==
    /\ r.kind = "assign" => r.published = db.published /\ ~db.duties[r.no].locked /\ ~Taken(r.group, r.no)
    /\ r.kind = "publish" => Apart(db.duties)
    /\ r.kind = "surge" => Held(db.duties, r.group) = {}
    /\ r.kind = "rotate" /\ r.phase = "read"
        => ~db.published /\ \A no \in Numbers : r.solved[no] # None => no \in Editable
    /\ r.phase = "mended" => r.solved \in Repairs(DOMAIN db.duties \ Held(db.duties, None))

\* It still is so, unless others wrote since.
ReadInv == \A r \in wire : r.phase \in Holding /\ ~Late(r) => Knows(r)

CleanInv == db.published => hist.crossed \/ Apart(db.duties)

IInv == TypeOK /\ SlotsInv /\ WireInv /\ ReadInv /\ CleanInv
=============================================================================

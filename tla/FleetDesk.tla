------------------------------ MODULE FleetDesk ------------------------------
(***************************************************************************)
(* The fleet page (FleetPage.tsx) and the vehicle API behind it: the       *)
(* insurance file uploaded by a second request, the availability toggle    *)
(* with its confirmation when a service is due, and the workshop that      *)
(* schedules services meanwhile.  The handlers it shares with the drivers  *)
(* page are those of StaffDesk.                                            *)
(*                                                                         *)
(* Sections has "insurance" and "operational" among its members.  The text  *)
(* of the insurance section is its policy: 0 where there is none.          *)
(***************************************************************************)
EXTENDS StaffDesk

Status == {"ACTIVE", "INACTIVE", "IN_MAINTENANCE"}

Row == [state: States, status: Status, pending: SUBSET (1..MaxStamp), text: Texts, photo: Staff \cup {None}]

EditsIn(phases, row) ==
    [kind: {"update"}, who: Whos, id: Staff, phase: phases, section: Sections, payload: Pieces,
     photo: Staff \cup {None}, status: Status \cup {None}, row: row]
TogglesIn(phase, row) ==
    [kind: {"toggle"}, who: Whos, id: Staff, phase: {phase}, section: {None}, payload: [{} -> 0..MaxStamp],
     photo: {None}, status: Status, seen: SUBSET (1..MaxStamp), row: row]
Edits == EditsIn({"sent"}, {None}) \cup EditsIn({"read", "saved", "error"}, Row)
Toggles == TogglesIn("sent", {None}) \cup TogglesIn("read", Row)
Confirms == [kind: {"confirm"}, who: Whos, id: Staff, phase: {"sent"}]
Services == [kind: {"service"}, who: {"other"}, id: Staff, phase: {"saved"}]

Dialogs == DialogsOver(Row) \cup [kind: {"confirm"}, id: Staff] \cup [kind: {"view"}, id: Staff, seen: Row]
Forms == [wizard: Wizards, file: Staff \cup {None}, checking: SUBSET Staff]
Requests == Creates(Staff, {None}) \cup CreateAnswers(Staff, {None}) \cup Deletes \cup Edits \cup Toggles
              \cup Confirms \cup Services \cup Answers({"update", "delete", "toggle", "confirm"})
Hists == [opens: Nat, sends: 0..MaxSends, stamp: 0..MaxStamp, removed: SUBSET Staff, stale: SUBSET Staff,
          strayed: BOOLEAN]

TypeOK ==
    /\ db \in [Staff -> Row]
    /\ shown \in [{"list"} -> [DOMAIN Rows -> Row]]
    /\ dialog = None \/ dialog \in Dialogs
    /\ form \in Forms
    /\ wire \subseteq Requests
    /\ hist \in Hists
    /\ WellTyped

Init ==
    /\ db = [d \in Staff |-> [state |-> IF d \in Enrolled THEN "active" ELSE "none",
                              status |-> "ACTIVE", pending |-> {}, text |-> NewText, photo |-> None]]
    /\ shown = [k \in {"list"} |-> [d \in {} |-> None]]
    /\ due = {"list"}
    /\ dialog = None
    /\ form = NewForm
    /\ wire = {}
    /\ hist = NewHist

RefreshVehicles == Refresh
BrowseVehicles == Browse
RowButtons(d) == OpenEditPicker(d) \/ OpenRemoval(d) \/ Open([kind |-> "view", id |-> d, seen |-> Rows[d]])

\* The details stay those of the row as it was when they were opened; their
\* Edit button goes on with that row.
EditViewed ==
    /\ DialogIs("view")
    /\ dialog' = [kind |-> "picker", id |-> dialog.id, seen |-> dialog.seen]
    /\ UNCHANGED <<db, shown, due, form, wire, hist>>

ChooseVehicleSection(s) == ChooseEditSection(s)
BackToVehiclePicker == BackToPicker
TypeIntoVehicle == TypeText
FillVehicleStep == FillStep
NextVehicleStep == HandleNext
GoToVehicleStep(i) == GoToStep(i)
ConfirmRemoval == SubmitRemoval

\* A plain file input: the page has the file at once.
PickInsuranceFile ==
    /\ DialogIs("edit") /\ dialog.section = "insurance"
    /\ form' = [form EXCEPT !.file = dialog.id]
    /\ UNCHANGED <<db, shown, due, dialog, wire, hist>>

\* A blank policy is not sent; the operational section sends the status too,
\* the one the record showed or another the admin chose.
UpdateVehicle ==
    /\ DialogIs("edit") /\ ~Pending("update")
    /\ \E status \in IF dialog.section = "operational" THEN {dialog.seen.status, "ACTIVE"} ELSE {None} :
          Send([kind |-> "update", who |-> "desk", id |-> dialog.id, phase |-> "sent",
                section |-> dialog.section, photo |-> form.file, status |-> status,
                row |-> None,
                payload |-> [s \in {t \in {dialog.section} : t = "insurance" => dialog.text[t] # 0} |-> dialog.text[s]]])
    /\ UNCHANGED <<db, shown, due, dialog, form>>

\* A slip: the vehicle in the workshop is forgotten.
NeedsConfirmingIfInactive(d) == Rows[d].status = "INACTIVE" /\ Rows[d].pending # {}

\* The toggle: a confirmation if the row on the page is out of service with a
\* service due, else the opposite of the status the page shows.
NeedsConfirming(d) == Rows[d].status # "ACTIVE" /\ Rows[d].pending # {}

HandleToggleAvailability(d) ==
    /\ ~Pending("toggle") /\ ~Pending("confirm")
    /\ IF NeedsConfirming(d)
       THEN Open([kind |-> "confirm", id |-> d])
       ELSE /\ Send([kind |-> "toggle", who |-> "desk", id |-> d, phase |-> "sent", section |-> None,
                     seen |-> Rows[d].pending, payload |-> [s \in {} |-> 0], row |-> None,
                     status |-> IF Rows[d].status = "ACTIVE" THEN "INACTIVE" ELSE "ACTIVE", photo |-> None])
            /\ UNCHANGED <<db, shown, due, dialog, form>>

ConfirmAvailable ==
    /\ DialogIs("confirm") /\ ~Pending("confirm")
    /\ Send([kind |-> "confirm", who |-> "desk", id |-> dialog.id, phase |-> "sent"])
    /\ UNCHANGED <<db, shown, due, dialog, form>>

SubmitVehicle(d) ==
    /\ \E copy \in FreshCopies :
        SubmitWizard([kind |-> "create", who |-> "desk", id |-> d,
                     copy |-> copy, field |-> None, phase |-> "sent"])
    /\ UNCHANGED <<db, shown, due, dialog, form>>

\* ---- the server -----------------------------------------------------------------

ReadForUpdate(r) == r.kind \in {"update", "toggle"} /\ Read(r)

\* The vehicle is saved whole, as it was read; services and documents are rows
\* of their own.
Written(r) ==
    [r.row EXCEPT !.text = Merge(@, r.payload), !.status = IF r.status = None THEN @ ELSE r.status,
                  !.pending = db[r.id].pending, !.photo = db[r.id].photo]

SaveVehicle(r) ==
    /\ r.kind \in {"update", "toggle"} /\ r.phase = "read"
    /\ db' = [db EXCEPT ![r.id] = Written(r)]
    /\ hist' = [hist EXCEPT !.stale = @ \cup StaleIds(r)]
    /\ IF r.who = "desk" /\ r.section = "insurance" /\ r.photo # None /\ Written(r).text["insurance"] # 0
       THEN Replace(r, [r EXCEPT !.phase = "saved"])
       ELSE Reply(r, "ok")
    /\ UNCHANGED <<shown, due, dialog, form>>

\* attachDocumentFile, sent by the page after the answer of the update.
AttachDocumentFile(r) ==
    /\ r.kind = "update" /\ r.phase = "saved"
    /\ \/ db' = [db EXCEPT ![r.id].photo = r.photo] /\ Reply(r, "ok")
       \/ UNCHANGED db /\ Reply(r, "error")
    /\ UNCHANGED <<shown, due, dialog, form, hist>>

\* The upload times out: an error to the page, which does not hear that the
\* update was done.
AttachTimesOut(r) ==
    /\ r.kind = "update" /\ r.phase = "saved" /\ r.who = "desk"
    /\ wire' = (wire \ {r}) \cup {[r EXCEPT !.phase = "error"], [r EXCEPT !.who = "gone"]}
    /\ UNCHANGED <<db, shown, due, dialog, form, hist>>

\* confirm-available: the pending services are cancelled, the vehicle is active.
ServeConfirm(r) ==
    /\ r.kind = "confirm" /\ r.phase = "sent"
    /\ IF db[r.id].state = "active"
       THEN db' = [db EXCEPT ![r.id].pending = {}, ![r.id].status = "ACTIVE"] /\ Reply(r, "ok")
       ELSE UNCHANGED db /\ Reply(r, "error")
    /\ UNCHANGED <<shown, due, dialog, form, hist>>

\* The registration number is unique, removed vehicles included.
ServeVehicle(r) ==
    /\ r.kind = "create" /\ r.phase = "sent"
    /\ \/ db[r.id].state = "none" /\ db' = [db EXCEPT ![r.id].state = "active"] /\ Reply(r, "ok")
       \/ UNCHANGED db /\ Reply(r, "error")
    /\ UNCHANGED <<shown, due, dialog, form, hist>>

\* destroy is refused to a member of a group with published duties.
RemoveVehicle(r) ==
    \/ ServeRemoval(r, [db[r.id] EXCEPT !.state = "gone"])
    \/ /\ r.kind = "delete" /\ r.phase = "sent" /\ Reply(r, "error")
       /\ UNCHANGED <<db, shown, due, dialog, form, hist>>

\* ---- the workshop ----------------------------------------------------------------

\* perform_create of a schedule: the row first ...
ScheduleService(d) ==
    /\ hist.stamp < MaxStamp /\ hist.sends < MaxSends
    /\ db' = [db EXCEPT ![d].pending = @ \cup {hist.stamp + 1}]
    /\ wire' = wire \cup {[kind |-> "service", who |-> "other", id |-> d, phase |-> "saved"]}
    /\ hist' = [hist EXCEPT !.stamp = @ + 1, !.sends = @ + 1]
    /\ UNCHANGED <<shown, due, dialog, form>>

\* ... then the vehicle, with an UPDATE of that column.
TakeOffRoad(r) ==
    /\ r.kind = "service"
    /\ db' = IF db[r.id].state = "active" THEN [db EXCEPT ![r.id].status = "IN_MAINTENANCE"] ELSE db
    /\ wire' = wire \ {r}
    /\ UNCHANGED <<shown, due, dialog, form, hist>>

Next ==
    \/ RefreshVehicles \/ BrowseVehicles \/ OpenWizard \/ CloseDialog \/ GiveUp
    \/ BackToVehiclePicker \/ TypeIntoVehicle \/ PickInsuranceFile \/ UpdateVehicle
    \/ EditViewed \/ FillVehicleStep \/ NextVehicleStep \/ ConfirmRemoval \/ ConfirmAvailable
    \/ \E d \in DOMAIN Rows : RowButtons(d) \/ HandleToggleAvailability(d)
    \/ \E s \in Sections : ChooseVehicleSection(s)
    \/ \E i \in 0..LastStep : GoToVehicleStep(i)
    \/ \E d \in Staff : SubmitVehicle(d) \/ (d \in Active /\ ScheduleService(d))
    \/ \E r \in wire : \/ ReadForUpdate(r) \/ SaveVehicle(r) \/ AttachDocumentFile(r) \/ AttachTimesOut(r)
                       \/ ServeConfirm(r) \/ ServeVehicle(r) \/ RemoveVehicle(r) \/ TakeOffRoad(r)
                       \/ Succeed(r) \/ Fail(r)

Spec == Init /\ [][Next]_deskVars

\* A vehicle with a service due comes to be active only by a toggle from a
\* list that did not show the service yet, by the status field of the
\* operational section, by a save over a row written since it was read, or
\* while the workshop is at it; the toggle never overrides a service the page
\* showed.
ActiveWhileDue(d) == db[d].status = "ACTIVE" /\ db[d].pending # {}

ServiceNotOverridden ==
    \A d \in Staff : ~ActiveWhileDue(d) /\ ActiveWhileDue(d)' =>
        \/ db'[d].pending # db[d].pending
        \/ \E r \in wire \ wire' :
              /\ r.phase = "read" /\ r.id = d /\ r.kind \in {"toggle", "update"}
              /\ \/ r.kind = "toggle" /\ r.seen = {}
                 \/ r.section = "operational"
                 \/ r.row # db[d]
\* ---- why they hold: true of every state, and kept by every step -----------------------

\* What may put a vehicle back saw no service due, or is the status field.
ToggleInv ==
    \A r \in wire : r.phase \in {"sent", "read"} =>
        /\ r.kind = "toggle" /\ r.status = "ACTIVE" => r.seen = {}
        /\ r.kind = "update" /\ r.status # None => r.section = "operational"

IInv == TypeOK /\ RemovedInv /\ ToggleInv
=============================================================================

------------------------------ MODULE StaffDesk ------------------------------
(***************************************************************************)
(* What the drivers, collectors and fleet pages of the tenant portal       *)
(* share: a list, a wizard that enrols, a picker and a form that edit one  *)
(* section of a record, removal, and the REST view behind them.            *)
(*                                                                         *)
(* A stored section is the stamp of the text it holds; two texts typed at  *)
(* different times have different stamps.  A picture is the record whose   *)
(* form it was picked in.                                                  *)
(***************************************************************************)
EXTENDS Desk

CONSTANTS
    Staff,           \* records
    Enrolled,        \* those the server starts with
    Sections,        \* the sections of a record
    FileSections,    \* those with an upload field
    MaxStamp         \* bound on the texts typed and files picked

\* The wizard of each page has required fields in its first steps only; one
\* step stands for those, one for the rest.
LastStep == 1

NewWizard == [step |-> 0, max |-> 0, filled |-> FALSE]

Texts == [Sections -> 0..MaxStamp]

NewText == [s \in Sections |-> 0]

NewForm == [wizard |-> NewWizard, file |-> None, checking |-> {}]

NewHist == [opens |-> 0, sends |-> 0, stamp |-> 0, removed |-> {}, stale |-> {}, strayed |-> FALSE]

States == {"none", "active", "gone"}
Wizards == [step: 0..LastStep, max: 0..LastStep, filled: BOOLEAN]
Whos == {"desk", "other", "gone"}

\* The texts of some sections.
Pieces == UNION {[S -> 0..MaxStamp] : S \in SUBSET Sections}

\* The dialogs all three pages have, over rows of the list.
DialogsOver(listed) ==
    [kind: {"create"}] \cup [kind: {"delete"}, id: Staff] \cup [kind: {"picker"}, id: Staff, seen: listed]
      \cup [kind: {"edit"}, id: Staff, seen: listed, section: Sections, text: Texts]

\* The requests all three pages send: an update holds the row once it has read it.
Creates(ids, fields) ==
    [kind: {"create"}, who: Whos, id: ids, copy: 0..MaxSends, field: fields, phase: {"sent"}]
Deletes == [kind: {"delete"}, who: Whos, id: Staff, phase: {"sent"}]
UpdatesIn(phase, row) == [kind: {"update"}, who: Whos, id: Staff, phase: {phase}, section: Sections,
                          payload: Pieces, photo: Staff \cup {None}, row: row]
Updates(row) == UpdatesIn("sent", {None}) \cup UpdatesIn("read", row)

\* The answers to them.
CreateAnswers(ids, fields) ==
    [kind: {"create"}, who: {"desk"}, id: ids, copy: 0..MaxSends, field: fields, phase: {"ok", "error"}]
Answers(kinds) == [kind: kinds, who: {"desk"}, id: Staff, phase: {"ok", "error"}]

StaffAssumption == MaxSends \in Nat /\ MaxStamp \in Nat

Active == {d \in Staff : db[d].state = "active"}

\* What the list endpoint answers, and the page shows.
Listing == [d \in Active |-> db[d]]
Rows == shown["list"]

DialogIs(kind) == dialog # None /\ dialog.kind = kind

\* An update carries the fields of its section, and what is read was there.
Scoped(r) ==
    /\ r.kind = "update" /\ r.phase \in {"sent", "read"} => DOMAIN r.payload \subseteq {r.section}
    /\ r.phase = "read" => r.row.state = "active"

WellTyped ==
    /\ DOMAIN Rows \subseteq Staff /\ \A d \in DOMAIN Rows : Rows[d].state = "active"
    /\ due \subseteq {"list"}
    /\ \A r \in wire : Scoped(r)

\* ---- the list --------------------------------------------------------------

Refresh == Arrive("list", Listing)

Browse == Ask("list")

\* ---- opening and closing dialogs -------------------------------------------

OpenEditPicker(d) == Open([kind |-> "picker", id |-> d, seen |-> Rows[d]])

OpenRemoval(d) == Open([kind |-> "delete", id |-> d])

OpenWizard == Open([kind |-> "create"])

\* A slip: a file picked in the form before is kept.
ChooseEditSectionWithFile(s) ==
    /\ DialogIs("picker")
    /\ dialog' = [kind |-> "edit", id |-> dialog.id, seen |-> dialog.seen,
                  section |-> s, text |-> dialog.seen.text]
    /\ UNCHANGED <<db, shown, due, form, wire, hist>>

\* The whole record seeds the form, whichever section is chosen.
ChooseEditSection(s) ==
    /\ DialogIs("picker")
    /\ dialog' = [kind |-> "edit", id |-> dialog.id, seen |-> dialog.seen,
                  section |-> s, text |-> dialog.seen.text]
    /\ form' = [form EXCEPT !.file = None]
    /\ UNCHANGED <<db, shown, due, wire, hist>>

\* The arrow in the form: the picker again, the file left as it is.
BackToPicker ==
    /\ DialogIs("edit")
    /\ dialog' = [kind |-> "picker", id |-> dialog.id, seen |-> dialog.seen]
    /\ UNCHANGED <<db, shown, due, form, wire, hist>>

ResetWizard(f) == [f EXCEPT !.wizard = NewWizard]

\* Cancel and X stay live while a request is pending.
CloseDialog ==
    /\ dialog # None
    /\ dialog' = None
    /\ form' = IF dialog.kind = "edit" THEN [form EXCEPT !.file = None]
               ELSE IF dialog.kind = "create" THEN ResetWizard(form) ELSE form
    /\ UNCHANGED <<db, shown, due, wire, hist>>

\* ---- editing a section ------------------------------------------------------

TypeText ==
    /\ DialogIs("edit") /\ hist.stamp < MaxStamp
    /\ dialog' = [dialog EXCEPT !.text[dialog.section] = hist.stamp + 1]
    /\ hist' = [hist EXCEPT !.stamp = @ + 1]
    /\ UNCHANGED <<db, shown, due, form, wire>>

\* PhotoUploadField reads the file before it hands it on.
PickPhoto ==
    /\ DialogIs("edit") /\ dialog.section \in FileSections
    /\ hist.stamp < MaxStamp
    /\ form' = [form EXCEPT !.checking = @ \cup {dialog.id}]
    /\ hist' = [hist EXCEPT !.stamp = @ + 1]
    /\ UNCHANGED <<db, shown, due, dialog, wire>>

\* The file is an image (handed to the page, whatever it shows by then) or not.
PhotoChecked(d) ==
    /\ d \in form.checking
    /\ \E file \in {form.file, d} :
          form' = [form EXCEPT !.checking = @ \ {d}, !.file = file]
    /\ hist' = [hist EXCEPT !.strayed = @ \/ ~DialogIs("edit") \/ dialog.id # d]
    /\ UNCHANGED <<db, shown, due, dialog, wire>>

\* Only the chosen section's fields travel.
HandleUpdate ==
    /\ DialogIs("edit") /\ ~Pending("update")
    /\ Send([kind |-> "update", who |-> "desk", id |-> dialog.id, phase |-> "sent", section |-> dialog.section,
             payload |-> [s \in {dialog.section} |-> dialog.text[s]], photo |-> form.file, row |-> None])
    /\ UNCHANGED <<db, shown, due, dialog, form>>

\* ---- the wizard --------------------------------------------------------------

\* Typing into, or clearing, the required fields.
FillStep ==
    /\ dialog = [kind |-> "create"] /\ form.wizard.step = 0
    /\ form' = [form EXCEPT !.wizard.filled = ~@]
    /\ UNCHANGED <<db, shown, due, dialog, wire, hist>>

HandleNext ==
    /\ dialog = [kind |-> "create"] /\ form.wizard.step < LastStep
    /\ form.wizard.filled
    /\ form' = [form EXCEPT !.wizard.step = @ + 1, !.wizard.max = LastStep]
    /\ UNCHANGED <<db, shown, due, dialog, wire, hist>>

\* A tab of the step indicator, or Back.
GoToStep(i) ==
    /\ dialog = [kind |-> "create"] /\ i <= form.wizard.max /\ i # form.wizard.step
    /\ form' = [form EXCEPT !.wizard.step = i]
    /\ UNCHANGED <<db, shown, due, dialog, wire, hist>>

\* Tells a request of the wizard from those under way: the least number that does.
Fresh(n) == \A r \in wire : r.kind = "create" => r.copy # n

FreshCopies == {n \in 0..MaxSends : Fresh(n) /\ \A m \in 0..MaxSends : Fresh(m) => n <= m}

\* handleSubmit validates every field again.  The button waits for the
\* pending request; Enter does not (requestSubmit), so a second request can
\* follow the first.
SubmitWizard(r) ==
    /\ dialog = [kind |-> "create"] /\ form.wizard.step = LastStep /\ form.wizard.filled
    /\ hist.sends < MaxSends
    /\ wire' = wire \cup {r}
    /\ hist' = [hist EXCEPT !.sends = @ + 1]

\* ---- removing ------------------------------------------------------------------

SubmitRemoval ==
    /\ DialogIs("delete") /\ ~Pending("delete")
    /\ Send([kind |-> "delete", who |-> "desk", id |-> dialog.id, phase |-> "sent"])
    /\ UNCHANGED <<db, shown, due, dialog, form>>

\* ---- the server ---------------------------------------------------------------

\* The answer: of the request it leaves what the page's handlers still read.
Told(r, phase) ==
    IF r.kind = "create"
    THEN [kind |-> "create", who |-> "desk", id |-> r.id, copy |-> r.copy, field |-> r.field, phase |-> phase]
    ELSE [kind |-> r.kind, who |-> "desk", id |-> r.id, phase |-> phase]

Reply(r, phase) == wire' = IF r.who = "desk" THEN (wire \ {r}) \cup {Told(r, phase)} ELSE wire \ {r}

\* get_object: 404 unless the row is there and not deleted.
Read(r) ==
    /\ r.phase = "sent"
    /\ IF db[r.id].state = "active"
       THEN Replace(r, [r EXCEPT !.phase = "read", !.row = db[r.id]])
       ELSE Reply(r, "error")
    /\ UNCHANGED <<db, shown, due, dialog, form, hist>>

\* A slip: what a PATCH does not mention is blanked, as by a PUT.
MergeAsPut(text, payload) == [s \in Sections |-> IF s \in DOMAIN payload THEN payload[s] ELSE 0]

Merge(text, payload) == [s \in Sections |-> IF s \in DOMAIN payload THEN payload[s] ELSE text[s]]

Patched(r) ==
    [r.row EXCEPT !.text = Merge(@, r.payload), !.photo = IF r.photo = None THEN @ ELSE r.photo]

\* Somebody wrote the row since the request read it.
StaleIds(r) == IF db[r.id] = r.row THEN {} ELSE {r.id}

\* serializer.save() writes every column of the row it read, the deletion flag
\* included.
SaveUpdate(r) ==
    /\ r.kind = "update" /\ r.phase = "read"
    /\ db' = [db EXCEPT ![r.id] = Patched(r)]
    /\ Reply(r, "ok")
    /\ hist' = [hist EXCEPT !.stale = @ \cup StaleIds(r)]
    /\ UNCHANGED <<shown, due, dialog, form>>

\* DELETE: `left` is what a removed row becomes.
ServeRemoval(r, left) ==
    /\ r.kind = "delete" /\ r.phase = "sent"
    /\ IF db[r.id].state = "active"
       THEN db' = [db EXCEPT ![r.id] = left] /\ Reply(r, "ok")
       ELSE UNCHANGED db /\ Reply(r, "error")
    /\ UNCHANGED <<shown, due, dialog, form, hist>>

\* ---- the page hears of it ------------------------------------------------------

\* A slip: the list is not asked again.
SucceedQuietly(r) ==
    /\ r.phase = "ok" /\ Settle(r)
    /\ dialog' = None
    /\ hist' = IF r.kind = "delete" THEN [hist EXCEPT !.removed = @ \cup {r.id}] ELSE hist
    /\ UNCHANGED <<db, shown, due, form>>

\* onSuccess: the dialog of that kind closes, whichever record it is open for
\* by now, and the list is asked again.
Succeed(r) ==
    /\ r.phase = "ok" /\ Settle(r)
    /\ dialog' = IF DialogIs(IF r.kind = "update" THEN "edit" ELSE r.kind) THEN None ELSE dialog
    /\ form' = IF r.kind = "update" THEN [form EXCEPT !.file = None]
               ELSE IF r.kind = "create" THEN ResetWizard(form) ELSE form
    /\ Invalidate({"list"})
    /\ hist' = IF r.kind = "delete" THEN [hist EXCEPT !.removed = @ \cup {r.id}] ELSE hist
    /\ UNCHANGED <<db, shown>>

\* A toast: dialogs and lists stay.
Fail(r) ==
    /\ r.phase = "error" /\ Settle(r)
    /\ UNCHANGED <<db, shown, due, dialog, form, hist>>

\* ---- a colleague at another page -------------------------------------------------

ColleagueEdits(d, s) ==
    /\ db[d].state = "active" /\ hist.stamp < MaxStamp
    /\ db' = [db EXCEPT ![d].text[s] = hist.stamp + 1]
    /\ hist' = [hist EXCEPT !.stamp = @ + 1]
    /\ UNCHANGED <<shown, due, dialog, form, wire>>

\* ---- the steps all three pages take -----------------------------------------------

CommonStep ==
    \/ Refresh \/ Browse \/ OpenWizard \/ CloseDialog \/ BackToPicker \/ TypeText \/ PickPhoto
    \/ FillStep \/ HandleNext \/ SubmitRemoval \/ GiveUp
    \/ \E d \in DOMAIN Rows : OpenEditPicker(d) \/ OpenRemoval(d)
    \/ \E s \in Sections : ChooseEditSection(s)
    \/ \E i \in 0..LastStep : GoToStep(i)
    \/ \E d \in Staff : PhotoChecked(d) \/ \E s \in Sections : ColleagueEdits(d, s)
    \/ \E r \in wire : Succeed(r)

\* ---- what they promise --------------------------------------------------------------

\* PATCH scoping (handleUpdate): a text typed by anyone is taken back to an
\* older one only through the form of that very section, or by a save over a
\* row that somebody wrote after it was read.
SectionKept ==
    \A d \in Staff, s \in Sections :
        db'[d].text[s] < db[d].text[s] /\ db'[d].state = "active" =>
            \E r \in wire \ wire' :
                /\ r.phase = "read" /\ r.id = d
                /\ \/ r.kind = "update" /\ r.section = s
                   \/ r.row # db[d]

\* A record shows another one's picture only when the check of a picked file
\* ended after the dialog it was picked in was gone.
PhotoBelongs ==
    \A d \in Staff : db[d].photo \in {None, d} \/ hist.strayed

\* A list at rest has no record this page removed, unless a save over a stale
\* row has brought it back.
RestingListKnowsRemoved ==
    due = {} => DOMAIN Rows \cap hist.removed \subseteq hist.stale
\* ---- why they hold: true of every state, and kept by every step -----------------------

\* A removed record is gone, or a save over a stale row has brought it back.
GoneOrStale(d) == db[d].state = "gone" \/ d \in hist.stale

RemovedInv ==
    /\ \A d \in hist.removed : GoneOrStale(d)
    /\ \A r \in wire : r.kind = "delete" /\ r.phase = "ok" => GoneOrStale(r.id)
    /\ RestingListKnowsRemoved

\* No picture is on its way to another record: not in the form, nor in an
\* update, nor in the row it has read.
Own(photo, d) == photo \in {None, d}

PhotoInv ==
    hist.strayed \/
        /\ \A d \in Staff : Own(db[d].photo, d)
        /\ DialogIs("edit") => Own(form.file, dialog.id)
        /\ \A r \in wire : /\ r.kind = "update" /\ r.phase \in {"sent", "read"} => Own(r.photo, r.id)
                           /\ r.kind = "update" /\ r.phase = "read" => Own(r.row.photo, r.id)
=============================================================================

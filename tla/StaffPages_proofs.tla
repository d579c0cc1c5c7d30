-------------------------- MODULE StaffPages_proofs --------------------------
(***************************************************************************)
(* Theorems about the pages of people and buses, of the instances Drivers, *)
(* Conductors, Fleet and Dispatch: for any staff, vehicles and crew, and   *)
(* any number of requests.  Each page has its own part, in the same order: *)
(* its types, what its steps do, its invariants, its theorems.             *)
(***************************************************************************)
EXTENDS StaffPages, FiniteSetTheorems, TLAPS

\* ---- the drivers page -----------------------------------------------------------------

\* ---- the drivers' requests -----------------------------------------------------------

LEMMA DriverOnePiece ==
  ASSUME NEW S \in SUBSET DriverSections, NEW f \in [S -> 0..MaxStamp]
  PROVE  f \in Drivers!Pieces
BY DEF Drivers!Pieces

LEMMA DriverMerged ==
  ASSUME NEW text \in Drivers!Texts, NEW payload \in Drivers!Pieces
  PROVE  Drivers!Merge(text, payload) \in Drivers!Texts
<1>1. PICK S \in SUBSET DriverSections : payload \in [S -> 0..MaxStamp]
  BY DEF Drivers!Pieces
<1> QED
  BY <1>1 DEF Drivers!Merge, Drivers!Texts

\* What the phase of a request says of it.
LEMMA DriverKindsOf ==
  ASSUME NEW r \in Drivers!Requests
  PROVE  /\ r.id \in Staff /\ r.who \in Drivers!Whos
         /\ r.kind = "create" => r \in Drivers!Creates(Staff, Drivers!Fields)
                \cup Drivers!CreateAnswers(Staff, Drivers!Fields)
         /\ r.kind = "update" /\ r.phase = "sent" => r \in Drivers!UpdatesIn("sent", {None})
         /\ r.kind = "update" /\ r.phase = "read" => r \in Drivers!UpdatesIn("read", Drivers!Row)
         /\ r.kind = "login" /\ r.phase = "sent"
                => r \in [kind: {"login"}, who: Drivers!Whos, id: Staff, phase: {"sent"}, row: {None}]
         /\ r.kind = "login" /\ r.phase = "read"
                => r \in [kind: {"login"}, who: Drivers!Whos, id: Staff, phase: {"read"}, row: Drivers!Row]
         /\ r.kind = "delete" /\ r.phase = "sent" => r \in Drivers!Deletes
         /\ r.kind \in {"create", "update", "delete", "login"}
         /\ r.phase \in {"sent", "read", "ok", "error"}
         /\ r.phase \in {"ok", "error"} => r.who = "desk"
         /\ r.phase = "read" => r.kind \in {"update", "login"} /\ r.row \in Drivers!Row
BY DEF Drivers!Requests, Drivers!Creates, Drivers!CreateAnswers, Drivers!Deletes, Drivers!Updates,
   Drivers!UpdatesIn, Drivers!Logins, Drivers!Answers, Drivers!Whos

LEMMA DriverToldType ==
  ASSUME NEW r \in Drivers!Requests, NEW phase \in {"ok", "error"}
  PROVE  Drivers!Told(r, phase) \in Drivers!Requests /\ Drivers!Scoped(Drivers!Told(r, phase))
<1>1. CASE r.kind = "create"
  <2>1. r.id \in Staff /\ r.copy \in 0..MaxSends /\ r.field \in Drivers!Fields
    BY <1>1, DriverKindsOf DEF Drivers!Creates, Drivers!CreateAnswers
  <2>2. Drivers!Told(r, phase) \in Drivers!CreateAnswers(Staff, Drivers!Fields)
    BY <1>1, <2>1 DEF Drivers!Told, Drivers!CreateAnswers
  <2> QED
    BY <2>2 DEF Drivers!Requests, Drivers!CreateAnswers, Drivers!Scoped
<1>2. CASE r.kind # "create"
  <2>1. Drivers!Told(r, phase) \in Drivers!Answers({"update", "delete", "login"})
    BY <1>2, DriverKindsOf DEF Drivers!Told, Drivers!Answers
  <2> QED
    BY <2>1 DEF Drivers!Requests, Drivers!Answers, Drivers!Scoped
<1> QED
  BY <1>1, <1>2

\* An answer takes the place of the request, if anybody waits for it.
LEMMA DriverReplied ==
  ASSUME Drivers!TypeOK, NEW r \in wire, NEW phase \in {"ok", "error"}, Drivers!Reply(r, phase)
  PROVE  /\ wire' \subseteq Drivers!Requests /\ \A q \in wire' : Drivers!Scoped(q)
         /\ \A q \in wire' : q \in wire \ {r} \/ q = Drivers!Told(r, phase)
<1>1. \A q \in wire' : q \in wire \ {r} \/ q = Drivers!Told(r, phase)
  BY DEF Drivers!Reply
<1> QED
  BY <1>1, DriverToldType DEF Drivers!TypeOK, Drivers!WellTyped

LEMMA DriverSendType ==
  ASSUME Drivers!TypeOK, Drivers!StaffAssumption, NEW r \in Drivers!Requests, Drivers!Scoped(r), Drivers!Send(r)
  PROVE  hist' \in Drivers!Hists /\ wire' \subseteq Drivers!Requests /\ \A q \in wire' : Drivers!Scoped(q)
<1>1. hist' \in Drivers!Hists
  BY DEF Drivers!TypeOK, Drivers!Hists, Drivers!Send, Drivers!StaffAssumption
<1>2. \A q \in wire' : q \in wire \/ q = r
  BY DEF Drivers!Send
<1> QED
  BY <1>1, <1>2 DEF Drivers!TypeOK, Drivers!WellTyped

\* The dialogs by kind.
LEMMA DriverDialogsBy ==
  ASSUME Drivers!TypeOK, dialog # None
  PROVE  /\ dialog.kind = "picker" => dialog \in [kind: {"picker"}, id: Staff, seen: Drivers!Row]
         /\ dialog.kind = "edit" => dialog \in [kind: {"edit"}, id: Staff, seen: Drivers!Row,
                section: DriverSections, text: Drivers!Texts]
         /\ dialog.kind = "delete" => dialog \in [kind: {"delete"}, id: Staff]
         /\ dialog.kind = "login" => dialog \in [kind: {"login"}, id: Staff]
         /\ dialog.kind \in {"create", "delete", "picker", "edit", "login"}
BY DEF Drivers!TypeOK, Drivers!Dialogs, Drivers!DialogsOver

\* Steps of the page alone.
LEMMA DriverDialogType ==
  ASSUME Drivers!TypeOK, UNCHANGED <<db, shown, wire>>, due' \subseteq {"list"}, dialog' = None
             \/ dialog' \in Drivers!Dialogs,
         form' \in Drivers!Forms, hist' \in Drivers!Hists
  PROVE  Drivers!TypeOK'
<1>1. Drivers!Rows' = Drivers!Rows /\ \A r : Drivers!Scoped(r)' <=> Drivers!Scoped(r)
  BY DEF Drivers!Rows, Drivers!Scoped
<1> QED
  BY <1>1 DEF Drivers!TypeOK, Drivers!WellTyped

\* Steps of the server and of requests.
LEMMA DriverServerType ==
  ASSUME Drivers!TypeOK, UNCHANGED <<shown, due, dialog>>, db' \in [Staff -> Drivers!Row],
             wire' \subseteq Drivers!Requests,
         \A q \in wire' : Drivers!Scoped(q), form' \in Drivers!Forms, hist' \in Drivers!Hists
  PROVE  Drivers!TypeOK'
<1>1. Drivers!Rows' = Drivers!Rows /\ \A r : Drivers!Scoped(r)' <=> Drivers!Scoped(r)
  BY DEF Drivers!Rows, Drivers!Scoped
<1> QED
  BY <1>1 DEF Drivers!TypeOK, Drivers!WellTyped
\* ---- types ---------------------------------------------------------------------------

LEMMA DriverInitType == Drivers!StaffAssumption /\ Drivers!Init => Drivers!TypeOK
<1> SUFFICES ASSUME Drivers!StaffAssumption, Drivers!Init PROVE Drivers!TypeOK
  OBVIOUS
<1>1. Drivers!NewText \in Drivers!Texts
  BY DEF Drivers!StaffAssumption, Drivers!NewText, Drivers!Texts
<1>2. db \in [Staff -> Drivers!Row]
  BY <1>1 DEF Drivers!Init, Drivers!Row, Drivers!States
<1>3. Drivers!Rows = [d \in {} |-> None]
  BY DEF Drivers!Init, Drivers!Rows
<1>4. shown \in [{"list"} -> [DOMAIN Drivers!Rows -> Drivers!Row]]
  BY <1>3 DEF Drivers!Init
<1>5. form \in Drivers!Forms
  BY DEF Drivers!Init, Drivers!Forms, Drivers!Wizards, Drivers!NewWizard, Drivers!LastStep
<1>6. hist \in Drivers!Hists
  BY DEF Drivers!Init, Drivers!Hists, Drivers!StaffAssumption
<1> QED
  BY <1>2, <1>3, <1>4, <1>5, <1>6 DEF Drivers!Init, Drivers!TypeOK, Drivers!WellTyped

LEMMA DriverClearedType ==
  ASSUME NEW f \in Drivers!Forms
  PROVE  Drivers!ResetWizard(f) \in Drivers!Forms /\ [f EXCEPT !.file = None] \in Drivers!Forms
<1>1. Drivers!NewWizard \in Drivers!Wizards
  BY DEF Drivers!Wizards, Drivers!NewWizard, Drivers!LastStep
<1> QED
  BY <1>1 DEF Drivers!Forms, Drivers!ResetWizard

LEMMA DriverOpenType ==
  ASSUME Drivers!TypeOK, NEW d \in Drivers!Dialogs, Drivers!Open(d)
  PROVE  Drivers!TypeOK'
<1>1. hist' \in Drivers!Hists
  BY DEF Drivers!TypeOK, Drivers!Hists, Drivers!Open
<1> QED
  BY <1>1, DriverDialogType DEF Drivers!Open, Drivers!TypeOK, Drivers!WellTyped

\* The gestures on the list and its dialogs.
LEMMA DriverBrowsingTypes ==
  ASSUME Drivers!TypeOK,
         \/ Drivers!Refresh \/ Drivers!Browse \/ Drivers!OpenWizard \/ Drivers!CloseDialog \/ Drivers!BackToPicker
         \/ \E d \in DOMAIN Drivers!Rows : Drivers!OpenEditPicker(d) \/ Drivers!OpenRemoval(d)
                \/ Drivers!OpenLogin(d)
         \/ \E s \in DriverSections : Drivers!ChooseEditSection(s)
  PROVE  Drivers!TypeOK'
<1>1. CASE Drivers!Refresh
  <2>1. Drivers!Rows' = Drivers!Listing
    BY <1>1 DEF Drivers!Refresh, Drivers!Arrive, Drivers!TypeOK, Drivers!Rows
  <2>2. Drivers!Listing \in [Drivers!Active -> Drivers!Row] /\ \A d \in Drivers!Active : d \in Staff
            /\ Drivers!Listing[d].state = "active"
    BY DEF Drivers!Listing, Drivers!Active, Drivers!TypeOK
  <2>3. shown' \in [{"list"} -> [DOMAIN Drivers!Rows' -> Drivers!Row]]
    BY <1>1, <2>1, <2>2 DEF Drivers!Refresh, Drivers!Arrive, Drivers!TypeOK
  <2>4. DOMAIN Drivers!Rows' \subseteq Staff /\ \A d \in DOMAIN Drivers!Rows' : Drivers!Rows'[d].state = "active"
    BY <2>1, <2>2
  <2>5. \A r : Drivers!Scoped(r)' <=> Drivers!Scoped(r)
    BY DEF Drivers!Scoped
  <2> QED
    BY <1>1, <2>3, <2>4, <2>5 DEF Drivers!Refresh, Drivers!Arrive, Drivers!TypeOK, Drivers!WellTyped
<1>2. CASE Drivers!Browse
  BY <1>2, DriverDialogType DEF Drivers!Browse, Drivers!Ask, Drivers!TypeOK, Drivers!WellTyped
<1>3. CASE Drivers!OpenWizard
  <2>1. [kind |-> "create"] \in Drivers!Dialogs
    BY DEF Drivers!Dialogs, Drivers!DialogsOver
  <2> QED
    BY <1>3, <2>1, DriverOpenType DEF Drivers!OpenWizard
<1>4. CASE Drivers!CloseDialog
  <2>1. form' \in Drivers!Forms
    BY <1>4, DriverClearedType DEF Drivers!CloseDialog, Drivers!TypeOK
  <2> QED
    BY <1>4, <2>1, DriverDialogType DEF Drivers!CloseDialog, Drivers!TypeOK, Drivers!WellTyped
<1>5. CASE Drivers!BackToPicker
  <2>1. dialog' \in [kind: {"picker"}, id: Staff, seen: Drivers!Row]
    BY <1>5, DriverDialogsBy DEF Drivers!BackToPicker, Drivers!DialogIs
  <2>2. dialog' \in Drivers!Dialogs
    BY <2>1 DEF Drivers!Dialogs, Drivers!DialogsOver
  <2> QED
    BY <1>5, <2>2, DriverDialogType DEF Drivers!BackToPicker, Drivers!TypeOK, Drivers!WellTyped
<1>6. ASSUME NEW d \in DOMAIN Drivers!Rows, Drivers!OpenEditPicker(d) \/ Drivers!OpenRemoval(d)
                 \/ Drivers!OpenLogin(d)
      PROVE  Drivers!TypeOK'
  <2>1. d \in Staff /\ Drivers!Rows[d] \in Drivers!Row
    BY DEF Drivers!TypeOK, Drivers!WellTyped, Drivers!Rows
  <2>2. [kind |-> "picker", id |-> d, seen |-> Drivers!Rows[d]] \in Drivers!Dialogs
    BY <2>1 DEF Drivers!Dialogs, Drivers!DialogsOver
  <2>3. [kind |-> "delete", id |-> d] \in Drivers!Dialogs /\ [kind |-> "login", id |-> d] \in Drivers!Dialogs
    BY <2>1 DEF Drivers!Dialogs, Drivers!DialogsOver
  <2> QED
    BY <1>6, <2>2, <2>3, DriverOpenType DEF Drivers!OpenEditPicker, Drivers!OpenRemoval, Drivers!OpenLogin
<1>7. ASSUME NEW s \in DriverSections, Drivers!ChooseEditSection(s)
      PROVE  Drivers!TypeOK'
  <2>1. dialog \in [kind: {"picker"}, id: Staff, seen: Drivers!Row] /\ dialog.seen.text \in Drivers!Texts
    BY <1>7, DriverDialogsBy DEF Drivers!ChooseEditSection, Drivers!DialogIs, Drivers!Row
  <2>2. dialog' \in [kind: {"edit"}, id: Staff, seen: Drivers!Row, section: DriverSections, text: Drivers!Texts]
    BY <1>7, <2>1 DEF Drivers!ChooseEditSection
  <2>3. dialog' \in Drivers!Dialogs
    BY <2>2 DEF Drivers!Dialogs, Drivers!DialogsOver
  <2>4. form' \in Drivers!Forms
    BY <1>7 DEF Drivers!ChooseEditSection, Drivers!TypeOK, Drivers!Forms
  <2> QED
    BY <1>7, <2>3, <2>4, DriverDialogType DEF Drivers!ChooseEditSection, Drivers!TypeOK, Drivers!WellTyped
<1> QED
  BY <1>1, <1>2, <1>3, <1>4, <1>5, <1>6, <1>7

\* Typing, picking, and the wizard.
LEMMA DriverFormTypes ==
  ASSUME Drivers!TypeOK, Drivers!StaffAssumption,
         \/ Drivers!TypeText \/ Drivers!PickPhoto \/ Drivers!FillStep \/ Drivers!HandleNext
         \/ \E i \in 0..Drivers!LastStep : Drivers!GoToStep(i)
         \/ \E d \in Staff : Drivers!PhotoChecked(d)
  PROVE  Drivers!TypeOK'
<1>1. CASE Drivers!TypeText
  <2>1. dialog \in [kind: {"edit"}, id: Staff, seen: Drivers!Row, section: DriverSections, text: Drivers!Texts]
    BY <1>1, DriverDialogsBy DEF Drivers!TypeText, Drivers!DialogIs
  <2>2. hist.stamp \in 0..MaxStamp /\ hist.stamp < MaxStamp
    BY <1>1 DEF Drivers!TypeText, Drivers!TypeOK, Drivers!Hists
  <2>3. dialog' \in [kind: {"edit"}, id: Staff, seen: Drivers!Row, section: DriverSections, text: Drivers!Texts]
    BY <1>1, <2>1, <2>2 DEF Drivers!TypeText, Drivers!Texts, Drivers!StaffAssumption
  <2>4. dialog' \in Drivers!Dialogs
    BY <2>3 DEF Drivers!Dialogs, Drivers!DialogsOver
  <2>5. hist' \in Drivers!Hists
    BY <1>1 DEF Drivers!TypeText, Drivers!TypeOK, Drivers!Hists, Drivers!StaffAssumption
  <2> QED
    BY <1>1, <2>4, <2>5, DriverDialogType DEF Drivers!TypeText, Drivers!TypeOK, Drivers!WellTyped
<1>2. CASE Drivers!PickPhoto
  <2>1. dialog.id \in Staff
    BY <1>2, DriverDialogsBy DEF Drivers!PickPhoto, Drivers!DialogIs
  <2>2. hist' \in Drivers!Hists
    BY <1>2 DEF Drivers!PickPhoto, Drivers!TypeOK, Drivers!Hists, Drivers!StaffAssumption
  <2>3. form' \in Drivers!Forms
    BY <1>2, <2>1 DEF Drivers!PickPhoto, Drivers!TypeOK, Drivers!Forms
  <2> QED
    BY <1>2, <2>2, <2>3, DriverDialogType DEF Drivers!PickPhoto, Drivers!TypeOK, Drivers!WellTyped
<1>3. CASE Drivers!FillStep
  <2>1. form' \in Drivers!Forms
    BY <1>3 DEF Drivers!FillStep, Drivers!TypeOK, Drivers!Forms, Drivers!Wizards
  <2> QED
    BY <1>3, <2>1, DriverDialogType DEF Drivers!FillStep, Drivers!TypeOK, Drivers!WellTyped
<1>4. CASE Drivers!HandleNext
  <2>1. form \in Drivers!Forms /\ form.wizard \in Drivers!Wizards
    BY DEF Drivers!TypeOK, Drivers!Forms
  <2>2. form'.wizard = [step |-> form.wizard.step + 1, max |-> Drivers!LastStep, filled |-> form.wizard.filled]
    BY <1>4, <2>1 DEF Drivers!HandleNext, Drivers!Forms, Drivers!Wizards
  <2>5. form.wizard.step = 0 /\ form.wizard.filled \in BOOLEAN
    BY <1>4, <2>1 DEF Drivers!HandleNext, Drivers!Wizards, Drivers!LastStep
  <2>3. form'.wizard \in Drivers!Wizards
    BY <2>2, <2>5 DEF Drivers!Wizards, Drivers!LastStep
  <2>4. form' \in Drivers!Forms
    BY <1>4, <2>1, <2>3 DEF Drivers!HandleNext, Drivers!Forms
  <2> QED
    BY <1>4, <2>4, DriverDialogType DEF Drivers!HandleNext, Drivers!TypeOK, Drivers!WellTyped
<1>5. ASSUME NEW i \in 0..Drivers!LastStep, Drivers!GoToStep(i)
      PROVE  Drivers!TypeOK'
  <2>1. form' \in Drivers!Forms
    BY <1>5 DEF Drivers!GoToStep, Drivers!TypeOK, Drivers!Forms, Drivers!Wizards
  <2> QED
    BY <1>5, <2>1, DriverDialogType DEF Drivers!GoToStep, Drivers!TypeOK, Drivers!WellTyped
<1>6. ASSUME NEW d \in Staff, Drivers!PhotoChecked(d)
      PROVE  Drivers!TypeOK'
  <2>1. PICK file \in {form.file, d} : form' = [form EXCEPT !.checking = @ \ {d}, !.file = file]
    BY <1>6 DEF Drivers!PhotoChecked
  <2>2. form' \in Drivers!Forms
    BY <2>1 DEF Drivers!TypeOK, Drivers!Forms
  <2>3. PICK b \in BOOLEAN : b = (~Drivers!DialogIs("edit") \/ dialog.id # d)
    OBVIOUS
  <2>4. hist' = [hist EXCEPT !.strayed = @ \/ b]
    BY <1>6, <2>3 DEF Drivers!PhotoChecked
  <2>5. hist' \in Drivers!Hists
    BY <2>4 DEF Drivers!TypeOK, Drivers!Hists
  <2> QED
    BY <1>6, <2>2, <2>5, DriverDialogType DEF Drivers!PhotoChecked, Drivers!TypeOK, Drivers!WellTyped
<1> QED
  BY <1>1, <1>2, <1>3, <1>4, <1>5, <1>6

\* Requests of the page.
LEMMA DriverSendingTypes ==
  ASSUME Drivers!TypeOK, Drivers!StaffAssumption,
         \/ Drivers!HandleUpdate \/ Drivers!SubmitRemoval \/ Drivers!SubmitLogin \/ Drivers!GiveUp
         \/ \E d \in Staff : Drivers!SubmitDriver(d) \/ Drivers!ColleagueRequestsLogin(d)
  PROVE  Drivers!TypeOK'
<1>1. CASE Drivers!HandleUpdate
  <2> DEFINE r == [kind |-> "update", who |-> "desk", id |-> dialog.id, phase |-> "sent",
          section |-> dialog.section,
                   payload |-> [s \in {dialog.section} |-> dialog.text[s]], photo |-> form.file, row |-> None]
  <2>1. dialog \in [kind: {"edit"}, id: Staff, seen: Drivers!Row, section: DriverSections, text: Drivers!Texts]
    BY <1>1, DriverDialogsBy DEF Drivers!HandleUpdate, Drivers!DialogIs
  <2>2. [s \in {dialog.section} |-> dialog.text[s]] \in [{dialog.section} -> 0..MaxStamp]
    BY <2>1 DEF Drivers!Texts
  <2>3. [s \in {dialog.section} |-> dialog.text[s]] \in Drivers!Pieces
    BY <2>1, <2>2, DriverOnePiece
  <2>4. form.file \in Staff \cup {None}
    BY DEF Drivers!TypeOK, Drivers!Forms
  <2>5. r \in Drivers!UpdatesIn("sent", {None})
    BY <2>1, <2>3, <2>4 DEF Drivers!UpdatesIn, Drivers!Whos
  <2>6. r \in Drivers!Requests /\ Drivers!Scoped(r)
    BY <2>5 DEF Drivers!Requests, Drivers!Updates, Drivers!Scoped
  <2>7. Drivers!Send(r) /\ UNCHANGED <<db, shown, due, dialog, form>>
    BY <1>1 DEF Drivers!HandleUpdate
  <2> HIDE DEF r
  <2> QED
    BY <2>6, <2>7, DriverSendType, DriverServerType DEF Drivers!TypeOK
<1>2. CASE Drivers!SubmitRemoval
  <2> DEFINE r == [kind |-> "delete", who |-> "desk", id |-> dialog.id, phase |-> "sent"]
  <2>1. dialog.id \in Staff
    BY <1>2, DriverDialogsBy DEF Drivers!SubmitRemoval, Drivers!DialogIs
  <2>2. r \in Drivers!Requests /\ Drivers!Scoped(r)
    BY <2>1 DEF Drivers!Requests, Drivers!Deletes, Drivers!Whos, Drivers!Scoped
  <2>3. Drivers!Send(r) /\ UNCHANGED <<db, shown, due, dialog, form>>
    BY <1>2 DEF Drivers!SubmitRemoval
  <2> HIDE DEF r
  <2> QED
    BY <2>2, <2>3, DriverSendType, DriverServerType DEF Drivers!TypeOK
<1>3. ASSUME NEW who \in Drivers!Whos, NEW d \in Staff,
             Drivers!Send([kind |-> "login", who |-> who, id |-> d, phase |-> "sent", row |-> None]),
             UNCHANGED <<db, shown, due, dialog, form>>
      PROVE  Drivers!TypeOK'
  <2> DEFINE r == [kind |-> "login", who |-> who, id |-> d, phase |-> "sent", row |-> None]
  <2>1. r \in Drivers!Requests /\ Drivers!Scoped(r)
    BY DEF Drivers!Requests, Drivers!Logins, Drivers!Scoped
  <2>2. Drivers!Send(r)
    BY <1>3
  <2> HIDE DEF r
  <2> QED
    BY <1>3, <2>1, <2>2, DriverSendType, DriverServerType DEF Drivers!TypeOK
<1>4. CASE Drivers!SubmitLogin
  <2>1. dialog.id \in Staff
    BY <1>4, DriverDialogsBy DEF Drivers!SubmitLogin, Drivers!DialogIs
  <2> QED
    BY <1>4, <2>1, <1>3 DEF Drivers!SubmitLogin, Drivers!Whos
<1>5. ASSUME NEW d \in Staff, Drivers!ColleagueRequestsLogin(d)
      PROVE  Drivers!TypeOK'
  BY <1>5, <1>3 DEF Drivers!ColleagueRequestsLogin, Drivers!Whos
<1>6. CASE Drivers!GiveUp
  <2>1. PICK r \in wire : /\ r.phase \in {"sent", "read"}
                          /\ wire' = wire \ {r} \/ wire' = (wire \ {r}) \cup {[r EXCEPT !.who = "gone"]}
                          /\ UNCHANGED <<db, shown, due, dialog, form, hist>>
    BY <1>6 DEF Drivers!GiveUp, Drivers!Replace
  <2>2. r \in Drivers!Requests /\ Drivers!Scoped(r)
    BY DEF Drivers!TypeOK, Drivers!WellTyped
  <2>3. [r EXCEPT !.who = "gone"] \in Drivers!Requests /\ Drivers!Scoped([r EXCEPT !.who = "gone"])
    <3>1. CASE r.kind = "create"
      <4>1. r \in Drivers!Creates(Staff, Drivers!Fields)
        BY <2>1, <2>2, <3>1, DriverKindsOf DEF Drivers!CreateAnswers
      <4> QED
        BY <4>1 DEF Drivers!Creates, Drivers!Requests, Drivers!Scoped, Drivers!Whos
    <3>2. CASE r.kind = "update" /\ r.phase = "sent"
      BY <2>2, <3>2, DriverKindsOf DEF Drivers!UpdatesIn, Drivers!Updates, Drivers!Requests, Drivers!Scoped,
         Drivers!Whos
    <3>3. CASE r.kind = "update" /\ r.phase = "read"
      BY <2>2, <3>3, DriverKindsOf DEF Drivers!UpdatesIn, Drivers!Updates, Drivers!Requests, Drivers!Scoped,
         Drivers!Whos
    <3>4. CASE r.kind = "login" /\ r.phase = "sent"
      BY <2>2, <3>4, DriverKindsOf DEF Drivers!Logins, Drivers!Requests, Drivers!Scoped, Drivers!Whos
    <3>5. CASE r.kind = "login" /\ r.phase = "read"
      BY <2>2, <3>5, DriverKindsOf DEF Drivers!Logins, Drivers!Requests, Drivers!Scoped, Drivers!Whos
    <3>6. CASE r.kind = "delete"
      BY <2>1, <2>2, <3>6, DriverKindsOf DEF Drivers!Deletes, Drivers!Requests, Drivers!Scoped, Drivers!Whos
    <3> QED
      BY <2>1, <2>2, <3>1, <3>2, <3>3, <3>4, <3>5, <3>6, DriverKindsOf
  <2>4. \A q \in wire' : q \in wire \/ q = [r EXCEPT !.who = "gone"]
    BY <2>1
  <2>5. wire' \subseteq Drivers!Requests /\ \A q \in wire' : Drivers!Scoped(q)
    BY <2>3, <2>4 DEF Drivers!TypeOK, Drivers!WellTyped
  <2> QED
    BY <2>1, <2>5, DriverServerType DEF Drivers!TypeOK
<1>7. ASSUME NEW d \in Staff, Drivers!SubmitDriver(d)
      PROVE  Drivers!TypeOK'
  <2>1. PICK field \in Drivers!Fields, copy \in Drivers!FreshCopies :
            Drivers!SubmitWizard([kind |-> "create", who |-> "desk", id |-> d, copy |-> copy, field |-> field,
                phase |-> "sent"])
    BY <1>7 DEF Drivers!SubmitDriver
  <2> DEFINE r == [kind |-> "create", who |-> "desk", id |-> d, copy |-> copy, field |-> field, phase |-> "sent"]
  <2>2. r \in Drivers!Creates(Staff, Drivers!Fields)
    BY DEF Drivers!Creates, Drivers!Whos, Drivers!FreshCopies
  <2>3. r \in Drivers!Requests /\ Drivers!Scoped(r)
    BY <2>2 DEF Drivers!Requests, Drivers!Scoped
  <2>4. Drivers!Send(r)
    BY <2>1 DEF Drivers!SubmitWizard, Drivers!Send
  <2> HIDE DEF r
  <2>5. form' \in Drivers!Forms
    BY <1>7 DEF Drivers!SubmitDriver, Drivers!TypeOK, Drivers!Forms
  <2>6. UNCHANGED <<db, shown, due, dialog>>
    BY <1>7 DEF Drivers!SubmitDriver
  <2> QED
    BY <2>3, <2>4, <2>5, <2>6, DriverSendType, DriverServerType DEF Drivers!TypeOK
<1> QED
  BY <1>1, <1>2, <1>4, <1>5, <1>6, <1>7

\* The server.
LEMMA DriverServerTypes ==
  ASSUME Drivers!TypeOK, Drivers!StaffAssumption,
         \E r \in wire : \/ Drivers!ReadForUpdate(r) \/ Drivers!SaveUpdate(r) \/ Drivers!ServeCreate(r)
                             \/ Drivers!RemoveDriver(r)
                         \/ Drivers!CheckLogin(r) \/ Drivers!GrantLogin(r)
  PROVE  Drivers!TypeOK'
<1>1. PICK r \in wire : \/ Drivers!ReadForUpdate(r) \/ Drivers!SaveUpdate(r) \/ Drivers!ServeCreate(r)
                            \/ Drivers!RemoveDriver(r)
                        \/ Drivers!CheckLogin(r) \/ Drivers!GrantLogin(r)
  OBVIOUS
<1>2. r \in Drivers!Requests /\ Drivers!Scoped(r) /\ r.id \in Staff /\ db[r.id] \in Drivers!Row
  BY DriverKindsOf DEF Drivers!TypeOK, Drivers!WellTyped
<1>3. ASSUME r.kind \in {"update", "login"}, Drivers!Read(r)
      PROVE  Drivers!TypeOK'
  <2>1. UNCHANGED <<db, shown, due, dialog, form, hist>> /\ r.phase = "sent"
    BY <1>3 DEF Drivers!Read
  <2>2. CASE db[r.id].state = "active"
    <3> DEFINE q == [r EXCEPT !.phase = "read", !.row = db[r.id]]
    <3>1. wire' = (wire \ {r}) \cup {q}
      BY <1>3, <2>2 DEF Drivers!Read, Drivers!Replace
    <3>2. q \in Drivers!Requests /\ Drivers!Scoped(q)
      <4>1. CASE r.kind = "update"
        <5>1. r \in Drivers!UpdatesIn("sent", {None})
          BY <1>2, <2>1, <4>1, DriverKindsOf
        <5>2. q \in Drivers!UpdatesIn("read", Drivers!Row)
          BY <1>2, <5>1 DEF Drivers!UpdatesIn
        <5>3. q.phase = "read" /\ q.row = db[r.id] /\ q.payload = r.payload /\ q.section = r.section
          BY <5>1 DEF Drivers!UpdatesIn
        <5> QED
          BY <1>2, <2>1, <2>2, <4>1, <5>2, <5>3 DEF Drivers!Requests, Drivers!Updates, Drivers!Scoped
      <4>2. CASE r.kind = "login"
        <5>1. r \in [kind: {"login"}, who: Drivers!Whos, id: Staff, phase: {"sent"}, row: {None}]
          BY <1>2, <2>1, <4>2, DriverKindsOf
        <5>2. q \in [kind: {"login"}, who: Drivers!Whos, id: Staff, phase: {"read"}, row: Drivers!Row]
          BY <1>2, <5>1
        <5>3. q.kind = "login" /\ q.row = db[r.id]
          BY <5>1
        <5> QED
          BY <2>2, <5>2, <5>3 DEF Drivers!Requests, Drivers!Logins, Drivers!Scoped
      <4> QED
        BY <1>3, <4>1, <4>2
    <3> HIDE DEF q
    <3>3. wire' \subseteq Drivers!Requests /\ \A p \in wire' : Drivers!Scoped(p)
      BY <3>1, <3>2 DEF Drivers!TypeOK, Drivers!WellTyped
    <3> QED
      BY <2>1, <3>3, DriverServerType DEF Drivers!TypeOK
  <2>3. CASE db[r.id].state # "active"
    <3>1. Drivers!Reply(r, "error")
      BY <1>3, <2>3 DEF Drivers!Read
    <3> QED
      BY <2>1, <3>1, DriverReplied, DriverServerType DEF Drivers!TypeOK
  <2> QED
    BY <2>2, <2>3
<1>4. ASSUME NEW phase \in {"ok", "error"}, Drivers!Reply(r, phase), db' \in [Staff -> Drivers!Row],
                 hist' \in Drivers!Hists,
             UNCHANGED <<shown, due, dialog, form>>
      PROVE  Drivers!TypeOK'
  BY <1>4, DriverReplied, DriverServerType DEF Drivers!TypeOK
<1>5. CASE Drivers!SaveUpdate(r)
  <2>1. r \in Drivers!UpdatesIn("read", Drivers!Row)
    BY <1>2, <1>5, DriverKindsOf DEF Drivers!SaveUpdate
  <2>2. r.row \in Drivers!Row /\ r.payload \in Drivers!Pieces /\ r.photo \in Staff \cup {None}
    BY <2>1 DEF Drivers!UpdatesIn
  <2>3. Drivers!Merge(r.row.text, r.payload) \in Drivers!Texts
    BY <2>2, DriverMerged DEF Drivers!Row
  <2>4. Drivers!Patched(r) \in Drivers!Row
    BY <2>2, <2>3 DEF Drivers!Patched, Drivers!Row
  <2>5. db' \in [Staff -> Drivers!Row]
    BY <1>2, <1>5, <2>4 DEF Drivers!SaveUpdate, Drivers!TypeOK
  <2>6. hist' \in Drivers!Hists
    <3>1. Drivers!StaleIds(r) \subseteq Staff
      BY <1>2 DEF Drivers!StaleIds
    <3> QED
      BY <1>5, <3>1 DEF Drivers!SaveUpdate, Drivers!TypeOK, Drivers!Hists
  <2> QED
    BY <1>4, <1>5, <2>5, <2>6 DEF Drivers!SaveUpdate
<1>6. CASE Drivers!ServeCreate(r)
  <2>1. [db EXCEPT ![r.id].state = "active"] \in [Staff -> Drivers!Row]
    BY <1>2 DEF Drivers!TypeOK, Drivers!Row, Drivers!States
  <2> QED
    BY <1>4, <1>6, <2>1 DEF Drivers!ServeCreate, Drivers!TypeOK
<1>7. CASE Drivers!RemoveDriver(r)
  <2>1. [db[r.id] EXCEPT !.state = "gone"] \in Drivers!Row
    BY <1>2 DEF Drivers!Row, Drivers!States
  <2> QED
    BY <1>2, <1>4, <1>7, <2>1 DEF Drivers!RemoveDriver, Drivers!ServeRemoval, Drivers!TypeOK
<1>8. CASE Drivers!CheckLogin(r)
  BY <1>3, <1>4, <1>8 DEF Drivers!CheckLogin, Drivers!TypeOK
<1>9. CASE Drivers!GrantLogin(r)
  <2>1. db' \in [Staff -> Drivers!Row]
    BY <1>2, <1>9 DEF Drivers!GrantLogin, Drivers!TypeOK, Drivers!Row
  <2>2. Drivers!StaleIds(r) \subseteq Staff
    BY <1>2 DEF Drivers!StaleIds
  <2>3. hist.accounts[r.id] + 1 \in Nat
    BY <1>2 DEF Drivers!TypeOK, Drivers!Hists
  <2>4. hist' \in Drivers!Hists
    BY <1>2, <1>9, <2>2, <2>3 DEF Drivers!GrantLogin, Drivers!TypeOK, Drivers!Hists
  <2> QED
    BY <1>4, <1>9, <2>1, <2>4 DEF Drivers!GrantLogin
<1>10. CASE Drivers!ReadForUpdate(r)
  BY <1>3, <1>10 DEF Drivers!ReadForUpdate
<1> QED
  BY <1>1, <1>5, <1>6, <1>7, <1>8, <1>9, <1>10

\* The page hears of it; the colleague.
LEMMA DriverHearingTypes ==
  ASSUME Drivers!TypeOK, Drivers!StaffAssumption,
         \/ \E r \in wire : Drivers!Succeed(r) \/ Drivers!FailDriver(r)
         \/ \E d \in Staff : Drivers!ColleagueEnrols(d) \/ \E s \in DriverSections : Drivers!ColleagueEdits(d, s)
  PROVE  Drivers!TypeOK'
<1>1. ASSUME NEW r \in wire, Drivers!Succeed(r)
      PROVE  Drivers!TypeOK'
  <2>1. r.id \in Staff
    BY DriverKindsOf DEF Drivers!TypeOK
  <2>2. form' \in Drivers!Forms
    BY <1>1, DriverClearedType DEF Drivers!Succeed, Drivers!TypeOK
  <2>3. hist' \in Drivers!Hists
    BY <1>1, <2>1 DEF Drivers!Succeed, Drivers!TypeOK, Drivers!Hists
  <2>4. dialog' = None \/ dialog' = dialog
    BY <1>1 DEF Drivers!Succeed
  <2>5. wire' \subseteq wire /\ due' \subseteq {"list"} /\ UNCHANGED <<db, shown>>
    BY <1>1 DEF Drivers!Succeed, Drivers!Settle, Drivers!Invalidate, Drivers!TypeOK, Drivers!WellTyped
  <2>6. Drivers!Rows' = Drivers!Rows /\ \A q : Drivers!Scoped(q)' <=> Drivers!Scoped(q)
    BY <2>5 DEF Drivers!Rows, Drivers!Scoped
  <2> QED
    BY <2>2, <2>3, <2>4, <2>5, <2>6 DEF Drivers!TypeOK, Drivers!WellTyped
<1>2. ASSUME NEW r \in wire, Drivers!FailDriver(r)
      PROVE  Drivers!TypeOK'
  <2>1. wire' \subseteq wire /\ UNCHANGED <<db, shown, due, dialog, hist>>
    BY <1>2 DEF Drivers!FailDriver, Drivers!Fail, Drivers!Settle
  <2>2. form' \in Drivers!Forms
    BY <1>2 DEF Drivers!FailDriver, Drivers!Fail, Drivers!TypeOK, Drivers!Forms, Drivers!Marked, Drivers!Fields
  <2>3. wire' \subseteq Drivers!Requests /\ \A q \in wire' : Drivers!Scoped(q)
    BY <2>1 DEF Drivers!TypeOK, Drivers!WellTyped
  <2> QED
    BY <2>1, <2>2, <2>3, DriverServerType DEF Drivers!TypeOK
<1>3. ASSUME NEW d \in Staff, Drivers!ColleagueEnrols(d)
      PROVE  Drivers!TypeOK'
  <2>1. db' \in [Staff -> Drivers!Row]
    BY <1>3 DEF Drivers!ColleagueEnrols, Drivers!TypeOK, Drivers!Row, Drivers!States
  <2>2. hist' \in Drivers!Hists
    BY <1>3 DEF Drivers!ColleagueEnrols, Drivers!TypeOK, Drivers!Hists, Drivers!StaffAssumption
  <2>3. UNCHANGED <<shown, due, dialog, form, wire>>
    BY <1>3 DEF Drivers!ColleagueEnrols
  <2>4. wire' \subseteq Drivers!Requests /\ \A q \in wire' : Drivers!Scoped(q)
    BY <2>3 DEF Drivers!TypeOK, Drivers!WellTyped
  <2> QED
    BY <2>1, <2>2, <2>3, <2>4, DriverServerType DEF Drivers!TypeOK
<1>4. ASSUME NEW d \in Staff, NEW s \in DriverSections, Drivers!ColleagueEdits(d, s)
      PROVE  Drivers!TypeOK'
  <2>1. hist.stamp \in 0..MaxStamp /\ hist.stamp < MaxStamp
    BY <1>4 DEF Drivers!ColleagueEdits, Drivers!TypeOK, Drivers!Hists
  <2>2. db[d] \in Drivers!Row /\ db[d].text \in Drivers!Texts
    BY DEF Drivers!TypeOK, Drivers!Row
  <2>3. [db[d].text EXCEPT ![s] = hist.stamp + 1] \in Drivers!Texts
    BY <2>1, <2>2 DEF Drivers!Texts, Drivers!StaffAssumption
  <2>4. [db[d] EXCEPT !.text[s] = hist.stamp + 1] \in Drivers!Row
    BY <2>2, <2>3 DEF Drivers!Row
  <2>5. db' \in [Staff -> Drivers!Row]
    BY <1>4, <2>4 DEF Drivers!ColleagueEdits, Drivers!TypeOK
  <2>6. hist' \in Drivers!Hists
    BY <1>4 DEF Drivers!ColleagueEdits, Drivers!TypeOK, Drivers!Hists, Drivers!StaffAssumption
  <2>7. UNCHANGED <<shown, due, dialog, form, wire>>
    BY <1>4 DEF Drivers!ColleagueEdits
  <2>8. wire' \subseteq Drivers!Requests /\ \A q \in wire' : Drivers!Scoped(q)
    BY <2>7 DEF Drivers!TypeOK, Drivers!WellTyped
  <2> QED
    BY <2>5, <2>6, <2>7, <2>8, DriverServerType DEF Drivers!TypeOK
<1> QED
  BY <1>1, <1>2, <1>3, <1>4

LEMMA DriverNextType ==
  ASSUME Drivers!TypeOK, Drivers!StaffAssumption, [Drivers!Next]_deskVars
  PROVE  Drivers!TypeOK'
<1>1. CASE UNCHANGED deskVars
  BY <1>1 DEF deskVars, Drivers!TypeOK, Drivers!WellTyped, Drivers!Rows, Drivers!Scoped
<1>2. CASE Drivers!Next
  BY <1>2, DriverBrowsingTypes, DriverFormTypes, DriverSendingTypes, DriverServerTypes,
     DriverHearingTypes DEF Drivers!Next, Drivers!CommonStep
<1> QED
  BY <1>1, <1>2

\* ---- what the steps do ------------------------------------------------------------------

\* The steps that leave the rows and the list on the page alone.
DriverPageStep ==
    \/ Drivers!Browse \/ Drivers!OpenWizard \/ Drivers!CloseDialog \/ Drivers!BackToPicker \/ Drivers!TypeText
           \/ Drivers!PickPhoto
    \/ Drivers!FillStep \/ Drivers!HandleNext \/ Drivers!SubmitRemoval \/ Drivers!GiveUp \/ Drivers!HandleUpdate
           \/ Drivers!SubmitLogin
    \/ \E d \in DOMAIN Drivers!Rows : Drivers!OpenEditPicker(d) \/ Drivers!OpenRemoval(d) \/ Drivers!OpenLogin(d)
    \/ \E s \in DriverSections : Drivers!ChooseEditSection(s)
    \/ \E i \in 0..Drivers!LastStep : Drivers!GoToStep(i)
    \/ \E d \in Staff : Drivers!PhotoChecked(d) \/ Drivers!SubmitDriver(d) \/ Drivers!ColleagueRequestsLogin(d)
    \/ \E r \in wire : Drivers!FailDriver(r)

\* A request as the page sends it: an update has what the form holds.
DriverSentNow(q) ==
    /\ q.phase = "sent"
    /\ q.kind = "update" => /\ Drivers!DialogIs("edit") /\ q.id = dialog.id /\ q.photo = form.file
                            /\ \A s \in DOMAIN q.payload : s \in DriverSections /\ q.payload[s] = dialog.text[s]

\* One request holds what the other does.
DriverAlike(q, p) ==
    /\ q.kind = p.kind /\ q.phase = p.phase /\ q.id = p.id
    /\ q.kind = "update" => q.payload = p.payload /\ q.photo = p.photo
    /\ q.phase = "read" => q.row = p.row

LEMMA DriverSendStep ==
  ASSUME Drivers!TypeOK, Drivers!StaffAssumption, DriverPageStep
  PROVE  /\ UNCHANGED <<db, shown>> /\ due \subseteq due'
         /\ hist'.removed = hist.removed /\ hist'.stale = hist.stale /\ hist'.accounts = hist.accounts
         /\ hist.stamp \in Nat /\ hist'.stamp \in Nat /\ hist.stamp <= hist'.stamp
         /\ \A q \in wire' : q \in wire \/ DriverSentNow(q) \/ \E p \in wire : DriverAlike(q, p)
<1> DEFINE Goal == /\ UNCHANGED <<db, shown>> /\ due \subseteq due'
                   /\ hist'.removed = hist.removed /\ hist'.stale = hist.stale /\ hist'.accounts = hist.accounts
                   /\ hist.stamp \in Nat /\ hist'.stamp \in Nat /\ hist.stamp <= hist'.stamp
                   /\ \A q \in wire' : q \in wire \/ DriverSentNow(q) \/ \E p \in wire : DriverAlike(q, p)
<1> SUFFICES Goal
  OBVIOUS
<1>0. hist \in Drivers!Hists /\ hist.stamp \in Nat
  BY DEF Drivers!TypeOK, Drivers!Hists, Drivers!StaffAssumption
<1>1. ASSUME wire' = wire, UNCHANGED <<db, shown>>, due \subseteq due', hist' = hist
      PROVE  Goal
  BY <1>0, <1>1
<1>2. ASSUME wire' = wire, UNCHANGED <<db, shown, due>>, hist' = [hist EXCEPT !.stamp = @ + 1]
      PROVE  Goal
  BY <1>0, <1>2 DEF Drivers!Hists
<1>3. ASSUME NEW d, Drivers!Open(d)
      PROVE  Goal
  BY <1>0, <1>3 DEF Drivers!Open, Drivers!Hists
<1>4. ASSUME NEW r, DriverSentNow(r), Drivers!Send(r), UNCHANGED <<db, shown, due>>
      PROVE  Goal
  BY <1>0, <1>4 DEF Drivers!Send, Drivers!Hists
<1>5. CASE Drivers!Browse
  BY <1>1, <1>5 DEF Drivers!Browse, Drivers!Ask
<1>6. CASE Drivers!CloseDialog \/ Drivers!BackToPicker \/ Drivers!FillStep \/ Drivers!HandleNext
           \/ (\E s \in DriverSections : Drivers!ChooseEditSection(s))
                  \/ \E i \in 0..Drivers!LastStep : Drivers!GoToStep(i)
  BY <1>1, <1>6 DEF Drivers!CloseDialog, Drivers!BackToPicker, Drivers!FillStep, Drivers!HandleNext,
     Drivers!ChooseEditSection, Drivers!GoToStep
<1>7. CASE Drivers!TypeText \/ Drivers!PickPhoto
  BY <1>2, <1>7 DEF Drivers!TypeText, Drivers!PickPhoto
<1>8. CASE Drivers!OpenWizard \/ \E d \in DOMAIN Drivers!Rows : Drivers!OpenEditPicker(d)
               \/ Drivers!OpenRemoval(d) \/ Drivers!OpenLogin(d)
  BY <1>3, <1>8 DEF Drivers!OpenWizard, Drivers!OpenEditPicker, Drivers!OpenRemoval, Drivers!OpenLogin
<1>9. ASSUME NEW d \in Staff, Drivers!PhotoChecked(d)
      PROVE  Goal
  <2>1. hist'.removed = hist.removed /\ hist'.stale = hist.stale /\ hist'.accounts = hist.accounts
        /\ hist'.stamp = hist.stamp
    BY <1>0, <1>9 DEF Drivers!PhotoChecked, Drivers!Hists
  <2> QED
    BY <1>0, <1>9, <2>1 DEF Drivers!PhotoChecked
<1>10. CASE Drivers!SubmitRemoval
  <2>3. PICK r : r = [kind |-> "delete", who |-> "desk", id |-> dialog.id, phase |-> "sent"]
    OBVIOUS
  <2>1. DriverSentNow(r)
    BY <2>3 DEF DriverSentNow
  <2>2. Drivers!Send(r) /\ UNCHANGED <<db, shown, due>>
    BY <1>10, <2>3 DEF Drivers!SubmitRemoval
  <2> HIDE DEF Goal
  <2> QED
    BY <1>4, <2>1, <2>2
<1>11. CASE Drivers!HandleUpdate
  <2>4. PICK r : r = [kind |-> "update", who |-> "desk", id |-> dialog.id, phase |-> "sent",
                      section |-> dialog.section, payload |-> [s \in {dialog.section} |-> dialog.text[s]],
                      photo |-> form.file, row |-> None]
    OBVIOUS
  <2>1. dialog.section \in DriverSections /\ Drivers!DialogIs("edit")
    BY <1>11, DriverDialogsBy DEF Drivers!HandleUpdate, Drivers!DialogIs
  <2>2. DriverSentNow(r)
    BY <2>1, <2>4 DEF DriverSentNow
  <2>3. Drivers!Send(r) /\ UNCHANGED <<db, shown, due>>
    BY <1>11, <2>4 DEF Drivers!HandleUpdate
  <2> HIDE DEF Goal
  <2> QED
    BY <1>4, <2>2, <2>3
<1>12. ASSUME NEW who, NEW d, Drivers!Send([kind |-> "login", who |-> who, id |-> d, phase |-> "sent",
                  row |-> None]),
              UNCHANGED <<db, shown, due>>
       PROVE  Goal
  <2> DEFINE r == [kind |-> "login", who |-> who, id |-> d, phase |-> "sent", row |-> None]
  <2>1. DriverSentNow(r) /\ Drivers!Send(r)
    BY <1>12 DEF DriverSentNow
  <2> HIDE DEF r, Goal
  <2> QED
    BY <1>4, <1>12, <2>1
<1>13. CASE Drivers!SubmitLogin \/ \E d \in Staff : Drivers!ColleagueRequestsLogin(d)
  <2>1. PICK d : d = dialog.id
    OBVIOUS
  <2> HIDE DEF Goal
  <2> QED
    BY <1>12, <1>13, <2>1 DEF Drivers!SubmitLogin, Drivers!ColleagueRequestsLogin
<1>14. ASSUME NEW d \in Staff, Drivers!SubmitDriver(d)
       PROVE  Goal
  <2>1. PICK field \in Drivers!Fields, copy \in Drivers!FreshCopies :
            Drivers!SubmitWizard([kind |-> "create", who |-> "desk", id |-> d, copy |-> copy, field |-> field,
                phase |-> "sent"])
    BY <1>14 DEF Drivers!SubmitDriver
  <2> DEFINE r == [kind |-> "create", who |-> "desk", id |-> d, copy |-> copy, field |-> field, phase |-> "sent"]
  <2>2. DriverSentNow(r) /\ Drivers!Send(r)
    BY <2>1 DEF DriverSentNow, Drivers!SubmitWizard, Drivers!Send
  <2>3. UNCHANGED <<db, shown, due>>
    BY <1>14 DEF Drivers!SubmitDriver
  <2> HIDE DEF r, Goal
  <2> QED
    BY <1>4, <2>2, <2>3
<1>15. CASE Drivers!GiveUp
  <2>1. PICK r \in wire : /\ r.phase \in {"sent", "read"}
                          /\ wire' = wire \ {r} \/ wire' = (wire \ {r}) \cup {[r EXCEPT !.who = "gone"]}
                          /\ UNCHANGED <<db, shown, due, dialog, form, hist>>
    BY <1>15 DEF Drivers!GiveUp, Drivers!Replace
  <2>2. r \in Drivers!Requests
    BY DEF Drivers!TypeOK
  <2>3. DriverAlike([r EXCEPT !.who = "gone"], r)
    <3>1. CASE r.kind \in {"create", "delete"}
      BY <2>1, <2>2, <3>1, DriverKindsOf DEF DriverAlike, Drivers!Creates, Drivers!CreateAnswers, Drivers!Deletes
    <3>2. CASE r.kind = "update" /\ r.phase = "sent"
      BY <2>2, <3>2, DriverKindsOf DEF DriverAlike, Drivers!UpdatesIn
    <3>3. CASE r.kind = "update" /\ r.phase = "read"
      BY <2>2, <3>3, DriverKindsOf DEF DriverAlike, Drivers!UpdatesIn
    <3>4. CASE r.kind = "login"
      BY <2>1, <2>2, <3>4, DriverKindsOf DEF DriverAlike
    <3> QED
      BY <2>1, <2>2, <3>1, <3>2, <3>3, <3>4, DriverKindsOf
  <2> QED
    BY <1>0, <2>1, <2>3
<1>16. ASSUME NEW r \in wire, Drivers!FailDriver(r)
       PROVE  Goal
  BY <1>0, <1>16 DEF Drivers!FailDriver, Drivers!Fail, Drivers!Settle
<1> HIDE DEF Goal
<1> QED
  BY <1>5, <1>6, <1>7, <1>8, <1>9, <1>10, <1>11, <1>13, <1>14, <1>15, <1>16 DEF DriverPageStep

\* What the server leaves of a request it has read: the row as it is.
DriverReadNow(q, r) ==
    /\ q.kind = r.kind /\ q.phase = "read" /\ q.id = r.id /\ q.row = db[r.id]
    /\ q.kind = "update" => q.payload = r.payload /\ q.photo = r.photo

LEMMA DriverReadStep ==
  ASSUME Drivers!TypeOK, NEW r \in wire, r.kind \in {"update", "login"}, Drivers!Read(r)
  PROVE  /\ UNCHANGED <<db, shown, due, dialog, form, hist>> /\ r.phase = "sent"
         /\ \A q \in wire' : q \in wire \/ DriverReadNow(q, r) \/ q = Drivers!Told(r, "error")
<1>1. UNCHANGED <<db, shown, due, dialog, form, hist>> /\ r.phase = "sent" /\ r \in Drivers!Requests
  BY DEF Drivers!Read, Drivers!TypeOK
<1>2. CASE db[r.id].state = "active"
  <2>1. DriverReadNow([r EXCEPT !.phase = "read", !.row = db[r.id]], r)
    <3>1. CASE r.kind = "update"
      <4>1. r \in Drivers!UpdatesIn("sent", {None})
        BY <1>1, <3>1, DriverKindsOf
      <4> QED
        BY <4>1 DEF DriverReadNow, Drivers!UpdatesIn
    <3>2. CASE r.kind = "login"
      <4>1. r \in [kind: {"login"}, who: Drivers!Whos, id: Staff, phase: {"sent"}, row: {None}]
        BY <1>1, <3>2, DriverKindsOf
      <4> QED
        BY <4>1, <3>2 DEF DriverReadNow
    <3> QED
      BY <3>1, <3>2
  <2> QED
    BY <1>1, <1>2, <2>1 DEF Drivers!Read, Drivers!Replace
<1>3. CASE db[r.id].state # "active"
  BY <1>1, <1>3 DEF Drivers!Read, Drivers!Reply
<1> QED
  BY <1>2, <1>3

\* What an answer says.
LEMMA DriverToldIs ==
  ASSUME NEW r, NEW phase
  PROVE  Drivers!Told(r, phase).kind = r.kind /\ Drivers!Told(r, phase).phase = phase
             /\ Drivers!Told(r, phase).id = r.id
BY DEF Drivers!Told

\* ---- removals ---------------------------------------------------------------------------

\* A step that keeps what is gone, and says so of the removals it answers.
LEMMA DriverRemovedKept ==
  ASSUME Drivers!TypeOK, Drivers!RemovedInv, \A d \in Staff : Drivers!GoneOrStale(d) => Drivers!GoneOrStale(d)',
         hist.stale \subseteq hist'.stale, hist'.removed = hist.removed, UNCHANGED shown, due \subseteq due',
         \A q \in wire' : \/ q \in wire \/ q.kind # "delete" \/ q.phase # "ok"
                          \/ Drivers!GoneOrStale(q.id)' \/ \E p \in wire : DriverAlike(q, p)
  PROVE  Drivers!RemovedInv'
<1>1. \A d \in hist.removed : d \in Staff
  BY DEF Drivers!TypeOK, Drivers!Hists
<1>2. \A p \in wire : p.id \in Staff
  BY DriverKindsOf DEF Drivers!TypeOK
<1>3. \A d \in hist'.removed : Drivers!GoneOrStale(d)'
  BY <1>1 DEF Drivers!RemovedInv
<1>4. ASSUME NEW q \in wire', q.kind = "delete", q.phase = "ok"
      PROVE  Drivers!GoneOrStale(q.id)'
  BY <1>2, <1>4 DEF Drivers!RemovedInv, DriverAlike
<1>5. Drivers!RestingListKnowsRemoved'
  BY DEF Drivers!RemovedInv, Drivers!RestingListKnowsRemoved, Drivers!Rows
<1> QED
  BY <1>3, <1>4, <1>5 DEF Drivers!RemovedInv

LEMMA DriverRemovedServed ==
  ASSUME Drivers!TypeOK, Drivers!RemovedInv, NEW r \in wire,
         \/ Drivers!ReadForUpdate(r) \/ Drivers!SaveUpdate(r) \/ Drivers!ServeCreate(r) \/ Drivers!RemoveDriver(r)
         \/ Drivers!CheckLogin(r) \/ Drivers!GrantLogin(r)
  PROVE  Drivers!RemovedInv'
<1>1. r \in Drivers!Requests /\ r.id \in Staff /\ db \in [Staff -> Drivers!Row] /\ hist \in Drivers!Hists
  BY DriverKindsOf DEF Drivers!TypeOK
<1>2. ASSUME NEW phase \in {"ok", "error"}, Drivers!Reply(r, phase), UNCHANGED <<shown, due>>,
             r.kind = "delete" /\ phase = "ok" => db'[r.id].state = "gone",
             \A d \in Staff : Drivers!GoneOrStale(d) => Drivers!GoneOrStale(d)',
             hist.stale \subseteq hist'.stale, hist'.removed = hist.removed
      PROVE  Drivers!RemovedInv'
  <2>1. \A q \in wire' : q \in wire \/ q = Drivers!Told(r, phase)
    BY <1>2 DEF Drivers!Reply
  <2>2. \A q \in wire' : \/ q \in wire \/ q.kind # "delete" \/ q.phase # "ok"
                         \/ Drivers!GoneOrStale(q.id)' \/ \E p \in wire : DriverAlike(q, p)
    BY <1>2, <2>1, DriverToldIs DEF Drivers!GoneOrStale
  <2> QED
    BY <1>2, <2>2, DriverRemovedKept
<1>3. ASSUME r.kind \in {"update", "login"}, Drivers!Read(r)
      PROVE  Drivers!RemovedInv'
  <2>1. UNCHANGED <<db, shown, due, hist>>
    BY <1>3, DriverReadStep
  <2>2. \A d : Drivers!GoneOrStale(d)' <=> Drivers!GoneOrStale(d)
    BY <2>1 DEF Drivers!GoneOrStale
  <2>3. \A q \in wire' : \/ q \in wire \/ q.kind # "delete" \/ q.phase # "ok"
                         \/ Drivers!GoneOrStale(q.id)' \/ \E p \in wire : DriverAlike(q, p)
    BY <1>3, DriverReadStep, DriverToldIs DEF DriverReadNow
  <2> QED
    BY <2>1, <2>2, <2>3, DriverRemovedKept
<1>4. CASE Drivers!SaveUpdate(r)
  <2>1. r.kind = "update" /\ r.phase = "read" /\ r.row.state = "active" /\ r.row \in Drivers!Row
    BY <1>1, <1>4, DriverKindsOf DEF Drivers!SaveUpdate, Drivers!TypeOK, Drivers!WellTyped, Drivers!Scoped
  <2>2. hist'.stale = hist.stale \cup Drivers!StaleIds(r) /\ hist'.removed = hist.removed
    BY <1>1, <1>4 DEF Drivers!SaveUpdate, Drivers!Hists
  <2>3. \A d \in Staff : d # r.id => db'[d] = db[d]
    BY <1>1, <1>4 DEF Drivers!SaveUpdate
  <2>4. Drivers!GoneOrStale(r.id) => r.id \in hist'.stale
    BY <2>1, <2>2 DEF Drivers!GoneOrStale, Drivers!StaleIds
  <2>5. \A d \in Staff : Drivers!GoneOrStale(d) => Drivers!GoneOrStale(d)'
    BY <2>2, <2>3, <2>4 DEF Drivers!GoneOrStale
  <2> QED
    BY <1>2, <1>4, <2>1, <2>2, <2>5 DEF Drivers!SaveUpdate
<1>5. CASE Drivers!ServeCreate(r)
  <2>1. UNCHANGED <<shown, due, hist>> /\ r.kind = "create"
    BY <1>5 DEF Drivers!ServeCreate
  <2>2. \A d \in Staff : Drivers!GoneOrStale(d) => Drivers!GoneOrStale(d)'
    BY <1>1, <1>5 DEF Drivers!ServeCreate, Drivers!GoneOrStale, Drivers!Row
  <2> QED
    BY <1>2, <1>5, <2>1, <2>2 DEF Drivers!ServeCreate
<1>6. CASE Drivers!RemoveDriver(r)
  <2>1. UNCHANGED <<shown, due, hist>>
    BY <1>6 DEF Drivers!RemoveDriver, Drivers!ServeRemoval
  <2>2. \A d \in Staff : Drivers!GoneOrStale(d) => Drivers!GoneOrStale(d)'
    BY <1>1, <1>6 DEF Drivers!RemoveDriver, Drivers!ServeRemoval, Drivers!GoneOrStale, Drivers!Row
  <2>3. CASE db[r.id].state = "active"
    <3>1. db'[r.id].state = "gone" /\ Drivers!Reply(r, "ok")
      BY <1>1, <1>6, <2>3 DEF Drivers!RemoveDriver, Drivers!ServeRemoval, Drivers!Row
    <3> QED
      BY <1>2, <2>1, <2>2, <3>1
  <2>4. CASE db[r.id].state # "active"
    <3>1. Drivers!Reply(r, "error")
      BY <1>6, <2>4 DEF Drivers!RemoveDriver, Drivers!ServeRemoval
    <3> QED
      BY <1>2, <2>1, <2>2, <3>1
  <2> QED
    BY <2>3, <2>4
<1>7. CASE Drivers!CheckLogin(r)
  <2>1. CASE db[r.id].login
    <3>1. Drivers!Reply(r, "error") /\ UNCHANGED <<db, shown, due, dialog, form, hist>> /\ r.kind = "login"
      BY <1>7, <2>1 DEF Drivers!CheckLogin
    <3>2. \A d \in Staff : Drivers!GoneOrStale(d) => Drivers!GoneOrStale(d)'
      BY <3>1 DEF Drivers!GoneOrStale
    <3> QED
      BY <1>2, <3>1, <3>2
  <2>2. CASE ~db[r.id].login
    BY <1>3, <1>7, <2>2 DEF Drivers!CheckLogin
  <2> QED
    BY <2>1, <2>2
<1>8. CASE Drivers!GrantLogin(r)
  <2>1. hist'.stale = hist.stale \cup Drivers!StaleIds(r) /\ hist'.removed = hist.removed
    BY <1>1, <1>8 DEF Drivers!GrantLogin, Drivers!Hists
  <2>2. \A d \in Staff : db'[d].state = db[d].state
    BY <1>1, <1>8 DEF Drivers!GrantLogin, Drivers!Row
  <2>3. \A d \in Staff : Drivers!GoneOrStale(d) => Drivers!GoneOrStale(d)'
    BY <2>1, <2>2 DEF Drivers!GoneOrStale
  <2> QED
    BY <1>2, <1>8, <2>1, <2>3 DEF Drivers!GrantLogin
<1>9. CASE Drivers!ReadForUpdate(r)
  BY <1>3, <1>9 DEF Drivers!ReadForUpdate
<1> QED
  BY <1>4, <1>5, <1>6, <1>7, <1>8, <1>9

LEMMA DriverRemovedStep ==
  ASSUME Drivers!TypeOK, Drivers!StaffAssumption, Drivers!RemovedInv, [Drivers!Next]_deskVars
  PROVE  Drivers!RemovedInv'
<1>1. CASE UNCHANGED deskVars
  BY <1>1 DEF deskVars, Drivers!RemovedInv, Drivers!GoneOrStale, Drivers!RestingListKnowsRemoved, Drivers!Rows
<1>2. CASE DriverPageStep
  <2>1. \A d : Drivers!GoneOrStale(d)' <=> Drivers!GoneOrStale(d)
    BY <1>2, DriverSendStep DEF Drivers!GoneOrStale
  <2>2. \A q \in wire' : \/ q \in wire \/ q.kind # "delete" \/ q.phase # "ok"
                         \/ Drivers!GoneOrStale(q.id)' \/ \E p \in wire : DriverAlike(q, p)
    BY <1>2, DriverSendStep DEF DriverSentNow
  <2> QED
    BY <1>2, <2>1, <2>2, DriverSendStep, DriverRemovedKept
<1>3. CASE Drivers!Refresh
  <2>1. Drivers!Rows' = Drivers!Listing /\ UNCHANGED <<db, wire, hist>>
    BY <1>3 DEF Drivers!Refresh, Drivers!Arrive, Drivers!TypeOK, Drivers!Rows
  <2>2. \A d : Drivers!GoneOrStale(d)' <=> Drivers!GoneOrStale(d)
    BY <2>1 DEF Drivers!GoneOrStale
  <2>3. Drivers!RestingListKnowsRemoved'
    BY <2>1 DEF Drivers!RestingListKnowsRemoved, Drivers!Listing, Drivers!Active, Drivers!RemovedInv,
       Drivers!GoneOrStale
  <2> QED
    BY <2>1, <2>2, <2>3 DEF Drivers!RemovedInv
<1>4. ASSUME NEW r \in wire, Drivers!Succeed(r)
      PROVE  Drivers!RemovedInv'
  <2>1. wire' \subseteq wire /\ due' # {} /\ UNCHANGED <<db, shown>>
    BY <1>4 DEF Drivers!Succeed, Drivers!Settle, Drivers!Invalidate
  <2>2. hist'.stale = hist.stale
    BY <1>4 DEF Drivers!Succeed, Drivers!TypeOK, Drivers!Hists
  <2>3. \A d \in hist'.removed : d \in hist.removed \/ (d = r.id /\ r.kind = "delete" /\ r.phase = "ok")
    BY <1>4 DEF Drivers!Succeed, Drivers!TypeOK, Drivers!Hists
  <2>4. \A d : Drivers!GoneOrStale(d)' <=> Drivers!GoneOrStale(d)
    BY <2>1, <2>2 DEF Drivers!GoneOrStale
  <2> QED
    BY <2>1, <2>3, <2>4 DEF Drivers!RemovedInv, Drivers!RestingListKnowsRemoved
<1>5. ASSUME NEW d \in Staff, Drivers!ColleagueEnrols(d) \/ \E s \in DriverSections : Drivers!ColleagueEdits(d, s)
      PROVE  Drivers!RemovedInv'
  <2>1. UNCHANGED <<shown, due, wire>> /\ hist'.stale = hist.stale /\ hist'.removed = hist.removed
    BY <1>5 DEF Drivers!ColleagueEnrols, Drivers!ColleagueEdits, Drivers!TypeOK, Drivers!Hists
  <2>2. \A e \in Staff : db'[e].state = db[e].state \/ db[e].state = "none"
    BY <1>5 DEF Drivers!ColleagueEnrols, Drivers!ColleagueEdits, Drivers!TypeOK, Drivers!Row
  <2>3. \A e \in Staff : Drivers!GoneOrStale(e) => Drivers!GoneOrStale(e)'
    BY <2>1, <2>2 DEF Drivers!GoneOrStale
  <2> QED
    BY <2>1, <2>3, DriverRemovedKept
<1>6. CASE Drivers!Next
  BY <1>2, <1>3, <1>4, <1>5, <1>6, DriverRemovedServed DEF Drivers!Next, Drivers!CommonStep, DriverPageStep
<1> QED
  BY <1>1, <1>6

\* ---- pictures ---------------------------------------------------------------------------

\* What the form holds is of the record it edits.
LEMMA DriverFormKept ==
  ASSUME Drivers!TypeOK, Drivers!PhotoInv, DriverPageStep, ~hist'.strayed
  PROVE  ~hist.strayed /\ (Drivers!DialogIs("edit")' => Drivers!Own(form'.file, dialog'.id))
<1>0. hist \in Drivers!Hists /\ form \in Drivers!Forms
  BY DEF Drivers!TypeOK
<1>1. ASSUME dialog' = dialog, form'.file = form.file, hist'.strayed = hist.strayed
      PROVE  ~hist.strayed /\ (Drivers!DialogIs("edit")' => Drivers!Own(form'.file, dialog'.id))
  BY <1>1 DEF Drivers!PhotoInv, Drivers!DialogIs
<1>2. ASSUME ~Drivers!DialogIs("edit")', hist'.strayed = hist.strayed
      PROVE  ~hist.strayed /\ (Drivers!DialogIs("edit")' => Drivers!Own(form'.file, dialog'.id))
  BY <1>2
<1>3. CASE Drivers!Browse \/ Drivers!FillStep \/ Drivers!HandleNext \/ Drivers!GiveUp
               \/ \E i \in 0..Drivers!LastStep : Drivers!GoToStep(i)
  BY <1>0, <1>1, <1>3 DEF Drivers!Browse, Drivers!Ask, Drivers!FillStep, Drivers!HandleNext, Drivers!GiveUp,
     Drivers!GoToStep, Drivers!Forms
<1>4. CASE Drivers!SubmitRemoval \/ Drivers!HandleUpdate \/ Drivers!SubmitLogin
               \/ \E d \in Staff : Drivers!ColleagueRequestsLogin(d)
  BY <1>0, <1>1, <1>4 DEF Drivers!SubmitRemoval, Drivers!HandleUpdate, Drivers!SubmitLogin,
     Drivers!ColleagueRequestsLogin, Drivers!Send, Drivers!Hists
<1>5. CASE Drivers!PickPhoto
  BY <1>0, <1>1, <1>5 DEF Drivers!PickPhoto, Drivers!Forms, Drivers!Hists
<1>6. ASSUME NEW d \in Staff, Drivers!SubmitDriver(d)
      PROVE  ~hist.strayed /\ (Drivers!DialogIs("edit")' => Drivers!Own(form'.file, dialog'.id))
  <2>1. hist'.strayed = hist.strayed
    BY <1>0, <1>6 DEF Drivers!SubmitDriver, Drivers!SubmitWizard, Drivers!Hists
  <2> QED
    BY <1>0, <1>1, <1>6, <2>1 DEF Drivers!SubmitDriver, Drivers!Forms
<1>7. ASSUME NEW r \in wire, Drivers!FailDriver(r)
      PROVE  ~hist.strayed /\ (Drivers!DialogIs("edit")' => Drivers!Own(form'.file, dialog'.id))
  BY <1>0, <1>1, <1>7 DEF Drivers!FailDriver, Drivers!Fail, Drivers!Forms
<1>8. CASE Drivers!TypeText
  <2>1. dialog \in [kind: {"edit"}, id: Staff, seen: Drivers!Row, section: DriverSections, text: Drivers!Texts]
            /\ dialog # None
    BY <1>8, DriverDialogsBy DEF Drivers!TypeText, Drivers!DialogIs
  <2>2. dialog'.id = dialog.id /\ form' = form /\ hist'.strayed = hist.strayed
    BY <1>0, <1>8, <2>1 DEF Drivers!TypeText, Drivers!Hists
  <2> QED
    BY <1>8, <2>2 DEF Drivers!PhotoInv, Drivers!TypeText
<1>9. CASE Drivers!CloseDialog \/ Drivers!BackToPicker
  BY <1>2, <1>9 DEF Drivers!CloseDialog, Drivers!BackToPicker, Drivers!DialogIs
<1>10. ASSUME NEW d, Drivers!Open(d), d.kind # "edit"
       PROVE  ~hist.strayed /\ (Drivers!DialogIs("edit")' => Drivers!Own(form'.file, dialog'.id))
  BY <1>0, <1>2, <1>10 DEF Drivers!Open, Drivers!DialogIs, Drivers!Hists
<1>11. CASE Drivers!OpenWizard \/ \E d \in DOMAIN Drivers!Rows : Drivers!OpenEditPicker(d)
                \/ Drivers!OpenRemoval(d) \/ Drivers!OpenLogin(d)
  BY <1>10, <1>11 DEF Drivers!OpenWizard, Drivers!OpenEditPicker, Drivers!OpenRemoval, Drivers!OpenLogin
<1>12. ASSUME NEW s \in DriverSections, Drivers!ChooseEditSection(s)
       PROVE  ~hist.strayed /\ (Drivers!DialogIs("edit")' => Drivers!Own(form'.file, dialog'.id))
  BY <1>0, <1>12 DEF Drivers!ChooseEditSection, Drivers!Forms, Drivers!Own
<1>13. ASSUME NEW d \in Staff, Drivers!PhotoChecked(d)
       PROVE  ~hist.strayed /\ (Drivers!DialogIs("edit")' => Drivers!Own(form'.file, dialog'.id))
  <2>1. PICK b \in BOOLEAN : b = (~Drivers!DialogIs("edit") \/ dialog.id # d)
    OBVIOUS
  <2>2. hist' = [hist EXCEPT !.strayed = @ \/ b]
    BY <1>13, <2>1 DEF Drivers!PhotoChecked
  <2>3. ~hist.strayed /\ ~b
    BY <1>0, <2>2 DEF Drivers!Hists
  <2>4. form'.file \in {form.file, d} /\ dialog' = dialog
    BY <1>0, <1>13 DEF Drivers!PhotoChecked, Drivers!Forms
  <2> QED
    BY <2>1, <2>3, <2>4 DEF Drivers!PhotoInv, Drivers!Own, Drivers!DialogIs
<1> QED
  BY <1>3, <1>4, <1>5, <1>6, <1>7, <1>8, <1>9, <1>11, <1>12, <1>13 DEF DriverPageStep

\* The requests' part of the invariant, one by one.
DriverOwnPhotos(q) ==
    /\ q.kind = "update" /\ q.phase \in {"sent", "read"} => Drivers!Own(q.photo, q.id)
    /\ q.kind = "update" /\ q.phase = "read" => Drivers!Own(q.row.photo, q.id)

LEMMA DriverPhotoServed ==
  ASSUME Drivers!TypeOK, Drivers!PhotoInv, NEW r \in wire,
         \/ Drivers!ReadForUpdate(r) \/ Drivers!SaveUpdate(r) \/ Drivers!ServeCreate(r) \/ Drivers!RemoveDriver(r)
         \/ Drivers!CheckLogin(r) \/ Drivers!GrantLogin(r)
  PROVE  Drivers!PhotoInv'
<1>1. r \in Drivers!Requests /\ r.id \in Staff /\ db \in [Staff -> Drivers!Row] /\ hist \in Drivers!Hists
  BY DriverKindsOf DEF Drivers!TypeOK
<1>2. SUFFICES ASSUME ~hist.strayed PROVE Drivers!PhotoInv'
  <2>1. hist.strayed => hist'.strayed
    <3>1. (Drivers!ReadForUpdate(r) \/ Drivers!ServeCreate(r) \/ Drivers!RemoveDriver(r) \/ Drivers!CheckLogin(r))
              => hist' = hist
      BY DEF Drivers!ReadForUpdate, Drivers!Read, Drivers!ServeCreate, Drivers!RemoveDriver, Drivers!ServeRemoval,
         Drivers!CheckLogin
    <3>2. Drivers!SaveUpdate(r) => hist'.strayed = hist.strayed
      BY <1>1 DEF Drivers!SaveUpdate, Drivers!Hists
    <3>3. Drivers!GrantLogin(r) => hist'.strayed = hist.strayed
      BY <1>1 DEF Drivers!GrantLogin, Drivers!Hists
    <3> QED
      BY <3>1, <3>2, <3>3
  <2> QED
    BY <2>1 DEF Drivers!PhotoInv
<1>3. ASSUME UNCHANGED <<dialog, form>>, \A d \in Staff : Drivers!Own(db'[d].photo, d),
                 \A q \in wire' : DriverOwnPhotos(q)
      PROVE  Drivers!PhotoInv'
  BY <1>2, <1>3 DEF Drivers!PhotoInv, DriverOwnPhotos, Drivers!DialogIs
<1>4. \A q \in wire : DriverOwnPhotos(q)
  BY <1>2 DEF Drivers!PhotoInv, DriverOwnPhotos
<1>5. \A d \in Staff : Drivers!Own(db[d].photo, d)
  BY <1>2 DEF Drivers!PhotoInv
<1>6. ASSUME NEW phase \in {"ok", "error"}, Drivers!Reply(r, phase), UNCHANGED <<dialog, form>>,
             \A d \in Staff : Drivers!Own(db'[d].photo, d)
      PROVE  Drivers!PhotoInv'
  <2>1. \A q \in wire' : q \in wire \/ q = Drivers!Told(r, phase)
    BY <1>6 DEF Drivers!Reply
  <2>2. \A q \in wire' : DriverOwnPhotos(q)
    BY <1>4, <1>6, <2>1, DriverToldIs DEF DriverOwnPhotos
  <2> QED
    BY <1>3, <1>6, <2>2
<1>7. ASSUME r.kind \in {"update", "login"}, Drivers!Read(r)
      PROVE  Drivers!PhotoInv'
  <2>1. UNCHANGED <<db, dialog, form>> /\ r.phase = "sent"
        /\ \A q \in wire' : q \in wire \/ DriverReadNow(q, r) \/ q = Drivers!Told(r, "error")
    BY <1>7, DriverReadStep
  <2>2. \A q \in wire' : DriverOwnPhotos(q)
    BY <1>1, <1>4, <1>5, <2>1, DriverToldIs DEF DriverOwnPhotos, DriverReadNow
  <2> QED
    BY <1>3, <1>5, <2>1, <2>2
<1>8. CASE Drivers!SaveUpdate(r)
  <2>1. r.kind = "update" /\ r.phase = "read" /\ r.row \in Drivers!Row
    BY <1>1, <1>8, DriverKindsOf DEF Drivers!SaveUpdate
  <2>2. Drivers!Own(r.photo, r.id) /\ Drivers!Own(r.row.photo, r.id)
    BY <1>4, <2>1 DEF DriverOwnPhotos
  <2>3. Drivers!Patched(r).photo = IF r.photo = None THEN r.row.photo ELSE r.photo
    BY <2>1 DEF Drivers!Patched, Drivers!Row
  <2>4. \A d \in Staff : Drivers!Own(db'[d].photo, d)
    BY <1>1, <1>5, <1>8, <2>2, <2>3 DEF Drivers!SaveUpdate
  <2> QED
    BY <1>6, <1>8, <2>4 DEF Drivers!SaveUpdate
<1>9. ASSUME \A d \in Staff : db'[d].photo = db[d].photo
      PROVE  \A d \in Staff : Drivers!Own(db'[d].photo, d)
  BY <1>5, <1>9
<1>10. CASE Drivers!ServeCreate(r)
  <2>1. \A d \in Staff : db'[d].photo = db[d].photo
    BY <1>1, <1>10 DEF Drivers!ServeCreate, Drivers!Row
  <2> QED
    BY <1>6, <1>9, <1>10, <2>1 DEF Drivers!ServeCreate
<1>11. CASE Drivers!RemoveDriver(r)
  <2>1. \A d \in Staff : db'[d].photo = db[d].photo
    BY <1>1, <1>11 DEF Drivers!RemoveDriver, Drivers!ServeRemoval, Drivers!Row
  <2> QED
    BY <1>6, <1>9, <1>11, <2>1 DEF Drivers!RemoveDriver, Drivers!ServeRemoval
<1>12. CASE Drivers!CheckLogin(r)
  BY <1>5, <1>6, <1>7, <1>12 DEF Drivers!CheckLogin
<1>13. CASE Drivers!GrantLogin(r)
  <2>1. \A d \in Staff : db'[d].photo = db[d].photo
    BY <1>1, <1>13 DEF Drivers!GrantLogin, Drivers!Row
  <2> QED
    BY <1>6, <1>9, <1>13, <2>1 DEF Drivers!GrantLogin
<1>14. CASE Drivers!ReadForUpdate(r)
  BY <1>7, <1>14 DEF Drivers!ReadForUpdate
<1> QED
  BY <1>8, <1>10, <1>11, <1>12, <1>13, <1>14

LEMMA DriverPhotoStep ==
  ASSUME Drivers!TypeOK, Drivers!StaffAssumption, Drivers!PhotoInv, [Drivers!Next]_deskVars
  PROVE  Drivers!PhotoInv'
<1>0. hist \in Drivers!Hists /\ db \in [Staff -> Drivers!Row] /\ form \in Drivers!Forms
  BY DEF Drivers!TypeOK
<1>1. CASE UNCHANGED deskVars
  BY <1>1 DEF deskVars, Drivers!PhotoInv, Drivers!DialogIs
<1>2. CASE DriverPageStep
  <2>1. CASE hist'.strayed
    BY <2>1 DEF Drivers!PhotoInv
  <2>2. CASE ~hist'.strayed
    <3>1. ~hist.strayed /\ (Drivers!DialogIs("edit")' => Drivers!Own(form'.file, dialog'.id))
      BY <1>2, <2>2, DriverFormKept
    <3>2. db' = db /\ \A q \in wire' : q \in wire \/ DriverSentNow(q) \/ \E p \in wire : DriverAlike(q, p)
      BY <1>2, DriverSendStep
    <3>3. \A q \in wire : DriverOwnPhotos(q)
      BY <3>1 DEF Drivers!PhotoInv, DriverOwnPhotos
    <3>4. \A q : DriverSentNow(q) => DriverOwnPhotos(q)
      BY <3>1 DEF Drivers!PhotoInv, DriverOwnPhotos, DriverSentNow
    <3>5. \A q \in wire' : DriverOwnPhotos(q)
      BY <3>2, <3>3, <3>4 DEF DriverOwnPhotos, DriverAlike
    <3> QED
      BY <3>1, <3>2, <3>5 DEF Drivers!PhotoInv, DriverOwnPhotos
  <2> QED
    BY <2>1, <2>2
<1>3. CASE Drivers!Refresh
  BY <1>3 DEF Drivers!Refresh, Drivers!Arrive, Drivers!PhotoInv, Drivers!DialogIs
<1>4. ASSUME NEW r \in wire, Drivers!Succeed(r)
      PROVE  Drivers!PhotoInv'
  <2>1. hist'.strayed = hist.strayed /\ wire' \subseteq wire /\ db' = db
    BY <1>0, <1>4 DEF Drivers!Succeed, Drivers!Settle, Drivers!Hists
  <2>2. form'.file = form.file \/ form'.file = None
    BY <1>0, <1>4 DEF Drivers!Succeed, Drivers!ResetWizard, Drivers!Forms
  <2>3. dialog' = None \/ dialog' = dialog
    BY <1>4 DEF Drivers!Succeed
  <2> QED
    BY <2>1, <2>2, <2>3 DEF Drivers!PhotoInv, Drivers!DialogIs, Drivers!Own
<1>5. ASSUME NEW d \in Staff, Drivers!ColleagueEnrols(d) \/ \E s \in DriverSections : Drivers!ColleagueEdits(d, s)
      PROVE  Drivers!PhotoInv'
  <2>1. \A e \in Staff : db'[e].photo = db[e].photo
    BY <1>0, <1>5 DEF Drivers!ColleagueEnrols, Drivers!ColleagueEdits, Drivers!Row
  <2>2. UNCHANGED <<dialog, form, wire>> /\ hist'.strayed = hist.strayed
    BY <1>0, <1>5 DEF Drivers!ColleagueEnrols, Drivers!ColleagueEdits, Drivers!Hists
  <2> QED
    BY <2>1, <2>2 DEF Drivers!PhotoInv, Drivers!DialogIs
<1>6. CASE Drivers!Next
  BY <1>2, <1>3, <1>4, <1>5, <1>6, DriverPhotoServed DEF Drivers!Next, Drivers!CommonStep, DriverPageStep
<1> QED
  BY <1>1, <1>6

\* ---- logins -----------------------------------------------------------------------------

LEMMA DriverLoginKept ==
  ASSUME Drivers!LoginInv, hist'.accounts = hist.accounts, hist.stale \subseteq hist'.stale,
         \A d \in Staff : d \in hist'.stale \/ db'[d].login = db[d].login,
         \A q \in wire' : \/ q \in wire \/ q.kind # "login" \/ q.phase # "read" \/ ~q.row.login
                          \/ \E p \in wire : DriverAlike(q, p)
  PROVE  Drivers!LoginInv'
<1>1. ASSUME NEW q \in wire', q.kind = "login", q.phase = "read"
      PROVE  ~q.row.login
  BY <1>1 DEF Drivers!LoginInv, DriverAlike
<1> QED
  BY <1>1 DEF Drivers!LoginInv

LEMMA DriverLoginServed ==
  ASSUME Drivers!TypeOK, Drivers!LoginInv, NEW r \in wire,
         \/ Drivers!ReadForUpdate(r) \/ Drivers!SaveUpdate(r) \/ Drivers!ServeCreate(r) \/ Drivers!RemoveDriver(r)
         \/ Drivers!CheckLogin(r) \/ Drivers!GrantLogin(r)
  PROVE  Drivers!LoginInv'
<1>1. r \in Drivers!Requests /\ r.id \in Staff /\ db \in [Staff -> Drivers!Row] /\ hist \in Drivers!Hists
  BY DriverKindsOf DEF Drivers!TypeOK
<1>2. ASSUME NEW phase \in {"ok", "error"}, Drivers!Reply(r, phase)
      PROVE  \A q \in wire' : \/ q \in wire \/ q.kind # "login" \/ q.phase # "read" \/ ~q.row.login
                              \/ \E p \in wire : DriverAlike(q, p)
  BY <1>2, DriverToldIs DEF Drivers!Reply
<1>3. ASSUME r.kind \in {"update", "login"}, Drivers!Read(r), r.kind = "login" => ~db[r.id].login
      PROVE  Drivers!LoginInv'
  <2>1. UNCHANGED <<db, hist>>
    BY <1>3, DriverReadStep
  <2>2. \A q \in wire' : \/ q \in wire \/ q.kind # "login" \/ q.phase # "read" \/ ~q.row.login
                         \/ \E p \in wire : DriverAlike(q, p)
    BY <1>3, DriverReadStep, DriverToldIs DEF DriverReadNow
  <2> QED
    BY <2>1, <2>2, DriverLoginKept
<1>4. ASSUME hist' = hist, \A d \in Staff : db'[d].login = db[d].login, Drivers!Reply(r, "ok")
                 \/ Drivers!Reply(r, "error")
      PROVE  Drivers!LoginInv'
  <2>1. \A q \in wire' : \/ q \in wire \/ q.kind # "login" \/ q.phase # "read" \/ ~q.row.login
                         \/ \E p \in wire : DriverAlike(q, p)
    BY <1>2, <1>4
  <2> QED
    BY <1>4, <2>1, DriverLoginKept
<1>5. CASE Drivers!SaveUpdate(r)
  <2>1. r.row \in Drivers!Row
    BY <1>1, <1>5, DriverKindsOf DEF Drivers!SaveUpdate
  <2>2. Drivers!Patched(r).login = r.row.login
    BY <2>1 DEF Drivers!Patched, Drivers!Row
  <2>3. hist'.stale = hist.stale \cup Drivers!StaleIds(r) /\ hist'.accounts = hist.accounts
    BY <1>1, <1>5 DEF Drivers!SaveUpdate, Drivers!Hists
  <2>4. \A d \in Staff : d \in hist'.stale \/ db'[d].login = db[d].login
    BY <1>1, <1>5, <2>2, <2>3 DEF Drivers!SaveUpdate, Drivers!StaleIds
  <2>5. \A q \in wire' : \/ q \in wire \/ q.kind # "login" \/ q.phase # "read" \/ ~q.row.login
                         \/ \E p \in wire : DriverAlike(q, p)
    BY <1>2, <1>5 DEF Drivers!SaveUpdate
  <2> QED
    BY <2>3, <2>4, <2>5, DriverLoginKept
<1>6. CASE Drivers!ServeCreate(r)
  <2>1. \A d \in Staff : db'[d].login = db[d].login
    BY <1>1, <1>6 DEF Drivers!ServeCreate, Drivers!Row
  <2> QED
    BY <1>4, <1>6, <2>1 DEF Drivers!ServeCreate
<1>7. CASE Drivers!RemoveDriver(r)
  <2>1. \A d \in Staff : db'[d].login = db[d].login
    BY <1>1, <1>7 DEF Drivers!RemoveDriver, Drivers!ServeRemoval, Drivers!Row
  <2> QED
    BY <1>4, <1>7, <2>1 DEF Drivers!RemoveDriver, Drivers!ServeRemoval
<1>8. CASE Drivers!CheckLogin(r)
  BY <1>3, <1>4, <1>8 DEF Drivers!CheckLogin
<1>9. CASE Drivers!GrantLogin(r)
  <2>1. r.row \in Drivers!Row /\ ~r.row.login
    BY <1>1, <1>9, DriverKindsOf DEF Drivers!GrantLogin, Drivers!LoginInv
  <2>2. hist'.stale = hist.stale \cup Drivers!StaleIds(r)
    BY <1>1, <1>9 DEF Drivers!GrantLogin, Drivers!Hists
  <2>3. /\ hist'.accounts[r.id] = hist.accounts[r.id] + 1
        /\ \A d \in Staff : d # r.id => hist'.accounts[d] = hist.accounts[d]
    BY <1>1, <1>9 DEF Drivers!GrantLogin, Drivers!Hists
  <2>4. db'[r.id].login = TRUE /\ \A d \in Staff : d # r.id => db'[d] = db[d]
    BY <1>1, <1>9 DEF Drivers!GrantLogin, Drivers!Row
  <2>5. r.id \in hist'.stale \/ (r.id \notin hist.stale /\ ~db[r.id].login)
    BY <2>1, <2>2 DEF Drivers!StaleIds
  <2>6. \A d \in Staff : d \in hist'.stale \/ hist'.accounts[d] = IF db'[d].login THEN 1 ELSE 0
    BY <2>2, <2>3, <2>4, <2>5 DEF Drivers!LoginInv
  <2>7. \A q \in wire' : q.kind = "login" /\ q.phase = "read" => ~q.row.login
    BY <1>9, DriverToldIs DEF Drivers!GrantLogin, Drivers!Reply, Drivers!LoginInv
  <2> QED
    BY <2>6, <2>7 DEF Drivers!LoginInv
<1>10. CASE Drivers!ReadForUpdate(r)
  BY <1>3, <1>10 DEF Drivers!ReadForUpdate
<1> QED
  BY <1>5, <1>6, <1>7, <1>8, <1>9, <1>10

LEMMA DriverLoginStep ==
  ASSUME Drivers!TypeOK, Drivers!StaffAssumption, Drivers!LoginInv, [Drivers!Next]_deskVars
  PROVE  Drivers!LoginInv'
<1>0. hist \in Drivers!Hists /\ db \in [Staff -> Drivers!Row]
  BY DEF Drivers!TypeOK
<1>1. CASE UNCHANGED deskVars
  BY <1>1 DEF deskVars, Drivers!LoginInv
<1>2. CASE DriverPageStep
  <2>1. \A q \in wire' : \/ q \in wire \/ q.kind # "login" \/ q.phase # "read" \/ ~q.row.login
                         \/ \E p \in wire : DriverAlike(q, p)
    BY <1>2, DriverSendStep DEF DriverSentNow
  <2> QED
    BY <1>2, <2>1, DriverSendStep, DriverLoginKept
<1>3. CASE Drivers!Refresh
  BY <1>3 DEF Drivers!Refresh, Drivers!Arrive, Drivers!LoginInv
<1>4. ASSUME NEW r \in wire, Drivers!Succeed(r)
      PROVE  Drivers!LoginInv'
  <2>1. hist'.stale = hist.stale /\ hist'.accounts = hist.accounts
    BY <1>0, <1>4 DEF Drivers!Succeed, Drivers!Hists
  <2> QED
    BY <1>4, <2>1 DEF Drivers!Succeed, Drivers!Settle, Drivers!LoginInv
<1>5. ASSUME NEW d \in Staff, Drivers!ColleagueEnrols(d) \/ \E s \in DriverSections : Drivers!ColleagueEdits(d, s)
      PROVE  Drivers!LoginInv'
  <2>1. \A e \in Staff : db'[e].login = db[e].login
    BY <1>0, <1>5 DEF Drivers!ColleagueEnrols, Drivers!ColleagueEdits, Drivers!Row
  <2>2. wire' = wire /\ hist'.stale = hist.stale /\ hist'.accounts = hist.accounts
    BY <1>0, <1>5 DEF Drivers!ColleagueEnrols, Drivers!ColleagueEdits, Drivers!Hists
  <2> QED
    BY <2>1, <2>2 DEF Drivers!LoginInv
<1>6. CASE Drivers!Next
  BY <1>2, <1>3, <1>4, <1>5, <1>6, DriverLoginServed DEF Drivers!Next, Drivers!CommonStep, DriverPageStep
<1> QED
  BY <1>1, <1>6

\* ---- stamps -----------------------------------------------------------------------------

\* The requests' part of the invariant, one by one.
DriverRequestTyped(q) ==
    /\ q.kind = "update" /\ q.phase \in {"sent", "read"} => \A s \in DOMAIN q.payload : q.payload[s] <= hist.stamp
    /\ q.phase = "read" => Drivers!Typed(q.row.text)

\* What was typed by now was typed by later.
LEMMA DriverStillTyped ==
  ASSUME Drivers!TypeOK, Drivers!StampInv, hist.stamp \in Nat, hist'.stamp \in Nat, hist.stamp <= hist'.stamp
  PROVE  /\ \A text \in Drivers!Texts : Drivers!Typed(text) => Drivers!Typed(text)'
         /\ \A q \in wire : DriverRequestTyped(q) /\ DriverRequestTyped(q)'
<1>1. \A text \in Drivers!Texts : Drivers!Typed(text) => Drivers!Typed(text)'
  BY DEF Drivers!Typed, Drivers!Texts, Drivers!StaffAssumption
<1>2. ASSUME NEW q \in wire
      PROVE  DriverRequestTyped(q) /\ DriverRequestTyped(q)'
  <2>1. DriverRequestTyped(q)
    BY DEF Drivers!StampInv, DriverRequestTyped
  <2>2. q \in Drivers!Requests
    BY DEF Drivers!TypeOK
  <2>3. CASE q.kind = "update" /\ q.phase \in {"sent", "read"}
    <3>1. q.payload \in Drivers!Pieces
      BY <2>2, <2>3, DriverKindsOf DEF Drivers!UpdatesIn
    <3>2. PICK S \in SUBSET DriverSections : q.payload \in [S -> 0..MaxStamp]
      BY <3>1 DEF Drivers!Pieces
    <3>3. \A s \in DOMAIN q.payload : q.payload[s] <= hist'.stamp
      BY <2>1, <2>3, <3>2 DEF DriverRequestTyped
    <3>4. q.phase = "read" => q.row.text \in Drivers!Texts
      BY <2>2, DriverKindsOf DEF Drivers!Row
    <3> QED
      BY <1>1, <2>1, <3>3, <3>4 DEF DriverRequestTyped
  <2>4. CASE ~(q.kind = "update" /\ q.phase \in {"sent", "read"})
    <3>1. q.phase = "read" => q.row.text \in Drivers!Texts
      BY <2>2, DriverKindsOf DEF Drivers!Row
    <3> QED
      BY <1>1, <2>1, <2>4, <3>1 DEF DriverRequestTyped
  <2> QED
    BY <2>3, <2>4
<1> QED
  BY <1>1, <1>2

\* The dialogs' part.
DriverDialogTyped ==
    /\ Drivers!DialogIs("picker") \/ Drivers!DialogIs("edit") => Drivers!Typed(dialog.seen.text)
    /\ Drivers!DialogIs("edit") => Drivers!Typed(dialog.text)

LEMMA DriverStampDialogKept ==
  ASSUME Drivers!TypeOK, Drivers!StaffAssumption, Drivers!StampInv, dialog' = None \/ dialog' = dialog,
         hist.stamp \in Nat, hist'.stamp \in Nat, hist.stamp <= hist'.stamp
  PROVE  DriverDialogTyped'
<1>1. CASE dialog' = None
  BY <1>1 DEF DriverDialogTyped, Drivers!DialogIs
<1>2. CASE dialog' = dialog
  <2>1. Drivers!DialogIs("picker") \/ Drivers!DialogIs("edit") => dialog.seen.text \in Drivers!Texts
    BY DriverDialogsBy DEF Drivers!DialogIs, Drivers!Row
  <2>2. Drivers!DialogIs("edit") => dialog.text \in Drivers!Texts
    BY DriverDialogsBy DEF Drivers!DialogIs
  <2> QED
    BY <1>2, <2>1, <2>2, DriverStillTyped DEF DriverDialogTyped, Drivers!DialogIs, Drivers!StampInv
<1> QED
  BY <1>1, <1>2

LEMMA DriverStampDialog ==
  ASSUME Drivers!TypeOK, Drivers!StaffAssumption, Drivers!StampInv, DriverPageStep
  PROVE  DriverDialogTyped'
<1>0. hist \in Drivers!Hists /\ hist.stamp \in Nat /\ hist'.stamp \in Nat /\ hist.stamp <= hist'.stamp
  BY DriverSendStep DEF Drivers!TypeOK
<1>1. CASE Drivers!Browse \/ Drivers!FillStep \/ Drivers!HandleNext \/ Drivers!GiveUp
               \/ (\E i \in 0..Drivers!LastStep : Drivers!GoToStep(i)) \/ Drivers!CloseDialog \/ Drivers!PickPhoto
  BY <1>0, <1>1, DriverStampDialogKept DEF Drivers!Browse, Drivers!Ask, Drivers!FillStep, Drivers!HandleNext,
     Drivers!GiveUp, Drivers!GoToStep, Drivers!CloseDialog, Drivers!PickPhoto
<1>2. CASE Drivers!SubmitRemoval \/ Drivers!HandleUpdate \/ Drivers!SubmitLogin
           \/ (\E d \in Staff : Drivers!PhotoChecked(d) \/ Drivers!SubmitDriver(d)
                  \/ Drivers!ColleagueRequestsLogin(d))
           \/ \E r \in wire : Drivers!FailDriver(r)
  BY <1>0, <1>2, DriverStampDialogKept DEF Drivers!SubmitRemoval, Drivers!HandleUpdate, Drivers!SubmitLogin,
     Drivers!PhotoChecked, Drivers!SubmitDriver,
     Drivers!ColleagueRequestsLogin, Drivers!FailDriver, Drivers!Fail
<1>3. CASE Drivers!OpenWizard
  BY <1>3 DEF Drivers!OpenWizard, Drivers!Open, DriverDialogTyped, Drivers!DialogIs
<1>4. ASSUME NEW d \in DOMAIN Drivers!Rows, Drivers!OpenEditPicker(d) \/ Drivers!OpenRemoval(d)
                 \/ Drivers!OpenLogin(d)
      PROVE  DriverDialogTyped'
  <2>1. Drivers!Rows[d].text \in Drivers!Texts /\ Drivers!Typed(Drivers!Rows[d].text)
    BY DEF Drivers!StampInv, Drivers!TypeOK, Drivers!Rows, Drivers!Row
  <2>2. Drivers!Typed(Drivers!Rows[d].text)'
    <3>1. hist'.stamp = hist.stamp /\ Drivers!Rows' = Drivers!Rows
      BY <1>0, <1>4 DEF Drivers!OpenEditPicker, Drivers!OpenRemoval, Drivers!OpenLogin, Drivers!Open,
         Drivers!Hists, Drivers!Rows
    <3> QED
      BY <2>1, <3>1 DEF Drivers!Typed
  <2>3. CASE Drivers!OpenEditPicker(d)
    <3>1. dialog' = [kind |-> "picker", id |-> d, seen |-> Drivers!Rows[d]] /\ Drivers!Rows' = Drivers!Rows
      BY <2>3 DEF Drivers!OpenEditPicker, Drivers!Open, Drivers!Rows
    <3> QED
      BY <2>2, <3>1 DEF DriverDialogTyped, Drivers!DialogIs
  <2>4. CASE Drivers!OpenRemoval(d) \/ Drivers!OpenLogin(d)
    BY <2>4 DEF Drivers!OpenRemoval, Drivers!OpenLogin, Drivers!Open, DriverDialogTyped, Drivers!DialogIs
  <2> QED
    BY <1>4, <2>3, <2>4
<1>5. CASE Drivers!BackToPicker
  <2>1. Drivers!Typed(dialog.seen.text) /\ hist' = hist
    BY <1>5 DEF Drivers!BackToPicker, Drivers!StampInv
  <2>2. dialog' = [kind |-> "picker", id |-> dialog.id, seen |-> dialog.seen]
    BY <1>5 DEF Drivers!BackToPicker
  <2> QED
    BY <2>1, <2>2 DEF DriverDialogTyped, Drivers!DialogIs, Drivers!Typed
<1>6. ASSUME NEW s \in DriverSections, Drivers!ChooseEditSection(s)
      PROVE  DriverDialogTyped'
  <2>1. Drivers!Typed(dialog.seen.text) /\ hist' = hist
    BY <1>6 DEF Drivers!ChooseEditSection, Drivers!StampInv
  <2>2. dialog' = [kind |-> "edit", id |-> dialog.id, seen |-> dialog.seen, section |-> s,
            text |-> dialog.seen.text]
    BY <1>6 DEF Drivers!ChooseEditSection
  <2> QED
    BY <2>1, <2>2 DEF DriverDialogTyped, Drivers!DialogIs, Drivers!Typed
<1>7. CASE Drivers!TypeText
  <2>1. dialog \in [kind: {"edit"}, id: Staff, seen: Drivers!Row, section: DriverSections, text: Drivers!Texts]
            /\ dialog # None
    BY <1>7, DriverDialogsBy DEF Drivers!TypeText, Drivers!DialogIs
  <2>2. Drivers!Typed(dialog.seen.text) /\ Drivers!Typed(dialog.text)
    BY <1>7 DEF Drivers!TypeText, Drivers!StampInv
  <2>3. hist'.stamp = hist.stamp + 1
    BY <1>0, <1>7 DEF Drivers!TypeText, Drivers!Hists
  <2>4. dialog'.seen = dialog.seen /\ dialog'.kind = "edit"
        /\ dialog'.text = [dialog.text EXCEPT ![dialog.section] = hist.stamp + 1]
    BY <1>7, <2>1 DEF Drivers!TypeText
  <2>5. dialog.seen.text \in Drivers!Texts /\ dialog.text \in Drivers!Texts
    BY <2>1 DEF Drivers!Row
  <2>6. \A s \in DriverSections : dialog'.seen.text[s] <= hist'.stamp
    BY <1>0, <2>2, <2>3, <2>4, <2>5 DEF Drivers!Typed, Drivers!Texts
  <2>7. \A s \in DriverSections : dialog'.text[s] <= hist'.stamp
    BY <1>0, <2>2, <2>3, <2>4, <2>5 DEF Drivers!Typed, Drivers!Texts
  <2> QED
    BY <2>6, <2>7 DEF DriverDialogTyped, Drivers!Typed
<1> QED
  BY <1>1, <1>2, <1>3, <1>4, <1>5, <1>6, <1>7 DEF DriverPageStep

LEMMA DriverStampServed ==
  ASSUME Drivers!TypeOK, Drivers!StaffAssumption, Drivers!StampInv, NEW r \in wire,
         \/ Drivers!ReadForUpdate(r) \/ Drivers!SaveUpdate(r) \/ Drivers!ServeCreate(r) \/ Drivers!RemoveDriver(r)
         \/ Drivers!CheckLogin(r) \/ Drivers!GrantLogin(r)
  PROVE  Drivers!StampInv'
<1>1. r \in Drivers!Requests /\ r.id \in Staff /\ db \in [Staff -> Drivers!Row] /\ hist \in Drivers!Hists
          /\ hist.stamp \in Nat
  BY DriverKindsOf DEF Drivers!TypeOK, Drivers!Hists
<1>2. \A q \in wire : DriverRequestTyped(q)
  BY DEF Drivers!StampInv, DriverRequestTyped
<1>3. ASSUME UNCHANGED <<shown, dialog>>, hist'.stamp = hist.stamp, \A d \in Staff : Drivers!Typed(db'[d].text),
             \A q \in wire' : DriverRequestTyped(q)
      PROVE  Drivers!StampInv'
  <2>1. \A text : Drivers!Typed(text)' <=> Drivers!Typed(text)
    BY <1>3 DEF Drivers!Typed
  <2>2. \A q : DriverRequestTyped(q)' <=> DriverRequestTyped(q)
    BY <1>3, <2>1 DEF DriverRequestTyped
  <2> QED
    BY <1>3, <2>1, <2>2 DEF Drivers!StampInv, DriverRequestTyped, Drivers!Rows, Drivers!DialogIs
<1>4. ASSUME NEW phase \in {"ok", "error"}, Drivers!Reply(r, phase), UNCHANGED <<shown, dialog>>,
             hist'.stamp = hist.stamp, \A d \in Staff : Drivers!Typed(db'[d].text)
      PROVE  Drivers!StampInv'
  <2>1. \A q \in wire' : q \in wire \/ q = Drivers!Told(r, phase)
    BY <1>4 DEF Drivers!Reply
  <2>2. \A q \in wire' : DriverRequestTyped(q)
    BY <1>2, <1>4, <2>1, DriverToldIs DEF DriverRequestTyped
  <2> QED
    BY <1>3, <1>4, <2>2
<1>5. \A d \in Staff : Drivers!Typed(db[d].text)
  BY DEF Drivers!StampInv
<1>6. ASSUME r.kind \in {"update", "login"}, Drivers!Read(r)
      PROVE  Drivers!StampInv'
  <2>1. UNCHANGED <<db, shown, dialog, hist>> /\ r.phase = "sent"
        /\ \A q \in wire' : q \in wire \/ DriverReadNow(q, r) \/ q = Drivers!Told(r, "error")
    BY <1>6, DriverReadStep
  <2>2. \A q \in wire' : DriverRequestTyped(q)
    BY <1>1, <1>2, <1>5, <2>1, DriverToldIs DEF DriverRequestTyped, DriverReadNow
  <2> QED
    BY <1>3, <1>5, <2>1, <2>2
<1>7. CASE Drivers!SaveUpdate(r)
  <2>1. r.kind = "update" /\ r.phase = "read" /\ r.row \in Drivers!Row
    BY <1>1, <1>7, DriverKindsOf DEF Drivers!SaveUpdate
  <2>2. Drivers!Typed(r.row.text) /\ \A s \in DOMAIN r.payload : r.payload[s] <= hist.stamp
    BY <1>2, <2>1 DEF DriverRequestTyped
  <2>3. Drivers!Patched(r).text = Drivers!Merge(r.row.text, r.payload)
    BY <2>1 DEF Drivers!Patched, Drivers!Row
  <2>4. Drivers!Typed(Drivers!Patched(r).text)
    BY <2>2, <2>3 DEF Drivers!Typed, Drivers!Merge
  <2>5. \A d \in Staff : Drivers!Typed(db'[d].text)
    BY <1>1, <1>5, <1>7, <2>4 DEF Drivers!SaveUpdate
  <2>6. hist'.stamp = hist.stamp
    BY <1>1, <1>7 DEF Drivers!SaveUpdate, Drivers!Hists
  <2> QED
    BY <1>4, <1>7, <2>5, <2>6 DEF Drivers!SaveUpdate
<1>8. CASE Drivers!ServeCreate(r)
  <2>1. \A d \in Staff : db'[d].text = db[d].text
    BY <1>1, <1>8 DEF Drivers!ServeCreate, Drivers!Row
  <2> QED
    BY <1>4, <1>5, <1>8, <2>1 DEF Drivers!ServeCreate
<1>9. CASE Drivers!RemoveDriver(r)
  <2>1. \A d \in Staff : db'[d].text = db[d].text
    BY <1>1, <1>9 DEF Drivers!RemoveDriver, Drivers!ServeRemoval, Drivers!Row
  <2> QED
    BY <1>4, <1>5, <1>9, <2>1 DEF Drivers!RemoveDriver, Drivers!ServeRemoval
<1>10. CASE Drivers!CheckLogin(r)
  BY <1>4, <1>5, <1>6, <1>10 DEF Drivers!CheckLogin
<1>11. CASE Drivers!GrantLogin(r)
  <2>1. \A d \in Staff : db'[d].text = db[d].text
    BY <1>1, <1>11 DEF Drivers!GrantLogin, Drivers!Row
  <2>2. hist'.stamp = hist.stamp
    BY <1>1, <1>11 DEF Drivers!GrantLogin, Drivers!Hists
  <2> QED
    BY <1>4, <1>5, <1>11, <2>1, <2>2 DEF Drivers!GrantLogin
<1>12. CASE Drivers!ReadForUpdate(r)
  BY <1>6, <1>12 DEF Drivers!ReadForUpdate
<1> QED
  BY <1>7, <1>8, <1>9, <1>10, <1>11, <1>12

LEMMA DriverStampStep ==
  ASSUME Drivers!TypeOK, Drivers!StaffAssumption, Drivers!StampInv, [Drivers!Next]_deskVars
  PROVE  Drivers!StampInv'
<1>0. hist \in Drivers!Hists /\ db \in [Staff -> Drivers!Row] /\ hist.stamp \in Nat
  BY DEF Drivers!TypeOK, Drivers!Hists
<1>t. /\ \A d \in Staff : db[d].text \in Drivers!Texts /\ Drivers!Typed(db[d].text)
      /\ \A d \in DOMAIN Drivers!Rows : Drivers!Rows[d].text \in Drivers!Texts
             /\ Drivers!Typed(Drivers!Rows[d].text)
  BY DEF Drivers!StampInv, Drivers!TypeOK, Drivers!Rows, Drivers!Row
<1>1. CASE UNCHANGED deskVars
  <2>1. \A text : Drivers!Typed(text)' <=> Drivers!Typed(text)
    BY <1>1 DEF deskVars, Drivers!Typed
  <2> QED
    BY <1>1, <2>1 DEF deskVars, Drivers!StampInv, Drivers!Rows, Drivers!DialogIs
<1>2. CASE DriverPageStep
  <2>1. UNCHANGED <<db, shown>> /\ hist'.stamp \in Nat /\ hist.stamp <= hist'.stamp
    BY <1>2, DriverSendStep
  <2>2. DriverDialogTyped'
    BY <1>2, DriverStampDialog
  <2>3. \A q \in wire' : q \in wire \/ DriverSentNow(q) \/ \E p \in wire : DriverAlike(q, p)
    BY <1>2, DriverSendStep
  <2>4. \A q \in wire : DriverRequestTyped(q)'
    BY <1>0, <2>1, DriverStillTyped
  <2>5. ASSUME NEW q, DriverSentNow(q)
        PROVE  DriverRequestTyped(q)'
    <3>1. Drivers!DialogIs("edit") => dialog.text \in Drivers!Texts /\ Drivers!Typed(dialog.text)
      BY DriverDialogsBy DEF Drivers!DialogIs, Drivers!StampInv
    <3> QED
      BY <1>0, <2>1, <2>5, <3>1 DEF DriverSentNow, DriverRequestTyped, Drivers!Typed, Drivers!Texts
  <2>6. \A q \in wire' : DriverRequestTyped(q)'
    BY <2>3, <2>4, <2>5 DEF DriverRequestTyped, DriverAlike
  <2>7. /\ \A d \in Staff : Drivers!Typed(db[d].text)'
        /\ \A d \in DOMAIN Drivers!Rows : Drivers!Typed(Drivers!Rows[d].text)'
    <3>1. Drivers!Rows' = Drivers!Rows
      BY <2>1 DEF Drivers!Rows
    <3> QED
      BY <1>0, <1>t, <2>1, <3>1 DEF Drivers!Typed, Drivers!Texts
  <2> QED
    BY <2>1, <2>2, <2>6, <2>7 DEF Drivers!StampInv, DriverRequestTyped, DriverDialogTyped, Drivers!Rows
<1>3. CASE Drivers!Refresh
  <2>1. Drivers!Rows' = Drivers!Listing /\ UNCHANGED <<db, dialog, wire, hist>>
    BY <1>3 DEF Drivers!Refresh, Drivers!Arrive, Drivers!TypeOK, Drivers!Rows
  <2>2. \A text : Drivers!Typed(text)' <=> Drivers!Typed(text)
    BY <2>1 DEF Drivers!Typed
  <2>3. \A d \in DOMAIN Drivers!Listing : Drivers!Typed(Drivers!Listing[d].text)
    BY <1>t DEF Drivers!Listing, Drivers!Active
  <2> QED
    BY <2>1, <2>2, <2>3 DEF Drivers!StampInv, Drivers!DialogIs
<1>4. ASSUME NEW r \in wire, Drivers!Succeed(r)
      PROVE  Drivers!StampInv'
  <2>1. hist'.stamp = hist.stamp
    BY <1>0, <1>4 DEF Drivers!Succeed, Drivers!Hists
  <2>2. wire' \subseteq wire /\ UNCHANGED <<db, shown>> /\ (dialog' = None \/ dialog' = dialog)
    BY <1>4 DEF Drivers!Succeed, Drivers!Settle
  <2>3. \A text : Drivers!Typed(text)' <=> Drivers!Typed(text)
    BY <2>1 DEF Drivers!Typed
  <2> QED
    BY <2>1, <2>2, <2>3 DEF Drivers!StampInv, Drivers!DialogIs, Drivers!Rows
<1>5. ASSUME NEW d \in Staff, Drivers!ColleagueEnrols(d)
      PROVE  Drivers!StampInv'
  <2>1. \A e \in Staff : db'[e].text = db[e].text
    BY <1>0, <1>5 DEF Drivers!ColleagueEnrols, Drivers!Row
  <2>2. UNCHANGED <<shown, dialog, wire>> /\ hist'.stamp = hist.stamp
    BY <1>0, <1>5 DEF Drivers!ColleagueEnrols, Drivers!Hists
  <2>3. \A text : Drivers!Typed(text)' <=> Drivers!Typed(text)
    BY <2>2 DEF Drivers!Typed
  <2> QED
    BY <2>1, <2>2, <2>3 DEF Drivers!StampInv, Drivers!DialogIs, Drivers!Rows
<1>6. ASSUME NEW d \in Staff, NEW s \in DriverSections, Drivers!ColleagueEdits(d, s)
      PROVE  Drivers!StampInv'
  <2>1. hist'.stamp = hist.stamp + 1 /\ UNCHANGED <<shown, dialog, wire>>
    BY <1>0, <1>6 DEF Drivers!ColleagueEdits, Drivers!Hists
  <2>2. /\ \A e \in Staff : e # d => db'[e].text = db[e].text
        /\ db'[d].text = [db[d].text EXCEPT ![s] = hist.stamp + 1]
    BY <1>0, <1>6 DEF Drivers!ColleagueEdits, Drivers!Row
  <2>3. \A text \in Drivers!Texts : Drivers!Typed(text) => Drivers!Typed(text)'
    BY <1>0, <2>1, DriverStillTyped
  <2>4. Drivers!Typed(db[d].text)'
    <3>1. \A t \in DriverSections : db'[d].text[t] <= hist'.stamp
      BY <1>0, <1>t, <2>1, <2>2 DEF Drivers!Typed, Drivers!Texts
    <3> QED
      BY <3>1 DEF Drivers!Typed
  <2>5. \A e \in Staff : Drivers!Typed(db[e].text)'
    <3>1. ASSUME NEW e \in Staff, e # d
          PROVE  Drivers!Typed(db[e].text)'
      <4>1. \A t \in DriverSections : db'[e].text[t] <= hist'.stamp
        BY <1>0, <1>t, <2>1, <2>2, <3>1 DEF Drivers!Typed, Drivers!Texts
      <4> QED
        BY <4>1 DEF Drivers!Typed
    <3> QED
      BY <2>4, <3>1
  <2>6. \A e \in DOMAIN Drivers!Rows' : Drivers!Typed(Drivers!Rows[e].text)'
    <3>1. Drivers!Rows' = Drivers!Rows
      BY <2>1 DEF Drivers!Rows
    <3>2. ASSUME NEW e \in DOMAIN Drivers!Rows
          PROVE  \A t \in DriverSections : Drivers!Rows'[e].text[t] <= hist'.stamp
      BY <1>0, <1>t, <2>1, <3>1 DEF Drivers!Typed, Drivers!Texts
    <3> QED
      BY <3>1, <3>2 DEF Drivers!Typed
  <2>7. \A q \in wire : DriverRequestTyped(q)'
    BY <1>0, <2>1, DriverStillTyped
  <2>8. DriverDialogTyped'
    BY <1>0, <2>1, DriverStampDialogKept
  <2> QED
    BY <2>1, <2>5, <2>6, <2>7, <2>8 DEF Drivers!StampInv, DriverRequestTyped, DriverDialogTyped
<1>7. CASE Drivers!Next
  BY <1>2, <1>3, <1>4, <1>5, <1>6, <1>7, DriverStampServed DEF Drivers!Next, Drivers!CommonStep, DriverPageStep
<1> QED
  BY <1>1, <1>7

\* ---- what the sections and the logins are promised ---------------------------------------

\* Only a save takes a text back, and only one of its own section if it knew the row.
LEMMA DriverSectionStep ==
  ASSUME Drivers!StaffAssumption, Drivers!IInv, [Drivers!Next]_deskVars
  PROVE  Drivers!SectionKept
<1>0. Drivers!TypeOK /\ Drivers!StampInv /\ db \in [Staff -> Drivers!Row] /\ hist \in Drivers!Hists
          /\ hist.stamp \in Nat
  BY DEF Drivers!IInv, Drivers!TypeOK, Drivers!Hists
<1>1. ASSUME \A d \in Staff : db'[d].text = db[d].text
      PROVE  Drivers!SectionKept
  <2>1. \A d \in Staff, s \in DriverSections : ~(db[d].text[s] < db[d].text[s])
    BY <1>0 DEF Drivers!Row, Drivers!Texts
  <2> QED
    BY <1>1, <2>1 DEF Drivers!SectionKept
<1>2. CASE UNCHANGED deskVars
  BY <1>1, <1>2 DEF deskVars
<1>3. CASE DriverPageStep \/ Drivers!Refresh \/ \E r \in wire : Drivers!Succeed(r)
  <2>1. db' = db
    BY <1>0, <1>3, DriverSendStep DEF Drivers!Refresh, Drivers!Arrive, Drivers!Succeed
  <2> QED
    BY <1>1, <2>1
<1>4. ASSUME NEW r \in wire, Drivers!SaveUpdate(r)
      PROVE  Drivers!SectionKept
  <2>1. r.kind = "update" /\ r.phase = "read" /\ r.row \in Drivers!Row /\ r.id \in Staff /\ r \in Drivers!Requests
    BY <1>0, <1>4, DriverKindsOf DEF Drivers!SaveUpdate, Drivers!TypeOK
  <2>2. r \notin wire'
    BY <1>4, <2>1, DriverToldIs DEF Drivers!SaveUpdate, Drivers!Reply
  <2>3. DOMAIN r.payload \subseteq {r.section}
    BY <1>0, <2>1 DEF Drivers!TypeOK, Drivers!WellTyped, Drivers!Scoped
  <2>4. Drivers!Patched(r).text = Drivers!Merge(r.row.text, r.payload)
    BY <2>1 DEF Drivers!Patched, Drivers!Row
  <2>5. \A d \in Staff : d # r.id => db'[d] = db[d]
    BY <1>0, <1>4 DEF Drivers!SaveUpdate
  <2>6. db'[r.id] = Drivers!Patched(r)
    BY <1>0, <1>4, <2>1 DEF Drivers!SaveUpdate
  <2>7. ASSUME NEW d \in Staff, NEW s \in DriverSections, db'[d].text[s] < db[d].text[s]
        PROVE  d = r.id /\ (r.section = s \/ r.row # db[d])
    <3>1. ~(db[d].text[s] < db[d].text[s])
      BY <1>0 DEF Drivers!Row, Drivers!Texts
    <3>2. d = r.id
      BY <2>5, <2>7, <3>1
    <3>3. ASSUME r.row = db[d], r.section # s
          PROVE  FALSE
      <4>1. db'[d].text[s] = db[d].text[s]
        BY <2>3, <2>4, <2>6, <3>2, <3>3 DEF Drivers!Merge
      <4> QED
        BY <2>7, <3>1, <4>1
    <3> QED
      BY <3>2, <3>3
  <2> QED
    BY <2>1, <2>2, <2>7 DEF Drivers!SectionKept
<1>5. ASSUME NEW r \in wire, Drivers!ReadForUpdate(r) \/ Drivers!ServeCreate(r) \/ Drivers!RemoveDriver(r)
                 \/ Drivers!CheckLogin(r) \/ Drivers!GrantLogin(r)
      PROVE  Drivers!SectionKept
  <2>1. r.id \in Staff
    BY <1>0, DriverKindsOf DEF Drivers!TypeOK
  <2>2. \A d \in Staff : db'[d].text = db[d].text
    BY <1>0, <1>5, <2>1 DEF Drivers!ReadForUpdate, Drivers!Read, Drivers!ServeCreate, Drivers!RemoveDriver,
       Drivers!ServeRemoval, Drivers!CheckLogin, Drivers!GrantLogin, Drivers!Row
  <2> QED
    BY <1>1, <2>2
<1>6. ASSUME NEW d \in Staff, Drivers!ColleagueEnrols(d)
      PROVE  Drivers!SectionKept
  <2>1. \A e \in Staff : db'[e].text = db[e].text
    BY <1>0, <1>6 DEF Drivers!ColleagueEnrols, Drivers!Row
  <2> QED
    BY <1>1, <2>1
<1>7. ASSUME NEW d \in Staff, NEW s \in DriverSections, Drivers!ColleagueEdits(d, s)
      PROVE  Drivers!SectionKept
  <2>1. /\ \A e \in Staff : e # d => db'[e].text = db[e].text
        /\ db'[d].text = [db[d].text EXCEPT ![s] = hist.stamp + 1]
    BY <1>0, <1>7 DEF Drivers!ColleagueEdits, Drivers!Row
  <2>2. \A e \in Staff, t \in DriverSections : ~(db'[e].text[t] < db[e].text[t])
    BY <1>0, <2>1 DEF Drivers!StampInv, Drivers!Typed, Drivers!Row, Drivers!Texts
  <2> QED
    BY <2>2 DEF Drivers!SectionKept
<1>8. CASE Drivers!Next
  BY <1>3, <1>4, <1>5, <1>6, <1>7, <1>8 DEF Drivers!Next, Drivers!CommonStep, DriverPageStep
<1> QED
  BY <1>2, <1>8

\* ---- the theorems -----------------------------------------------------------------------

LEMMA DriverInitInv == ASSUME Drivers!StaffAssumption, Drivers!Init PROVE Drivers!IInv
<1>1. Drivers!Rows = [d \in {} |-> None]
  BY DEF Drivers!Init, Drivers!Rows
<1>2. Drivers!RemovedInv
  BY <1>1 DEF Drivers!Init, Drivers!RemovedInv, Drivers!RestingListKnowsRemoved
<1>3. Drivers!PhotoInv /\ Drivers!LoginInv
  BY DEF Drivers!Init, Drivers!PhotoInv, Drivers!LoginInv, Drivers!DialogIs, Drivers!Own
<1>4. Drivers!StampInv
  BY <1>1 DEF Drivers!Init, Drivers!StampInv, Drivers!Typed, Drivers!NewText, Drivers!DialogIs
<1> QED
  BY DriverInitType, <1>2, <1>3, <1>4 DEF Drivers!IInv

LEMMA DriverNextInv == ASSUME Drivers!StaffAssumption, Drivers!IInv, [Drivers!Next]_deskVars PROVE Drivers!IInv'
BY DriverNextType, DriverRemovedStep, DriverPhotoStep, DriverLoginStep, DriverStampStep DEF Drivers!IInv

LEMMA DriverInvHolds == ASSUME Drivers!StaffAssumption PROVE Drivers!Spec => []Drivers!IInv
  BY DriverInitInv, DriverNextInv, PTL DEF Drivers!Spec, Drivers!deskVars, deskVars

\* The drivers' rows, list, dialogs, form and requests are of their types.
THEOREM DriverTypeCorrect == ASSUME Drivers!StaffAssumption PROVE Drivers!Spec => []Drivers!TypeOK
<1>1. Drivers!IInv => Drivers!TypeOK
  BY DEF Drivers!IInv
<1> QED
  BY <1>1, DriverInvHolds, PTL

\* A driver shows another one's picture only if a check of a picked file outlived its dialog.
THEOREM DriverPhotosBelong == ASSUME Drivers!StaffAssumption PROVE Drivers!Spec => []Drivers!PhotoBelongs
<1>1. Drivers!IInv => Drivers!PhotoBelongs
  BY DEF Drivers!IInv, Drivers!PhotoInv, Drivers!PhotoBelongs, Drivers!Own
<1> QED
  BY <1>1, DriverInvHolds, PTL

\* A list at rest has no driver this page removed, but for those a stale save brought back.
THEOREM DriverRestingKnowsRemoved ==
    ASSUME Drivers!StaffAssumption PROVE Drivers!Spec => []Drivers!RestingListKnowsRemoved
<1>1. Drivers!IInv => Drivers!RestingListKnowsRemoved
  BY DEF Drivers!IInv, Drivers!RemovedInv
<1> QED
  BY <1>1, DriverInvHolds, PTL

\* A second account for a driver takes two requests that overlapped.
THEOREM DriverSecondAccounts == ASSUME Drivers!StaffAssumption PROVE Drivers!Spec
    => []Drivers!SecondAccountNeedsOverlap
<1>1. Drivers!IInv => Drivers!SecondAccountNeedsOverlap
  BY DEF Drivers!IInv, Drivers!LoginInv, Drivers!SecondAccountNeedsOverlap
<1> QED
  BY <1>1, DriverInvHolds, PTL

\* An edit of one section of a driver does not take another's text back.
THEOREM DriverSectionsKept == ASSUME Drivers!StaffAssumption PROVE Drivers!Spec => [][Drivers!SectionKept]_deskVars
<1>1. Drivers!IInv /\ [Drivers!Next]_deskVars => [Drivers!SectionKept]_deskVars
  BY DriverSectionStep
<1> QED
  BY <1>1, DriverInvHolds, PTL DEF Drivers!Spec, Drivers!deskVars, deskVars

\* ---- the conductors page --------------------------------------------------------------

\* ---- the collectors' requests -----------------------------------------------------------

LEMMA CollectorOnePiece ==
  ASSUME NEW S \in SUBSET CollectorSections, NEW f \in [S -> 0..MaxStamp]
  PROVE  f \in Conductors!Pieces
BY DEF Conductors!Pieces

LEMMA CollectorMerged ==
  ASSUME NEW text \in Conductors!Texts, NEW payload \in Conductors!Pieces
  PROVE  Conductors!Merge(text, payload) \in Conductors!Texts
<1>1. PICK S \in SUBSET CollectorSections : payload \in [S -> 0..MaxStamp]
  BY DEF Conductors!Pieces
<1> QED
  BY <1>1 DEF Conductors!Merge, Conductors!Texts

\* What the kind and the phase of a request say of it.
LEMMA CollectorKindsOf ==
  ASSUME NEW r \in Conductors!Requests
  PROVE  /\ r.kind = "create" => /\ r.id \in Collectors \cup {None} /\ r.copy \in 0..MaxSends /\ r.field = None
                                 /\ r.phase \in {"sent", "created", "asked", "checked", "ok", "error"}
         /\ r.kind = "create" /\ r.phase = "sent" => r \in Conductors!EnrolmentsIn({"sent"}, {None}, {None})
         /\ r.kind = "create" /\ r.phase \in {"created", "asked"}
                => r \in Conductors!EnrolmentsIn({"created", "asked", "ok"}, Collectors, {None})
         /\ r.kind = "create" /\ r.phase = "checked"
                => r \in Conductors!EnrolmentsIn({"checked", "ok"}, Collectors, Conductors!Row)
         /\ r.kind # "create" => r.id \in Collectors /\ r.phase \in {"sent", "read", "ok", "error"}
         /\ r.kind = "update" /\ r.phase = "sent" => r \in Conductors!UpdatesIn("sent", {None})
         /\ r.kind = "update" /\ r.phase = "read" => r \in Conductors!UpdatesIn("read", Conductors!Row)
         /\ r.kind = "login" /\ r.phase = "sent" => r \in Conductors!LoginsIn("sent", {None})
         /\ r.kind = "login" /\ r.phase = "read" => r \in Conductors!LoginsIn("read", Conductors!Row)
         /\ r.kind = "link" /\ r.phase = "sent" => r \in Conductors!Links
         /\ r.kind = "unlink" /\ r.phase = "sent" => r \in Conductors!Unlinks
         /\ r.kind = "delete" /\ r.phase = "sent" => r \in Conductors!Deletes
         /\ r.kind \in {"create", "update", "delete", "login", "link", "unlink"}
         /\ r.phase = "read" => r.kind \in {"update", "login"} /\ r.row \in Conductors!Row
BY DEF Conductors!Requests, Conductors!Enrolments, Conductors!EnrolmentsIn, Conductors!CreateAnswers,
   Conductors!Deletes, Conductors!Updates, Conductors!UpdatesIn, Conductors!Logins, Conductors!LoginsIn,
       Conductors!Links, Conductors!Unlinks,
   Conductors!Answers

LEMMA CollectorToldType ==
  ASSUME NEW r \in Conductors!Requests, NEW phase \in {"ok", "error"}
  PROVE  Conductors!Told(r, phase) \in Conductors!Requests /\ Conductors!Scoped(Conductors!Told(r, phase))
<1>1. CASE r.kind = "create"
  <2>1. r.id \in Collectors \cup {None} /\ r.copy \in 0..MaxSends /\ r.field = None
    BY <1>1, CollectorKindsOf
  <2>2. Conductors!Told(r, phase) \in Conductors!CreateAnswers(Collectors \cup {None}, {None})
    BY <1>1, <2>1 DEF Conductors!Told, Conductors!CreateAnswers
  <2> QED
    BY <2>2 DEF Conductors!Requests, Conductors!CreateAnswers, Conductors!Scoped
<1>2. CASE r.kind # "create"
  <2>1. Conductors!Told(r, phase) \in Conductors!Answers({"update", "delete", "login", "link", "unlink"})
    BY <1>2, CollectorKindsOf DEF Conductors!Told, Conductors!Answers
  <2> QED
    BY <2>1 DEF Conductors!Requests, Conductors!Answers, Conductors!Scoped
<1> QED
  BY <1>1, <1>2

\* An answer takes the place of the request, if anybody waits for it.
LEMMA CollectorReplied ==
  ASSUME Conductors!TypeOK, NEW r \in wire, NEW phase \in {"ok", "error"}, Conductors!Reply(r, phase)
  PROVE  wire' \subseteq Conductors!Requests /\ \A q \in wire' : Conductors!Scoped(q)
<1>1. \A q \in wire' : q \in wire \/ q = Conductors!Told(r, phase)
  BY DEF Conductors!Reply
<1> QED
  BY <1>1, CollectorToldType DEF Conductors!TypeOK, Conductors!WellTyped

LEMMA CollectorSendType ==
  ASSUME Conductors!TypeOK, Conductors!StaffAssumption, NEW r \in Conductors!Requests, Conductors!Scoped(r),
             Conductors!Send(r)
  PROVE  hist' \in Conductors!Hists /\ wire' \subseteq Conductors!Requests /\ \A q \in wire' : Conductors!Scoped(q)
<1>1. hist' \in Conductors!Hists
  BY DEF Conductors!TypeOK, Conductors!Hists, Conductors!Send, Conductors!StaffAssumption
<1>2. \A q \in wire' : q \in wire \/ q = r
  BY DEF Conductors!Send
<1> QED
  BY <1>1, <1>2 DEF Conductors!TypeOK, Conductors!WellTyped

\* The dialogs by kind.
LEMMA CollectorDialogsBy ==
  ASSUME Conductors!TypeOK, dialog # None
  PROVE  /\ dialog.kind = "picker" => dialog \in [kind: {"picker"}, id: Collectors, seen: Conductors!Listed]
         /\ dialog.kind = "edit" => dialog \in [kind: {"edit"}, id: Collectors, seen: Conductors!Listed,
                section: CollectorSections, text: Conductors!Texts]
         /\ dialog.kind \in {"delete", "login", "link"} => dialog.id \in Collectors
BY DEF Conductors!TypeOK, Conductors!Dialogs, Conductors!DialogsOver

\* The table of rows, with that of the users.
CollectorUserTable == [Phones -> [owner: Collectors \cup {None}, partner: Partners \cup {None}]]
CollectorDbType ==
    DOMAIN db = Collectors \cup {"users"} /\ (\A d \in Collectors : db[d] \in Conductors!Row)
        /\ Conductors!Users \in CollectorUserTable

\* Steps of the page alone.
LEMMA CollectorDialogType ==
  ASSUME Conductors!TypeOK, UNCHANGED <<db, shown, wire>>, due' \subseteq {"list"}, dialog' = None
             \/ dialog' \in Conductors!Dialogs,
         form' \in Conductors!Forms, hist' \in Conductors!Hists
  PROVE  Conductors!TypeOK'
<1>1. Conductors!Rows' = Conductors!Rows /\ Conductors!Users' = Conductors!Users
          /\ \A r : Conductors!Scoped(r)' <=> Conductors!Scoped(r)
  BY DEF Conductors!Rows, Conductors!Users, Conductors!Scoped
<1> QED
  BY <1>1 DEF Conductors!TypeOK, Conductors!WellTyped

\* Steps of the server and of requests.
LEMMA CollectorServerType ==
  ASSUME Conductors!TypeOK, UNCHANGED <<shown, due, dialog>>, CollectorDbType', wire' \subseteq Conductors!Requests,
         \A q \in wire' : Conductors!Scoped(q), form' \in Conductors!Forms, hist' \in Conductors!Hists
  PROVE  Conductors!TypeOK'
<1>1. Conductors!Rows' = Conductors!Rows /\ \A r : Conductors!Scoped(r)' <=> Conductors!Scoped(r)
  BY DEF Conductors!Rows, Conductors!Scoped
<1> QED
  BY <1>1 DEF Conductors!TypeOK, Conductors!WellTyped, CollectorDbType, CollectorUserTable

\* Of those, the ones that leave the rows alone.
LEMMA CollectorWireType ==
  ASSUME Conductors!TypeOK, UNCHANGED <<db, shown, due, dialog>>, wire' \subseteq Conductors!Requests,
         \A q \in wire' : Conductors!Scoped(q), form' \in Conductors!Forms, hist' \in Conductors!Hists
  PROVE  Conductors!TypeOK'
<1>1. CollectorDbType'
  BY DEF Conductors!TypeOK, CollectorDbType, Conductors!Users, CollectorUserTable
<1> QED
  BY <1>1, CollectorServerType

\* ---- types ------------------------------------------------------------------------------

\* The page counts as the library does.
LEMMA CollectorCounted ==
    /\ \A S : Conductors!Cardinality(S) = Cardinality(S)
    /\ \A S : Conductors!IsFiniteSet(S) <=> IsFiniteSet(S)
<1>1. \A S : Conductors!Cardinality(S) = Cardinality(S)
  BY Zenon DEF Cardinality, Conductors!Cardinality
<1>2. \A S : Conductors!IsFiniteSet(S) <=> IsFiniteSet(S)
  BY Zenon DEF IsFiniteSet, Conductors!IsFiniteSet
<1> QED
  BY <1>1, <1>2

LEMMA CollectorInitType == Conductors!CollectorAssumption /\ Conductors!Init => Conductors!TypeOK
<1> SUFFICES ASSUME Conductors!CollectorAssumption, Conductors!Init PROVE Conductors!TypeOK
  OBVIOUS
<1>1. Conductors!NewText \in Conductors!Texts
  BY DEF Conductors!CollectorAssumption, Conductors!StaffAssumption, Conductors!NewText, Conductors!Texts
<1>2. Cardinality(Hired) \in Nat
  BY CollectorCounted, FS_Subset, FS_CardinalityType DEF Conductors!CollectorAssumption
<1>3. PICK number \in [Hired -> 1..Cardinality(Hired)], owner \in Hired \cup {None}, phone \in Phones,
          y \in Partners :
        db = Conductors!FirstRows(number, owner, phone, y)
  BY CollectorCounted DEF Conductors!Init
<1>4. Conductors!Users \in CollectorUserTable
  <2>1. Conductors!Users = [p \in Phones |-> IF owner # None
            /\ p = phone THEN [owner |-> owner, partner |-> y] ELSE Conductors!NewUser]
    BY <1>3 DEF Conductors!Users, Conductors!FirstRows
  <2>2. /\ Conductors!NewUser \in [owner: Collectors \cup {None}, partner: Partners \cup {None}]
        /\ owner # None => [owner |-> owner, partner |-> y] \in [owner: Collectors \cup {None},
               partner: Partners \cup {None}]
    BY DEF Conductors!CollectorAssumption, Conductors!NewUser
  <2> QED
    BY <2>1, <2>2 DEF CollectorUserTable
<1>5. ASSUME NEW d \in Collectors
      PROVE  db[d] \in Conductors!Row
  <2>1. db[d] = [state |-> IF d \in Hired THEN "active" ELSE "none",
                 login |-> IF d = owner THEN phone ELSE None,
                 number |-> IF d \in Hired THEN number[d] ELSE 0,
                 text |-> Conductors!NewText, photo |-> None]
    BY <1>3 DEF Conductors!CollectorAssumption, Conductors!FirstRows
  <2>2. (IF d \in Hired THEN number[d] ELSE 0) \in Nat
    BY <1>2, <1>3
  <2> QED
    BY <1>1, <2>1, <2>2 DEF Conductors!Row, Conductors!States
<1>6. Conductors!Rows = [d \in {} |-> None]
  BY DEF Conductors!Init, Conductors!Rows
<1>7. shown \in [{"list"} -> [DOMAIN Conductors!Rows -> Conductors!Listed]]
  BY <1>6 DEF Conductors!Init
<1>8. form \in Conductors!Forms
  BY DEF Conductors!Init, Conductors!Forms, Conductors!Wizards, Conductors!NewForm, Conductors!NewWizard,
     Conductors!LastStep
<1>9. hist \in Conductors!Hists
  BY DEF Conductors!Init, Conductors!Hists, Conductors!NewHist, Conductors!CollectorAssumption,
     Conductors!StaffAssumption
<1>10. DOMAIN db = Collectors \cup {"users"}
  BY <1>3 DEF Conductors!FirstRows
<1> QED
  BY <1>4, <1>5, <1>6, <1>7, <1>8, <1>9, <1>10 DEF Conductors!Init, Conductors!TypeOK, Conductors!WellTyped,
     CollectorUserTable

LEMMA CollectorClearedType ==
  ASSUME NEW f \in Conductors!Forms
  PROVE  Conductors!ResetWizard(f) \in Conductors!Forms /\ [f EXCEPT !.file = None] \in Conductors!Forms
<1>1. Conductors!NewWizard \in Conductors!Wizards
  BY DEF Conductors!Wizards, Conductors!NewWizard, Conductors!LastStep
<1> QED
  BY <1>1 DEF Conductors!Forms, Conductors!ResetWizard

LEMMA CollectorOpenType ==
  ASSUME Conductors!TypeOK, NEW d \in Conductors!Dialogs, Conductors!Open(d)
  PROVE  Conductors!TypeOK'
<1>1. hist' \in Conductors!Hists
  BY DEF Conductors!TypeOK, Conductors!Hists, Conductors!Open
<1> QED
  BY <1>1, CollectorDialogType DEF Conductors!Open, Conductors!TypeOK, Conductors!WellTyped

\* The gestures on the list and its dialogs.
LEMMA CollectorBrowsingTypes ==
  ASSUME Conductors!TypeOK,
         \/ Conductors!RefreshCollectors \/ Conductors!BrowseCollectors \/ Conductors!OpenWizard
                \/ Conductors!CloseDialog \/ Conductors!BackToCollectorPicker
         \/ \E d \in DOMAIN Conductors!Rows : Conductors!RowButtons(d)
         \/ \E s \in CollectorSections : Conductors!ChooseCollectorSection(s)
  PROVE  Conductors!TypeOK'
<1>1. CASE Conductors!RefreshCollectors
  <2> DEFINE L == [d \in Conductors!Active |-> [state |-> db[d].state, login |-> db[d].login,
          number |-> db[d].number,
                                     text |-> db[d].text, photo |-> db[d].photo, linked |-> Conductors!Linked(d)]]
  <2>1. Conductors!Rows' = L /\ shown' = [shown EXCEPT !["list"] = L] /\ due' \subseteq due /\ UNCHANGED <<db,
            dialog, form, wire, hist>>
    BY <1>1 DEF Conductors!RefreshCollectors, Conductors!Arrive, Conductors!TypeOK, Conductors!Rows
  <2>2. ASSUME NEW d \in Conductors!Active
        PROVE  L[d] \in Conductors!Listed /\ d \in Collectors /\ L[d].state = "active"
    <3>1. d \in Collectors /\ db[d] \in Conductors!Row /\ db[d].state = "active"
      BY DEF Conductors!Active, Conductors!TypeOK
    <3>2. PICK b \in BOOLEAN : b = Conductors!Linked(d)
      BY DEF Conductors!Linked
    <3>3. L[d] = [state |-> db[d].state, login |-> db[d].login, number |-> db[d].number,
                  text |-> db[d].text, photo |-> db[d].photo, linked |-> b]
      BY <3>2
    <3> QED
      BY <3>1, <3>3 DEF Conductors!Row, Conductors!Listed
  <2>3. DOMAIN L = Conductors!Active
    OBVIOUS
  <2>4. L \in [Conductors!Active -> Conductors!Listed]
    BY <2>2
  <2> HIDE DEF L
  <2>5. shown' \in [{"list"} -> [DOMAIN Conductors!Rows' -> Conductors!Listed]]
    BY <2>1, <2>3, <2>4 DEF Conductors!TypeOK
  <2>6. DOMAIN Conductors!Rows' \subseteq Collectors
            /\ \A d \in DOMAIN Conductors!Rows' : Conductors!Rows'[d].state = "active"
    BY <2>1, <2>2, <2>3
  <2>7. Conductors!Users' = Conductors!Users /\ \A r : Conductors!Scoped(r)' <=> Conductors!Scoped(r)
    BY <2>1 DEF Conductors!Users, Conductors!Scoped
  <2> QED
    BY <2>1, <2>5, <2>6, <2>7 DEF Conductors!TypeOK, Conductors!WellTyped
<1>2. CASE Conductors!BrowseCollectors
  BY <1>2, CollectorDialogType DEF Conductors!BrowseCollectors, Conductors!Browse, Conductors!Ask,
     Conductors!TypeOK, Conductors!WellTyped
<1>3. CASE Conductors!OpenWizard
  <2>1. [kind |-> "create"] \in Conductors!Dialogs
    BY DEF Conductors!Dialogs, Conductors!DialogsOver
  <2> QED
    BY <1>3, <2>1, CollectorOpenType DEF Conductors!OpenWizard
<1>4. CASE Conductors!CloseDialog
  <2>1. form' \in Conductors!Forms
    BY <1>4, CollectorClearedType DEF Conductors!CloseDialog, Conductors!TypeOK
  <2> QED
    BY <1>4, <2>1, CollectorDialogType DEF Conductors!CloseDialog, Conductors!TypeOK, Conductors!WellTyped
<1>5. CASE Conductors!BackToCollectorPicker
  <2>1. dialog' \in [kind: {"picker"}, id: Collectors, seen: Conductors!Listed]
    BY <1>5, CollectorDialogsBy DEF Conductors!BackToCollectorPicker, Conductors!BackToPicker, Conductors!DialogIs
  <2>2. dialog' \in Conductors!Dialogs
    BY <2>1 DEF Conductors!Dialogs, Conductors!DialogsOver
  <2> QED
    BY <1>5, <2>2, CollectorDialogType DEF Conductors!BackToCollectorPicker, Conductors!BackToPicker,
       Conductors!TypeOK, Conductors!WellTyped
<1>6. ASSUME NEW d \in DOMAIN Conductors!Rows, Conductors!RowButtons(d)
      PROVE  Conductors!TypeOK'
  <2>1. d \in Collectors /\ Conductors!Rows[d] \in Conductors!Listed
    BY DEF Conductors!TypeOK, Conductors!WellTyped, Conductors!Rows
  <2>2. [kind |-> "picker", id |-> d, seen |-> Conductors!Rows[d]] \in Conductors!Dialogs
    BY <2>1 DEF Conductors!Dialogs, Conductors!DialogsOver
  <2>3. /\ [kind |-> "delete", id |-> d] \in Conductors!Dialogs
        /\ [kind |-> "login", id |-> d] \in Conductors!Dialogs
        /\ [kind |-> "link", id |-> d] \in Conductors!Dialogs
    BY <2>1 DEF Conductors!Dialogs, Conductors!DialogsOver
  <2> QED
    BY <1>6, <2>2, <2>3, CollectorOpenType DEF Conductors!RowButtons, Conductors!OpenEditPicker,
       Conductors!OpenRemoval
<1>7. ASSUME NEW s \in CollectorSections, Conductors!ChooseCollectorSection(s)
      PROVE  Conductors!TypeOK'
  <2>1. dialog \in [kind: {"picker"}, id: Collectors, seen: Conductors!Listed]
            /\ dialog.seen.text \in Conductors!Texts
    BY <1>7, CollectorDialogsBy DEF Conductors!ChooseCollectorSection, Conductors!ChooseEditSection,
       Conductors!DialogIs, Conductors!Listed
  <2>2. dialog' \in [kind: {"edit"}, id: Collectors, seen: Conductors!Listed, section: CollectorSections,
            text: Conductors!Texts]
    BY <1>7, <2>1 DEF Conductors!ChooseCollectorSection, Conductors!ChooseEditSection
  <2>3. dialog' \in Conductors!Dialogs
    BY <2>2 DEF Conductors!Dialogs, Conductors!DialogsOver
  <2>4. form' \in Conductors!Forms
    BY <1>7 DEF Conductors!ChooseCollectorSection, Conductors!ChooseEditSection, Conductors!TypeOK, Conductors!Forms
  <2> QED
    BY <1>7, <2>3, <2>4, CollectorDialogType DEF Conductors!ChooseCollectorSection, Conductors!ChooseEditSection,
       Conductors!TypeOK, Conductors!WellTyped
<1> QED
  BY <1>1, <1>2, <1>3, <1>4, <1>5, <1>6, <1>7

\* Typing, picking, and the wizard.
LEMMA CollectorFormTypes ==
  ASSUME Conductors!TypeOK, Conductors!StaffAssumption,
         \/ Conductors!TypeIntoCollector \/ Conductors!PickCollectorPhoto \/ Conductors!FillCollectorStep
                \/ Conductors!NextCollectorStep
         \/ \E i \in 0..Conductors!LastStep : Conductors!GoToCollectorStep(i)
         \/ \E d \in Collectors : Conductors!PhotoChecked(d)
  PROVE  Conductors!TypeOK'
<1>1. CASE Conductors!TypeIntoCollector
  <2>1. dialog \in [kind: {"edit"}, id: Collectors, seen: Conductors!Listed, section: CollectorSections,
            text: Conductors!Texts]
    BY <1>1, CollectorDialogsBy DEF Conductors!TypeIntoCollector, Conductors!TypeText, Conductors!DialogIs
  <2>2. hist.stamp \in 0..MaxStamp /\ hist.stamp < MaxStamp
    BY <1>1 DEF Conductors!TypeIntoCollector, Conductors!TypeText, Conductors!TypeOK, Conductors!Hists
  <2>3. dialog' \in [kind: {"edit"}, id: Collectors, seen: Conductors!Listed, section: CollectorSections,
            text: Conductors!Texts]
    BY <1>1, <2>1, <2>2 DEF Conductors!TypeIntoCollector, Conductors!TypeText, Conductors!Texts,
       Conductors!StaffAssumption
  <2>4. dialog' \in Conductors!Dialogs
    BY <2>3 DEF Conductors!Dialogs, Conductors!DialogsOver
  <2>5. hist' \in Conductors!Hists
    BY <1>1 DEF Conductors!TypeIntoCollector, Conductors!TypeText, Conductors!TypeOK, Conductors!Hists,
       Conductors!StaffAssumption
  <2> QED
    BY <1>1, <2>4, <2>5, CollectorDialogType DEF Conductors!TypeIntoCollector, Conductors!TypeText,
       Conductors!TypeOK, Conductors!WellTyped
<1>2. CASE Conductors!PickCollectorPhoto
  <2>1. dialog.id \in Collectors
    BY <1>2, CollectorDialogsBy DEF Conductors!PickCollectorPhoto, Conductors!PickPhoto, Conductors!DialogIs
  <2>2. hist' \in Conductors!Hists
    BY <1>2 DEF Conductors!PickCollectorPhoto, Conductors!PickPhoto, Conductors!TypeOK, Conductors!Hists,
       Conductors!StaffAssumption
  <2>3. form' \in Conductors!Forms
    BY <1>2, <2>1 DEF Conductors!PickCollectorPhoto, Conductors!PickPhoto, Conductors!TypeOK, Conductors!Forms
  <2> QED
    BY <1>2, <2>2, <2>3, CollectorDialogType DEF Conductors!PickCollectorPhoto, Conductors!PickPhoto,
       Conductors!TypeOK, Conductors!WellTyped
<1>3. CASE Conductors!FillCollectorStep
  <2>1. form' \in Conductors!Forms
    BY <1>3 DEF Conductors!FillCollectorStep, Conductors!FillStep, Conductors!TypeOK, Conductors!Forms,
       Conductors!Wizards
  <2> QED
    BY <1>3, <2>1, CollectorDialogType DEF Conductors!FillCollectorStep, Conductors!FillStep, Conductors!TypeOK,
       Conductors!WellTyped
<1>4. CASE Conductors!NextCollectorStep
  <2>1. form \in Conductors!Forms /\ form.wizard \in Conductors!Wizards
    BY DEF Conductors!TypeOK, Conductors!Forms
  <2>2. form'.wizard = [step |-> form.wizard.step + 1, max |-> Conductors!LastStep, filled |-> form.wizard.filled]
    BY <1>4, <2>1 DEF Conductors!NextCollectorStep, Conductors!HandleNext, Conductors!Forms, Conductors!Wizards
  <2>5. form.wizard.step = 0 /\ form.wizard.filled \in BOOLEAN
    BY <1>4, <2>1 DEF Conductors!NextCollectorStep, Conductors!HandleNext, Conductors!Wizards, Conductors!LastStep
  <2>3. form'.wizard \in Conductors!Wizards
    BY <2>2, <2>5 DEF Conductors!Wizards, Conductors!LastStep
  <2>4. form' \in Conductors!Forms
    BY <1>4, <2>1, <2>3 DEF Conductors!NextCollectorStep, Conductors!HandleNext, Conductors!Forms
  <2> QED
    BY <1>4, <2>4, CollectorDialogType DEF Conductors!NextCollectorStep, Conductors!HandleNext, Conductors!TypeOK,
       Conductors!WellTyped
<1>5. ASSUME NEW i \in 0..Conductors!LastStep, Conductors!GoToCollectorStep(i)
      PROVE  Conductors!TypeOK'
  <2>1. form' \in Conductors!Forms
    BY <1>5 DEF Conductors!GoToCollectorStep, Conductors!GoToStep, Conductors!TypeOK, Conductors!Forms,
       Conductors!Wizards
  <2> QED
    BY <1>5, <2>1, CollectorDialogType DEF Conductors!GoToCollectorStep, Conductors!GoToStep, Conductors!TypeOK,
       Conductors!WellTyped
<1>6. ASSUME NEW d \in Collectors, Conductors!PhotoChecked(d)
      PROVE  Conductors!TypeOK'
  <2>1. PICK file \in {form.file, d} : form' = [form EXCEPT !.checking = @ \ {d}, !.file = file]
    BY <1>6 DEF Conductors!PhotoChecked
  <2>2. form' \in Conductors!Forms
    BY <2>1 DEF Conductors!TypeOK, Conductors!Forms
  <2>3. PICK b \in BOOLEAN : b = (~Conductors!DialogIs("edit") \/ dialog.id # d)
    OBVIOUS
  <2>4. hist' = [hist EXCEPT !.strayed = @ \/ b]
    BY <1>6, <2>3 DEF Conductors!PhotoChecked
  <2>5. hist' \in Conductors!Hists
    BY <2>4 DEF Conductors!TypeOK, Conductors!Hists
  <2> QED
    BY <1>6, <2>2, <2>5, CollectorDialogType DEF Conductors!PhotoChecked, Conductors!TypeOK, Conductors!WellTyped
<1> QED
  BY <1>1, <1>2, <1>3, <1>4, <1>5, <1>6
\* Requests of the page.
LEMMA CollectorSendingTypes ==
  ASSUME Conductors!TypeOK, Conductors!StaffAssumption,
         \/ Conductors!UpdateCollector \/ Conductors!ConfirmRemoval \/ Conductors!SubmitCollector
                \/ Conductors!SubmitLogin \/ Conductors!SubmitLink \/ Conductors!GiveUp
         \/ \E d \in DOMAIN Conductors!Rows : Conductors!Unlink(d)
  PROVE  Conductors!TypeOK'
<1>0. ASSUME NEW r \in Conductors!Requests, Conductors!Scoped(r), Conductors!Send(r), UNCHANGED <<db, shown, due,
                 dialog, form>>
      PROVE  Conductors!TypeOK'
  BY <1>0, CollectorSendType, CollectorWireType DEF Conductors!TypeOK
<1>1. CASE Conductors!UpdateCollector
  <2> DEFINE r == [kind |-> "update", who |-> "desk", id |-> dialog.id, phase |-> "sent",
          section |-> dialog.section,
                   payload |-> [s \in {dialog.section} |-> dialog.text[s]], photo |-> form.file, row |-> None]
  <2>1. dialog \in [kind: {"edit"}, id: Collectors, seen: Conductors!Listed, section: CollectorSections,
            text: Conductors!Texts]
    BY <1>1, CollectorDialogsBy DEF Conductors!UpdateCollector, Conductors!HandleUpdate, Conductors!DialogIs
  <2>2. [s \in {dialog.section} |-> dialog.text[s]] \in [{dialog.section} -> 0..MaxStamp]
    BY <2>1 DEF Conductors!Texts
  <2>3. [s \in {dialog.section} |-> dialog.text[s]] \in Conductors!Pieces
    BY <2>1, <2>2, CollectorOnePiece
  <2>4. form.file \in Collectors \cup {None}
    BY DEF Conductors!TypeOK, Conductors!Forms
  <2>5. r \in Conductors!UpdatesIn("sent", {None})
    BY <2>1, <2>3, <2>4 DEF Conductors!UpdatesIn, Conductors!Whos
  <2>6. r \in Conductors!Requests /\ Conductors!Scoped(r)
    BY <2>5 DEF Conductors!Requests, Conductors!Updates, Conductors!Scoped
  <2>7. Conductors!Send(r) /\ UNCHANGED <<db, shown, due, dialog, form>>
    BY <1>1 DEF Conductors!UpdateCollector, Conductors!HandleUpdate
  <2>8. PICK q : q = r
    OBVIOUS
  <2> HIDE DEF r
  <2> QED
    BY <2>6, <2>7, CollectorSendType, CollectorWireType DEF Conductors!TypeOK
<1>2. CASE Conductors!ConfirmRemoval
  <2> DEFINE r == [kind |-> "delete", who |-> "desk", id |-> dialog.id, phase |-> "sent"]
  <2>1. dialog.id \in Collectors
    BY <1>2, CollectorDialogsBy DEF Conductors!ConfirmRemoval, Conductors!SubmitRemoval, Conductors!DialogIs
  <2>2. r \in Conductors!Requests /\ Conductors!Scoped(r)
    BY <2>1 DEF Conductors!Requests, Conductors!Deletes, Conductors!Whos, Conductors!Scoped
  <2>3. Conductors!Send(r) /\ UNCHANGED <<db, shown, due, dialog, form>>
    BY <1>2 DEF Conductors!ConfirmRemoval, Conductors!SubmitRemoval
  <2> HIDE DEF r
  <2> QED
    BY <2>2, <2>3, CollectorSendType, CollectorWireType DEF Conductors!TypeOK
<1>3. CASE Conductors!SubmitCollector
  <2>1. PICK password \in BOOLEAN, p \in Phones, copy \in Conductors!FreshCopies :
            Conductors!SubmitWizard([kind |-> "create", who |-> "desk", id |-> None, copy |-> copy, field |-> None,
                          password |-> password, phone |-> p, row |-> None, phase |-> "sent"])
    BY <1>3 DEF Conductors!SubmitCollector, Conductors!PasswordTyped
  <2> DEFINE r == [kind |-> "create", who |-> "desk", id |-> None, copy |-> copy, field |-> None,
                   password |-> password, phone |-> p, row |-> None, phase |-> "sent"]
  <2>2. r \in Conductors!EnrolmentsIn({"sent"}, {None}, {None})
    BY DEF Conductors!EnrolmentsIn, Conductors!Whos, Conductors!FreshCopies
  <2>3. r \in Conductors!Requests /\ Conductors!Scoped(r)
    BY <2>2 DEF Conductors!Requests, Conductors!Enrolments, Conductors!Scoped
  <2>4. Conductors!Send(r)
    BY <2>1 DEF Conductors!SubmitWizard, Conductors!Send
  <2>5. UNCHANGED <<db, shown, due, dialog, form>>
    BY <1>3 DEF Conductors!SubmitCollector
  <2> HIDE DEF r
  <2> QED
    BY <1>0, <2>3, <2>4, <2>5
<1>4. CASE Conductors!SubmitLogin
  <2>1. dialog.id \in Collectors
    BY <1>4, CollectorDialogsBy DEF Conductors!SubmitLogin, Conductors!DialogIs
  <2>2. PICK p \in Phones :
            Conductors!Send([kind |-> "login", who |-> "desk", id |-> dialog.id, phone |-> p, row |-> None,
                phase |-> "sent"])
    BY <1>4 DEF Conductors!SubmitLogin
  <2> DEFINE r == [kind |-> "login", who |-> "desk", id |-> dialog.id, phone |-> p, row |-> None, phase |-> "sent"]
  <2>3. r \in Conductors!LoginsIn("sent", {None})
    BY <2>1 DEF Conductors!LoginsIn, Conductors!Whos
  <2>4. r \in Conductors!Requests /\ Conductors!Scoped(r)
    BY <2>3 DEF Conductors!Requests, Conductors!Logins, Conductors!Scoped
  <2>5. Conductors!Send(r) /\ UNCHANGED <<db, shown, due, dialog, form>>
    BY <1>4, <2>2 DEF Conductors!SubmitLogin
  <2> HIDE DEF r
  <2> QED
    BY <2>4, <2>5, CollectorSendType, CollectorWireType DEF Conductors!TypeOK
<1>5. CASE Conductors!SubmitLink
  <2>1. dialog.id \in Collectors
    BY <1>5, CollectorDialogsBy DEF Conductors!SubmitLink, Conductors!DialogIs
  <2>2. PICK y \in Partners :
            Conductors!Send([kind |-> "link", who |-> "desk", id |-> dialog.id, partner |-> y, phase |-> "sent"])
    BY <1>5 DEF Conductors!SubmitLink
  <2> DEFINE r == [kind |-> "link", who |-> "desk", id |-> dialog.id, partner |-> y, phase |-> "sent"]
  <2>3. r \in Conductors!Links
    BY <2>1 DEF Conductors!Links, Conductors!Whos
  <2>4. r \in Conductors!Requests /\ Conductors!Scoped(r)
    BY <2>3 DEF Conductors!Requests, Conductors!Links, Conductors!Scoped
  <2>5. Conductors!Send(r) /\ UNCHANGED <<db, shown, due, dialog, form>>
    BY <1>5, <2>2 DEF Conductors!SubmitLink
  <2> HIDE DEF r
  <2> QED
    BY <2>4, <2>5, CollectorSendType, CollectorWireType DEF Conductors!TypeOK
<1>6. ASSUME NEW d \in DOMAIN Conductors!Rows, Conductors!Unlink(d)
      PROVE  Conductors!TypeOK'
  <2> DEFINE r == [kind |-> "unlink", who |-> "desk", id |-> d, phase |-> "sent"]
  <2>1. d \in Collectors
    BY DEF Conductors!TypeOK, Conductors!WellTyped
  <2>2. r \in Conductors!Requests /\ Conductors!Scoped(r)
    BY <2>1 DEF Conductors!Requests, Conductors!Unlinks, Conductors!Whos, Conductors!Scoped
  <2>3. Conductors!Send(r) /\ UNCHANGED <<db, shown, due, dialog, form>>
    BY <1>6 DEF Conductors!Unlink
  <2> HIDE DEF r
  <2> QED
    BY <2>2, <2>3, CollectorSendType, CollectorWireType DEF Conductors!TypeOK
<1>7. CASE Conductors!GiveUp
  <2>1. PICK r \in wire : /\ r.phase \in {"sent", "read"}
                          /\ wire' = wire \ {r} \/ wire' = (wire \ {r}) \cup {[r EXCEPT !.who = "gone"]}
                          /\ UNCHANGED <<db, shown, due, dialog, form, hist>>
    BY <1>7 DEF Conductors!GiveUp, Conductors!Replace
  <2>2. r \in Conductors!Requests /\ Conductors!Scoped(r)
    BY DEF Conductors!TypeOK, Conductors!WellTyped
  <2>3. [r EXCEPT !.who = "gone"] \in Conductors!Requests /\ Conductors!Scoped([r EXCEPT !.who = "gone"])
    <3>1. CASE r.kind = "create"
      <4>1. r \in Conductors!EnrolmentsIn({"sent"}, {None}, {None})
        BY <2>1, <2>2, <3>1, CollectorKindsOf
      <4> QED
        BY <4>1 DEF Conductors!EnrolmentsIn, Conductors!Enrolments, Conductors!Requests, Conductors!Scoped,
           Conductors!Whos
    <3>2. CASE r.kind = "update" /\ r.phase = "sent"
      BY <2>2, <3>2, CollectorKindsOf DEF Conductors!UpdatesIn, Conductors!Updates, Conductors!Requests,
         Conductors!Scoped, Conductors!Whos
    <3>3. CASE r.kind = "update" /\ r.phase = "read"
      BY <2>2, <3>3, CollectorKindsOf DEF Conductors!UpdatesIn, Conductors!Updates, Conductors!Requests,
         Conductors!Scoped, Conductors!Whos
    <3>4. CASE r.kind = "login" /\ r.phase = "sent"
      BY <2>2, <3>4, CollectorKindsOf DEF Conductors!LoginsIn, Conductors!Logins, Conductors!Requests,
         Conductors!Scoped, Conductors!Whos
    <3>5. CASE r.kind = "login" /\ r.phase = "read"
      BY <2>2, <3>5, CollectorKindsOf DEF Conductors!LoginsIn, Conductors!Logins, Conductors!Requests,
         Conductors!Scoped, Conductors!Whos
    <3>6. CASE r.kind \in {"delete", "unlink"}
      BY <2>1, <2>2, <3>6, CollectorKindsOf DEF Conductors!Deletes, Conductors!Unlinks, Conductors!Requests,
         Conductors!Scoped, Conductors!Whos
    <3>7. CASE r.kind = "link"
      BY <2>1, <2>2, <3>7, CollectorKindsOf DEF Conductors!Links, Conductors!Requests, Conductors!Scoped,
         Conductors!Whos
    <3> QED
      BY <2>1, <2>2, <3>1, <3>2, <3>3, <3>4, <3>5, <3>6, <3>7, CollectorKindsOf
  <2>4. \A q \in wire' : q \in wire \/ q = [r EXCEPT !.who = "gone"]
    BY <2>1
  <2>5. wire' \subseteq Conductors!Requests /\ \A q \in wire' : Conductors!Scoped(q)
    BY <2>3, <2>4 DEF Conductors!TypeOK, Conductors!WellTyped
  <2> QED
    BY <2>1, <2>5, CollectorWireType DEF Conductors!TypeOK
<1> QED
  BY <1>1, <1>2, <1>3, <1>4, <1>5, <1>6, <1>7

\* One row written, or the user of one phone number.
LEMMA CollectorRowWritten ==
  ASSUME Conductors!TypeOK, Conductors!CollectorAssumption, NEW d \in Collectors, NEW row \in Conductors!Row,
             db' = [db EXCEPT ![d] = row]
  PROVE  CollectorDbType'
BY DEF Conductors!TypeOK, CollectorDbType, Conductors!Users, CollectorUserTable, Conductors!CollectorAssumption

LEMMA CollectorUserWritten ==
  ASSUME Conductors!TypeOK, Conductors!CollectorAssumption, NEW p \in Phones,
         NEW user \in [owner: Collectors \cup {None}, partner: Partners \cup {None}],
         db' = [db EXCEPT !["users"] = [Conductors!Users EXCEPT ![p] = user]]
  PROVE  CollectorDbType'
<1>1. db'["users"] = [Conductors!Users EXCEPT ![p] = user] /\ DOMAIN db' = Collectors \cup {"users"}
  BY DEF Conductors!TypeOK
<1>2. [Conductors!Users EXCEPT ![p] = user] \in CollectorUserTable
  BY DEF Conductors!TypeOK, CollectorUserTable
<1>3. \A d \in Collectors : db'[d] = db[d]
  BY DEF Conductors!TypeOK, Conductors!CollectorAssumption
<1> QED
  BY <1>1, <1>2, <1>3 DEF Conductors!TypeOK, CollectorDbType, Conductors!Users

\* The requests of the server that go on.
LEMMA CollectorReplaceType ==
  ASSUME Conductors!TypeOK, NEW r \in wire, NEW q \in Conductors!Requests, Conductors!Scoped(q),
             Conductors!Replace(r, q)
  PROVE  wire' \subseteq Conductors!Requests /\ \A p \in wire' : Conductors!Scoped(p)
<1>1. \A p \in wire' : p \in wire \/ p = q
  BY DEF Conductors!Replace
<1> QED
  BY <1>1 DEF Conductors!TypeOK, Conductors!WellTyped

\* The enrolments.
LEMMA CollectorEnrolmentTypes ==
  ASSUME Conductors!TypeOK, Conductors!CollectorAssumption, NEW r \in wire, Conductors!ServeEnrolment(r)
             \/ Conductors!AskForLogin(r) \/ Conductors!LoginTimesOut(r)
  PROVE  Conductors!TypeOK'
<1>0. r \in Conductors!Requests /\ UNCHANGED <<shown, due, dialog, form, hist>> /\ r.kind = "create"
  BY DEF Conductors!TypeOK, Conductors!ServeEnrolment, Conductors!AskForLogin, Conductors!LoginTimesOut
<1>1. CASE Conductors!ServeEnrolment(r)
  <2>1. r.phase = "sent"
    BY <1>1 DEF Conductors!ServeEnrolment
  <2>2. CASE UNCHANGED db /\ Conductors!Reply(r, "error")
    BY <1>0, <2>2, CollectorReplied, CollectorWireType DEF Conductors!TypeOK
  <2>3. ASSUME NEW d \in Collectors, db' = [db EXCEPT ![d].state = "active", ![d].number = Conductors!NextNumber],
               IF r.who = "desk" THEN Conductors!Replace(r, [r EXCEPT !.id = d, !.phase = "created"])
                   ELSE Conductors!Reply(r, "ok")
        PROVE  Conductors!TypeOK'
    <3>1. Conductors!NextNumber \in Nat
      <4>1. IsFiniteSet(Conductors!Active)
        BY CollectorCounted, FS_Subset DEF Conductors!Active, Conductors!CollectorAssumption
      <4> QED
        BY <4>1, CollectorCounted, FS_CardinalityType DEF Conductors!NextNumber
    <3>2. db[d] \in Conductors!Row
      BY DEF Conductors!TypeOK
    <3>a. [db[d] EXCEPT !.state = "active", !.number = Conductors!NextNumber] \in Conductors!Row
      BY <3>1, <3>2 DEF Conductors!Row, Conductors!States
    <3> DEFINE row == [db[d] EXCEPT !.state = "active", !.number = Conductors!NextNumber]
    <3>3. db' = [db EXCEPT ![d] = row]
      BY <2>3, <3>2
    <3>b. row \in Conductors!Row
      BY <3>a
    <3> HIDE DEF row
    <3>4. CollectorDbType'
      BY <3>3, <3>b, CollectorRowWritten
    <3>5. CASE Conductors!Reply(r, "ok")
      BY <1>0, <3>4, <3>5, CollectorReplied, CollectorServerType DEF Conductors!TypeOK
    <3>6. CASE Conductors!Replace(r, [r EXCEPT !.id = d, !.phase = "created"])
      <4> DEFINE q == [r EXCEPT !.id = d, !.phase = "created"]
      <4>1. r \in Conductors!EnrolmentsIn({"sent"}, {None}, {None})
        BY <1>0, <2>1, CollectorKindsOf
      <4>2. q \in Conductors!EnrolmentsIn({"created", "asked", "ok"}, Collectors, {None}) /\ q.phase = "created"
        BY <4>1 DEF Conductors!EnrolmentsIn
      <4>3. q \in Conductors!Requests /\ Conductors!Scoped(q)
        BY <4>2 DEF Conductors!EnrolmentsIn, Conductors!Requests, Conductors!Enrolments, Conductors!Scoped
      <4>4. Conductors!Replace(r, q)
        BY <3>6
      <4> HIDE DEF q
      <4> QED
        BY <1>0, <3>4, <4>3, <4>4, CollectorReplaceType, CollectorServerType DEF Conductors!TypeOK
    <3> QED
      BY <2>3, <3>5, <3>6
  <2> QED
    BY <1>1, <2>2, <2>3 DEF Conductors!ServeEnrolment
<1>2. CASE Conductors!AskForLogin(r)
  <2>1. PICK phase \in {"asked", "ok"} : Conductors!Replace(r, [r EXCEPT !.phase = phase])
    BY <1>2 DEF Conductors!AskForLogin
  <2>2. r \in Conductors!EnrolmentsIn({"created", "asked", "ok"}, Collectors, {None}) /\ UNCHANGED db
    BY <1>0, <1>2, CollectorKindsOf DEF Conductors!AskForLogin
  <2> DEFINE q == [r EXCEPT !.phase = phase]
  <2>3. q \in Conductors!EnrolmentsIn({"created", "asked", "ok"}, Collectors, {None}) /\ q.phase \in {"asked", "ok"}
    BY <2>2 DEF Conductors!EnrolmentsIn
  <2>4. q \in Conductors!Requests /\ Conductors!Scoped(q)
    BY <2>3 DEF Conductors!EnrolmentsIn, Conductors!Requests, Conductors!Enrolments, Conductors!Scoped
  <2>5. Conductors!Replace(r, q)
    BY <2>1
  <2> HIDE DEF q
  <2> QED
    BY <1>0, <2>2, <2>4, <2>5, CollectorReplaceType, CollectorWireType DEF Conductors!TypeOK
<1>3. CASE Conductors!LoginTimesOut(r)
  <2>1. r.phase \in {"asked", "checked"} /\ UNCHANGED db
    BY <1>3 DEF Conductors!LoginTimesOut
  <2>2. \A q \in wire' : q \in wire \/ q = [r EXCEPT !.phase = "ok"] \/ q = [r EXCEPT !.who = "gone"]
    BY <1>3 DEF Conductors!LoginTimesOut
  <2>3. /\ [r EXCEPT !.phase = "ok"] \in Conductors!Requests /\ Conductors!Scoped([r EXCEPT !.phase = "ok"])
        /\ [r EXCEPT !.who = "gone"] \in Conductors!Requests /\ Conductors!Scoped([r EXCEPT !.who = "gone"])
    <3>1. CASE r.phase = "asked"
      <4>1. r \in Conductors!EnrolmentsIn({"created", "asked", "ok"}, Collectors, {None})
        BY <1>0, <3>1, CollectorKindsOf
      <4> QED
        BY <3>1, <4>1 DEF Conductors!EnrolmentsIn, Conductors!Requests, Conductors!Enrolments, Conductors!Scoped,
           Conductors!Whos
    <3>2. CASE r.phase = "checked"
      <4>1. r \in Conductors!EnrolmentsIn({"checked", "ok"}, Collectors, Conductors!Row)
        BY <1>0, <3>2, CollectorKindsOf
      <4> QED
        BY <3>2, <4>1 DEF Conductors!EnrolmentsIn, Conductors!Requests, Conductors!Enrolments, Conductors!Scoped,
           Conductors!Whos
    <3> QED
      BY <2>1, <3>1, <3>2
  <2>4. wire' \subseteq Conductors!Requests /\ \A q \in wire' : Conductors!Scoped(q)
    BY <2>2, <2>3 DEF Conductors!TypeOK, Conductors!WellTyped
  <2> QED
    BY <1>0, <2>1, <2>4, CollectorWireType DEF Conductors!TypeOK
<1> QED
  BY <1>1, <1>2, <1>3
\* What a login writes: the user, and the row if it is still there.
LEMMA CollectorGrantStep ==
  ASSUME Conductors!TypeOK, Conductors!CollectorAssumption, NEW r \in wire, Conductors!GrantLogin(r)
  PROVE  /\ r.id \in Collectors /\ r.phone \in Phones /\ r.row \in Conductors!Row /\ r.phase \in {"read", "checked"}
         /\ r.kind \in {"login", "create"}
         /\ \/ db' = db /\ hist' = hist
            \/ /\ DOMAIN db' = Collectors \cup {"users"}
               /\ db'["users"] = [Conductors!Users EXCEPT ![r.phone]
                      = [Conductors!Users[r.phone] EXCEPT !.owner = r.id]]
               /\ Conductors!Users[r.phone].owner = None
               /\ db'[r.id] = [db[r.id] EXCEPT !.login = IF db[r.id].state = "active" THEN r.phone ELSE @]
               /\ \A d \in Collectors : d # r.id => db'[d] = db[d]
               /\ hist' = [hist EXCEPT !.stale = @ \cup Conductors!StaleIds(r)]
<1>1. r \in Conductors!LoginsIn("read", Conductors!Row)
          \/ r \in Conductors!EnrolmentsIn({"checked", "ok"}, Collectors, Conductors!Row)
  BY CollectorKindsOf DEF Conductors!GrantLogin, Conductors!Granting, Conductors!TypeOK
<1>2. /\ r.id \in Collectors /\ r.phone \in Phones /\ r.row \in Conductors!Row /\ r.phase \in {"read", "checked"}
      /\ r.kind \in {"login", "create"}
  BY <1>1 DEF Conductors!LoginsIn, Conductors!EnrolmentsIn, Conductors!GrantLogin, Conductors!Granting
<1>3. CASE Conductors!Users[r.phone].owner = None
  <2> DEFINE X == IF db[r.id].state = "active" THEN r.phone ELSE db[r.id].login
  <2>1. db' = [db EXCEPT !["users"][r.phone].owner = r.id, ![r.id].login = X]
    BY <1>3, <1>2 DEF Conductors!GrantLogin, Conductors!CollectorAssumption
  <2>2. hist' = [hist EXCEPT !.stale = @ \cup Conductors!StaleIds(r)]
    BY <1>3 DEF Conductors!GrantLogin
  <2> HIDE DEF X
  <2>3. DOMAIN db = Collectors \cup {"users"} /\ "users" # r.id /\ "users" \notin Collectors
    BY <1>2 DEF Conductors!TypeOK, Conductors!CollectorAssumption
  <2>4. /\ db'["users"] = [Conductors!Users EXCEPT ![r.phone] = [Conductors!Users[r.phone] EXCEPT !.owner = r.id]]
        /\ db'[r.id] = [db[r.id] EXCEPT !.login = X]
        /\ \A d \in Collectors : d # r.id => db'[d] = db[d]
        /\ DOMAIN db' = Collectors \cup {"users"}
    BY <1>2, <2>1, <2>3 DEF Conductors!Users
  <2> QED
    BY <1>2, <1>3, <2>2, <2>4 DEF X
<1>4. CASE Conductors!Users[r.phone].owner # None
  <2>1. db' = db /\ hist' = [hist EXCEPT !.stale = @]
    BY <1>4 DEF Conductors!GrantLogin
  <2>2. hist' = hist
    BY <2>1 DEF Conductors!TypeOK, Conductors!Hists
  <2> QED
    BY <1>2, <2>1, <2>2
<1> QED
  BY <1>3, <1>4

\* The other steps of the server.
LEMMA CollectorServerTypes ==
  ASSUME Conductors!TypeOK, Conductors!CollectorAssumption, NEW r \in wire,
         \/ Conductors!ReadForUpdate(r) \/ Conductors!SaveCollector(r) \/ Conductors!RemoveCollector(r)
                \/ Conductors!CheckLogin(r) \/ Conductors!GrantLogin(r)
         \/ Conductors!ServeLink(r) \/ Conductors!ServeUnlink(r)
  PROVE  Conductors!TypeOK'
<1>0. r \in Conductors!Requests /\ Conductors!Scoped(r) /\ UNCHANGED <<shown, due, dialog, form>>
  BY DEF Conductors!TypeOK, Conductors!WellTyped, Conductors!ReadForUpdate, Conductors!Read,
     Conductors!SaveCollector, Conductors!SaveUpdate, Conductors!RemoveCollector, Conductors!ServeRemoval,
         Conductors!CheckLogin,
     Conductors!GrantLogin, Conductors!ServeLink, Conductors!ServeUnlink
<1>1. ASSUME NEW phase \in {"ok", "error"}, Conductors!Reply(r, phase), CollectorDbType', hist' \in Conductors!Hists
      PROVE  Conductors!TypeOK'
  BY <1>0, <1>1, CollectorReplied, CollectorServerType DEF Conductors!TypeOK
<1>2. ASSUME NEW phase \in {"ok", "error"}, Conductors!Reply(r, phase), UNCHANGED <<db, hist>>
      PROVE  Conductors!TypeOK'
  BY <1>0, <1>2, CollectorReplied, CollectorWireType DEF Conductors!TypeOK
<1>3. CASE Conductors!ReadForUpdate(r)
  <2>1. r.kind = "update" /\ r.phase = "sent" /\ UNCHANGED <<db, hist>>
    BY <1>3 DEF Conductors!ReadForUpdate, Conductors!Read
  <2>2. r \in Conductors!UpdatesIn("sent", {None}) /\ db[r.id] \in Conductors!Row
    BY <1>0, <2>1, CollectorKindsOf DEF Conductors!TypeOK
  <2>3. CASE db[r.id].state = "active"
    <3> DEFINE q == [r EXCEPT !.phase = "read", !.row = db[r.id]]
    <3>1. q \in Conductors!UpdatesIn("read", Conductors!Row)
      BY <2>2 DEF Conductors!UpdatesIn
    <3>2. q.phase = "read" /\ q.row = db[r.id] /\ q.payload = r.payload /\ q.section = r.section
      BY <2>2 DEF Conductors!UpdatesIn
    <3>3. q \in Conductors!Requests /\ Conductors!Scoped(q)
      BY <1>0, <2>1, <2>3, <3>1, <3>2 DEF Conductors!Requests, Conductors!Updates, Conductors!Scoped
    <3>4. Conductors!Replace(r, q)
      BY <1>3, <2>3 DEF Conductors!ReadForUpdate, Conductors!Read
    <3> HIDE DEF q
    <3> QED
      BY <1>0, <2>1, <3>3, <3>4, CollectorReplaceType, CollectorWireType DEF Conductors!TypeOK
  <2>4. CASE db[r.id].state # "active"
    BY <1>2, <1>3, <2>4 DEF Conductors!ReadForUpdate, Conductors!Read
  <2> QED
    BY <2>3, <2>4
<1>4. CASE Conductors!SaveCollector(r)
  <2>1. r \in Conductors!UpdatesIn("read", Conductors!Row)
    BY <1>0, <1>4, CollectorKindsOf DEF Conductors!SaveCollector
  <2>2. r.row \in Conductors!Row /\ r.payload \in Conductors!Pieces /\ r.photo \in Collectors \cup {None}
            /\ r.id \in Collectors
    BY <2>1 DEF Conductors!UpdatesIn
  <2>3. Conductors!Merge(r.row.text, r.payload) \in Conductors!Texts
    BY <2>2, CollectorMerged DEF Conductors!Row
  <2>4. Conductors!Patched(r) \in Conductors!Row
    BY <2>2, <2>3 DEF Conductors!Patched, Conductors!Row
  <2>5. CASE Conductors!SaveUpdate(r)
    <3>1. db' = [db EXCEPT ![r.id] = Conductors!Patched(r)] /\ Conductors!Reply(r, "ok")
      BY <2>5 DEF Conductors!SaveUpdate
    <3>2. CollectorDbType'
      BY <2>2, <2>4, <3>1, CollectorRowWritten
    <3>3. Conductors!StaleIds(r) \subseteq Collectors
      BY <2>2 DEF Conductors!StaleIds
    <3>4. hist' \in Conductors!Hists
      BY <2>5, <3>3 DEF Conductors!SaveUpdate, Conductors!TypeOK, Conductors!Hists
    <3> QED
      BY <1>1, <3>1, <3>2, <3>4
  <2> QED
    BY <1>2, <1>4, <2>5 DEF Conductors!SaveCollector
<1>5. CASE Conductors!RemoveCollector(r)
  <2>1. r.id \in Collectors /\ db[r.id] \in Conductors!Row
    BY <1>0, <1>5, CollectorKindsOf DEF Conductors!RemoveCollector, Conductors!ServeRemoval, Conductors!TypeOK
  <2>2. [db[r.id] EXCEPT !.state = "gone"] \in Conductors!Row
    BY <2>1 DEF Conductors!Row, Conductors!States
  <2>3. CASE db' = [db EXCEPT ![r.id] = [db[r.id] EXCEPT !.state = "gone"]] /\ Conductors!Reply(r, "ok")
                 /\ hist' = hist
    <3>1. CollectorDbType'
      BY <2>1, <2>2, <2>3, CollectorRowWritten
    <3> QED
      BY <1>1, <2>3, <3>1 DEF Conductors!TypeOK
  <2> QED
    BY <1>2, <1>5, <2>3 DEF Conductors!RemoveCollector, Conductors!ServeRemoval
<1>6. CASE Conductors!CheckLogin(r)
  <2>1. UNCHANGED <<db, hist>>
    BY <1>6 DEF Conductors!CheckLogin
  <2>2. CASE Conductors!MayHaveLogin(r)
    <3> DEFINE phase == IF r.kind = "login" THEN "read" ELSE "checked"
    <3> DEFINE q == [r EXCEPT !.row = db[r.id], !.phase = phase]
    <3>1. Conductors!Replace(r, q)
      BY <1>6, <2>2 DEF Conductors!CheckLogin
    <3>2. ASSUME r.kind = "login", r.phase = "sent"
          PROVE  q \in Conductors!Requests /\ Conductors!Scoped(q)
      <4>1. r \in Conductors!LoginsIn("sent", {None}) /\ db[r.id] \in Conductors!Row
        BY <1>0, <3>2, CollectorKindsOf DEF Conductors!TypeOK
      <4>2. q \in Conductors!LoginsIn("read", Conductors!Row) /\ q.kind = "login" /\ q.row = db[r.id]
        BY <3>2, <4>1 DEF Conductors!LoginsIn
      <4> QED
        BY <2>2, <4>2 DEF Conductors!Requests, Conductors!Logins, Conductors!Scoped, Conductors!MayHaveLogin
    <3>3. ASSUME r.kind = "create", r.phase = "asked"
          PROVE  q \in Conductors!Requests /\ Conductors!Scoped(q)
      <4>1. r \in Conductors!EnrolmentsIn({"created", "asked", "ok"}, Collectors, {None})
        BY <1>0, <3>3, CollectorKindsOf
      <4>2. r.id \in Collectors /\ db[r.id] \in Conductors!Row
        BY <4>1 DEF Conductors!EnrolmentsIn, Conductors!TypeOK
      <4>3. q \in Conductors!EnrolmentsIn({"checked", "ok"}, Collectors, Conductors!Row) /\ q.kind = "create"
                /\ q.phase = "checked"
        BY <3>3, <4>1, <4>2 DEF Conductors!EnrolmentsIn
      <4> QED
        BY <4>3 DEF Conductors!Requests, Conductors!Enrolments, Conductors!Scoped
    <3> HIDE DEF q
    <3>4. q \in Conductors!Requests /\ Conductors!Scoped(q)
      BY <1>6, <3>2, <3>3 DEF Conductors!CheckLogin
    <3> QED
      BY <1>0, <2>1, <3>1, <3>4, CollectorReplaceType, CollectorWireType DEF Conductors!TypeOK
  <2>3. CASE ~Conductors!MayHaveLogin(r)
    BY <1>2, <1>6, <2>1, <2>3 DEF Conductors!CheckLogin
  <2> QED
    BY <2>2, <2>3
<1>7. CASE Conductors!GrantLogin(r)
  <2>1. Conductors!Reply(r, "ok") \/ Conductors!Reply(r, "error")
    BY <1>7 DEF Conductors!GrantLogin
  <2>2. CASE db' = db /\ hist' = hist
    BY <1>2, <2>1, <2>2
  <2>3. CASE ~(db' = db /\ hist' = hist)
    <3>1. /\ r.id \in Collectors /\ r.phone \in Phones
          /\ DOMAIN db' = Collectors \cup {"users"}
          /\ db'["users"] = [Conductors!Users EXCEPT ![r.phone] = [Conductors!Users[r.phone] EXCEPT !.owner = r.id]]
          /\ db'[r.id] = [db[r.id] EXCEPT !.login = IF db[r.id].state = "active" THEN r.phone ELSE @]
          /\ \A d \in Collectors : d # r.id => db'[d] = db[d]
          /\ hist' = [hist EXCEPT !.stale = @ \cup Conductors!StaleIds(r)]
      BY <1>7, <2>3, CollectorGrantStep
    <3>2. [Conductors!Users[r.phone] EXCEPT !.owner = r.id] \in [owner: Collectors \cup {None},
              partner: Partners \cup {None}]
      BY <3>1 DEF Conductors!TypeOK
    <3>3. db'["users"] \in CollectorUserTable
      BY <3>1, <3>2 DEF Conductors!TypeOK, CollectorUserTable
    <3>4. db[r.id] \in Conductors!Row /\ db'[r.id] \in Conductors!Row
      BY <3>1 DEF Conductors!TypeOK, Conductors!Row
    <3>5. CollectorDbType'
      BY <3>1, <3>3, <3>4 DEF Conductors!TypeOK, CollectorDbType, Conductors!Users
    <3>6. Conductors!StaleIds(r) \subseteq Collectors
      BY <3>1 DEF Conductors!StaleIds
    <3>7. hist' \in Conductors!Hists
      BY <3>1, <3>6 DEF Conductors!TypeOK, Conductors!Hists
    <3> QED
      BY <1>1, <2>1, <3>5, <3>7
  <2> QED
    BY <2>2, <2>3
<1>8. CASE Conductors!ServeLink(r) \/ Conductors!ServeUnlink(r)
  <2>1. hist' = hist /\ hist \in Conductors!Hists
    BY <1>8 DEF Conductors!ServeLink, Conductors!ServeUnlink, Conductors!TypeOK
  <2>2. r.id \in Collectors /\ db[r.id] \in Conductors!Row /\ (r.kind = "link" => r.partner \in Partners)
    BY <1>0, <1>8, CollectorKindsOf DEF Conductors!ServeLink, Conductors!ServeUnlink, Conductors!Links,
       Conductors!TypeOK
  <2>3. CASE UNCHANGED db /\ Conductors!Reply(r, "error")
    BY <1>2, <2>1, <2>3
  <2>4. ASSUME NEW p \in Phones, NEW y \in Partners \cup {None}, db' = [db EXCEPT !["users"][p].partner = y],
                   Conductors!Reply(r, "ok")
        PROVE  Conductors!TypeOK'
    <3>1. [Conductors!Users[p] EXCEPT !.partner = y] \in [owner: Collectors \cup {None},
              partner: Partners \cup {None}]
      BY DEF Conductors!TypeOK
    <3> DEFINE user == [Conductors!Users[p] EXCEPT !.partner = y]
    <3>2. db' = [db EXCEPT !["users"] = [Conductors!Users EXCEPT ![p] = user]]
      BY <2>4 DEF Conductors!Users, Conductors!TypeOK
    <3>3. user \in [owner: Collectors \cup {None}, partner: Partners \cup {None}]
      BY <3>1
    <3> HIDE DEF user
    <3>4. CollectorDbType'
      BY <3>2, <3>3, CollectorUserWritten
    <3> QED
      BY <1>1, <2>1, <2>4, <3>4
  <2>5. db[r.id].login \in Phones \cup {None}
    BY <2>2 DEF Conductors!Row
  <2>6. CASE Conductors!ServeLink(r)
    BY <2>2, <2>3, <2>4, <2>5, <2>6 DEF Conductors!ServeLink
  <2>7. CASE Conductors!ServeUnlink(r)
    BY <2>2, <2>3, <2>4, <2>5, <2>7 DEF Conductors!ServeUnlink
  <2> QED
    BY <1>8, <2>6, <2>7
<1> QED
  BY <1>3, <1>4, <1>5, <1>6, <1>7, <1>8

\* The page hears of it.
LEMMA CollectorHearingTypes ==
  ASSUME Conductors!TypeOK, Conductors!StaffAssumption, \E r \in wire : Conductors!Succeed(r) \/ Conductors!Fail(r)
  PROVE  Conductors!TypeOK'
<1>1. ASSUME NEW r \in wire, Conductors!Succeed(r)
      PROVE  Conductors!TypeOK'
  <2>1. r.kind = "delete" => r.id \in Collectors
    BY CollectorKindsOf DEF Conductors!TypeOK
  <2>2. form' \in Conductors!Forms
    BY <1>1, CollectorClearedType DEF Conductors!Succeed, Conductors!TypeOK
  <2>3. hist' \in Conductors!Hists
    BY <1>1, <2>1 DEF Conductors!Succeed, Conductors!TypeOK, Conductors!Hists
  <2>4. dialog' = None \/ dialog' = dialog
    BY <1>1 DEF Conductors!Succeed
  <2>5. wire' \subseteq wire /\ due' \subseteq {"list"} /\ UNCHANGED <<db, shown>>
    BY <1>1 DEF Conductors!Succeed, Conductors!Settle, Conductors!Invalidate, Conductors!TypeOK,
       Conductors!WellTyped
  <2>6. Conductors!Rows' = Conductors!Rows /\ Conductors!Users' = Conductors!Users
            /\ \A q : Conductors!Scoped(q)' <=> Conductors!Scoped(q)
    BY <2>5 DEF Conductors!Rows, Conductors!Users, Conductors!Scoped
  <2> QED
    BY <2>2, <2>3, <2>4, <2>5, <2>6 DEF Conductors!TypeOK, Conductors!WellTyped
<1>2. ASSUME NEW r \in wire, Conductors!Fail(r)
      PROVE  Conductors!TypeOK'
  <2>1. wire' \subseteq wire /\ UNCHANGED <<db, shown, due, dialog, form, hist>>
    BY <1>2 DEF Conductors!Fail, Conductors!Settle
  <2>2. wire' \subseteq Conductors!Requests /\ \A q \in wire' : Conductors!Scoped(q)
    BY <2>1 DEF Conductors!TypeOK, Conductors!WellTyped
  <2> QED
    BY <2>1, <2>2, CollectorWireType DEF Conductors!TypeOK
<1> QED
  BY <1>1, <1>2

LEMMA CollectorNextType ==
  ASSUME Conductors!TypeOK, Conductors!CollectorAssumption, [Conductors!Next]_deskVars
  PROVE  Conductors!TypeOK'
<1>1. CASE UNCHANGED deskVars
  BY <1>1 DEF deskVars, Conductors!TypeOK, Conductors!WellTyped, Conductors!Rows, Conductors!Users,
     Conductors!Scoped
<1>2. CASE Conductors!Next
  BY <1>2, CollectorBrowsingTypes, CollectorFormTypes, CollectorSendingTypes, CollectorEnrolmentTypes,
     CollectorServerTypes, CollectorHearingTypes DEF Conductors!Next, Conductors!CollectorAssumption
<1> QED
  BY <1>1, <1>2
\* ---- what the steps do ------------------------------------------------------------------

\* The steps that leave the rows and the list on the page alone.
CollectorPageStep ==
    \/ Conductors!BrowseCollectors \/ Conductors!OpenWizard \/ Conductors!CloseDialog \/ Conductors!GiveUp
    \/ Conductors!BackToCollectorPicker \/ Conductors!TypeIntoCollector \/ Conductors!PickCollectorPhoto
           \/ Conductors!UpdateCollector
    \/ Conductors!FillCollectorStep \/ Conductors!NextCollectorStep \/ Conductors!ConfirmRemoval
    \/ Conductors!SubmitCollector \/ Conductors!SubmitLogin \/ Conductors!SubmitLink
    \/ \E d \in DOMAIN Conductors!Rows : Conductors!RowButtons(d) \/ Conductors!Unlink(d)
    \/ \E s \in CollectorSections : Conductors!ChooseCollectorSection(s)
    \/ \E i \in 0..Conductors!LastStep : Conductors!GoToCollectorStep(i)
    \/ \E d \in Collectors : Conductors!PhotoChecked(d)
    \/ \E r \in wire : Conductors!Fail(r)

\* The steps of the server.
CollectorServerStep(r) ==
    \/ Conductors!ReadForUpdate(r) \/ Conductors!SaveCollector(r) \/ Conductors!ServeEnrolment(r)
           \/ Conductors!RemoveCollector(r)
    \/ Conductors!AskForLogin(r) \/ Conductors!CheckLogin(r) \/ Conductors!GrantLogin(r)
           \/ Conductors!LoginTimesOut(r)
    \/ Conductors!ServeLink(r) \/ Conductors!ServeUnlink(r)

\* A request as the page sends it: an update has what the form holds.
CollectorSentNow(q) ==
    /\ q.phase = "sent"
    /\ q.kind = "update" => Conductors!DialogIs("edit") /\ q.id = dialog.id /\ q.photo = form.file

\* One request holds what the other does.
CollectorAlike(q, p) ==
    /\ q.kind = p.kind /\ q.phase = p.phase /\ q.id = p.id
    /\ q.kind = "update" => q.photo = p.photo
    /\ q.phase = "read" \/ Conductors!Granting(q) => q.row = p.row

LEMMA CollectorSendStep ==
  ASSUME Conductors!TypeOK, Conductors!StaffAssumption, CollectorPageStep
  PROVE  /\ UNCHANGED <<db, shown>> /\ due \subseteq due'
         /\ hist'.removed = hist.removed /\ hist'.stale = hist.stale
         /\ \A q \in wire' : q \in wire \/ CollectorSentNow(q) \/ \E p \in wire : CollectorAlike(q, p)
<1> DEFINE Goal == /\ UNCHANGED <<db, shown>> /\ due \subseteq due'
                   /\ hist'.removed = hist.removed /\ hist'.stale = hist.stale
                   /\ \A q \in wire' : q \in wire \/ CollectorSentNow(q) \/ \E p \in wire : CollectorAlike(q, p)
<1> SUFFICES Goal
  OBVIOUS
<1>0. hist \in Conductors!Hists
  BY DEF Conductors!TypeOK
<1>1. ASSUME wire' = wire, UNCHANGED <<db, shown>>, due \subseteq due', hist' = hist
      PROVE  Goal
  BY <1>0, <1>1
<1>2. CASE Conductors!TypeIntoCollector \/ Conductors!PickCollectorPhoto
  BY <1>0, <1>2 DEF Conductors!TypeIntoCollector, Conductors!TypeText, Conductors!PickCollectorPhoto,
     Conductors!PickPhoto, Conductors!Hists
<1>3. ASSUME NEW d, Conductors!Open(d)
      PROVE  Goal
  BY <1>0, <1>3 DEF Conductors!Open, Conductors!Hists
<1>4. ASSUME NEW r, CollectorSentNow(r), Conductors!Send(r), UNCHANGED <<db, shown, due>>
      PROVE  Goal
  BY <1>0, <1>4 DEF Conductors!Send, Conductors!Hists
<1>5. CASE Conductors!BrowseCollectors
  BY <1>1, <1>5 DEF Conductors!BrowseCollectors, Conductors!Browse, Conductors!Ask
<1>6. CASE Conductors!CloseDialog \/ Conductors!BackToCollectorPicker \/ Conductors!FillCollectorStep
               \/ Conductors!NextCollectorStep
           \/ (\E s \in CollectorSections : Conductors!ChooseCollectorSection(s))
                  \/ \E i \in 0..Conductors!LastStep : Conductors!GoToCollectorStep(i)
  BY <1>1, <1>6 DEF Conductors!CloseDialog, Conductors!BackToCollectorPicker, Conductors!BackToPicker,
     Conductors!FillCollectorStep, Conductors!FillStep,
     Conductors!NextCollectorStep, Conductors!HandleNext, Conductors!ChooseCollectorSection,
         Conductors!ChooseEditSection, Conductors!GoToCollectorStep, Conductors!GoToStep
<1>7. CASE Conductors!OpenWizard \/ \E d \in DOMAIN Conductors!Rows : Conductors!RowButtons(d)
  BY <1>3, <1>7 DEF Conductors!OpenWizard, Conductors!RowButtons, Conductors!OpenEditPicker, Conductors!OpenRemoval
<1>8. ASSUME NEW d \in Collectors, Conductors!PhotoChecked(d)
      PROVE  Goal
  <2>1. hist'.removed = hist.removed /\ hist'.stale = hist.stale
    BY <1>0, <1>8 DEF Conductors!PhotoChecked, Conductors!Hists
  <2> QED
    BY <1>0, <1>8, <2>1 DEF Conductors!PhotoChecked
<1>9. CASE Conductors!ConfirmRemoval
  <2>1. PICK r : r = [kind |-> "delete", who |-> "desk", id |-> dialog.id, phase |-> "sent"]
    OBVIOUS
  <2>2. CollectorSentNow(r)
    BY <2>1 DEF CollectorSentNow
  <2>3. Conductors!Send(r) /\ UNCHANGED <<db, shown, due>>
    BY <1>9, <2>1 DEF Conductors!ConfirmRemoval, Conductors!SubmitRemoval
  <2> HIDE DEF Goal
  <2> QED
    BY <1>4, <2>2, <2>3
<1>10. CASE Conductors!UpdateCollector
  <2>1. PICK r : r = [kind |-> "update", who |-> "desk", id |-> dialog.id, phase |-> "sent",
                      section |-> dialog.section, payload |-> [s \in {dialog.section} |-> dialog.text[s]],
                      photo |-> form.file, row |-> None]
    OBVIOUS
  <2>2. Conductors!DialogIs("edit")
    BY <1>10 DEF Conductors!UpdateCollector, Conductors!HandleUpdate
  <2>3. CollectorSentNow(r)
    BY <2>1, <2>2 DEF CollectorSentNow
  <2>4. Conductors!Send(r) /\ UNCHANGED <<db, shown, due>>
    BY <1>10, <2>1 DEF Conductors!UpdateCollector, Conductors!HandleUpdate
  <2> HIDE DEF Goal
  <2> QED
    BY <1>4, <2>3, <2>4
<1>11. CASE Conductors!SubmitCollector
  <2>1. PICK password \in BOOLEAN, p \in Phones, copy \in Conductors!FreshCopies :
            Conductors!SubmitWizard([kind |-> "create", who |-> "desk", id |-> None, copy |-> copy, field |-> None,
                          password |-> password, phone |-> p, row |-> None, phase |-> "sent"])
    BY <1>11 DEF Conductors!SubmitCollector, Conductors!PasswordTyped
  <2>2. PICK r : r = [kind |-> "create", who |-> "desk", id |-> None, copy |-> copy, field |-> None,
                      password |-> password, phone |-> p, row |-> None, phase |-> "sent"]
    OBVIOUS
  <2>3. CollectorSentNow(r) /\ Conductors!Send(r)
    BY <2>1, <2>2 DEF CollectorSentNow, Conductors!SubmitWizard, Conductors!Send
  <2>4. UNCHANGED <<db, shown, due>>
    BY <1>11 DEF Conductors!SubmitCollector
  <2> HIDE DEF Goal
  <2> QED
    BY <1>4, <2>3, <2>4
<1>12. CASE Conductors!SubmitLogin
  <2>1. PICK p \in Phones :
            Conductors!Send([kind |-> "login", who |-> "desk", id |-> dialog.id, phone |-> p, row |-> None,
                phase |-> "sent"])
    BY <1>12 DEF Conductors!SubmitLogin
  <2>2. PICK r : r = [kind |-> "login", who |-> "desk", id |-> dialog.id, phone |-> p, row |-> None,
            phase |-> "sent"]
    OBVIOUS
  <2>3. CollectorSentNow(r) /\ Conductors!Send(r)
    BY <2>1, <2>2 DEF CollectorSentNow
  <2>4. UNCHANGED <<db, shown, due>>
    BY <1>12 DEF Conductors!SubmitLogin
  <2> HIDE DEF Goal
  <2> QED
    BY <1>4, <2>3, <2>4
<1>13. CASE Conductors!SubmitLink
  <2>1. PICK y \in Partners :
            Conductors!Send([kind |-> "link", who |-> "desk", id |-> dialog.id, partner |-> y, phase |-> "sent"])
    BY <1>13 DEF Conductors!SubmitLink
  <2>2. PICK r : r = [kind |-> "link", who |-> "desk", id |-> dialog.id, partner |-> y, phase |-> "sent"]
    OBVIOUS
  <2>3. CollectorSentNow(r) /\ Conductors!Send(r)
    BY <2>1, <2>2 DEF CollectorSentNow
  <2>4. UNCHANGED <<db, shown, due>>
    BY <1>13 DEF Conductors!SubmitLink
  <2> HIDE DEF Goal
  <2> QED
    BY <1>4, <2>3, <2>4
<1>14. ASSUME NEW d \in DOMAIN Conductors!Rows, Conductors!Unlink(d)
       PROVE  Goal
  <2>1. PICK r : r = [kind |-> "unlink", who |-> "desk", id |-> d, phase |-> "sent"]
    OBVIOUS
  <2>2. CollectorSentNow(r)
    BY <2>1 DEF CollectorSentNow
  <2>3. Conductors!Send(r) /\ UNCHANGED <<db, shown, due>>
    BY <1>14, <2>1 DEF Conductors!Unlink
  <2> HIDE DEF Goal
  <2> QED
    BY <1>4, <2>2, <2>3
<1>15. CASE Conductors!GiveUp
  <2>1. PICK r \in wire : /\ r.phase \in {"sent", "read"}
                          /\ wire' = wire \ {r} \/ wire' = (wire \ {r}) \cup {[r EXCEPT !.who = "gone"]}
                          /\ UNCHANGED <<db, shown, due, dialog, form, hist>>
    BY <1>15 DEF Conductors!GiveUp, Conductors!Replace
  <2>2. r \in Conductors!Requests
    BY DEF Conductors!TypeOK
  <2>3. CollectorAlike([r EXCEPT !.who = "gone"], r)
    <3>1. CASE r.kind = "create"
      BY <2>1, <2>2, <3>1, CollectorKindsOf DEF CollectorAlike, Conductors!EnrolmentsIn, Conductors!Granting
    <3>2. CASE r.kind = "update"
      BY <2>1, <2>2, <3>2, CollectorKindsOf DEF CollectorAlike, Conductors!UpdatesIn, Conductors!Granting
    <3>3. CASE r.kind = "login"
      BY <2>1, <2>2, <3>3, CollectorKindsOf DEF CollectorAlike, Conductors!LoginsIn, Conductors!Granting
    <3>4. CASE r.kind \in {"delete", "link", "unlink"}
      BY <2>1, <2>2, <3>4, CollectorKindsOf DEF CollectorAlike, Conductors!Deletes, Conductors!Links,
         Conductors!Unlinks, Conductors!Granting
    <3> QED
      BY <2>1, <2>2, <3>1, <3>2, <3>3, <3>4, CollectorKindsOf
  <2> QED
    BY <1>0, <2>1, <2>3
<1>16. ASSUME NEW r \in wire, Conductors!Fail(r)
       PROVE  Goal
  BY <1>0, <1>16 DEF Conductors!Fail, Conductors!Settle
<1> HIDE DEF Goal
<1> QED
  BY <1>2, <1>5, <1>6, <1>7, <1>8, <1>9, <1>10, <1>11, <1>12, <1>13, <1>14, <1>15, <1>16 DEF CollectorPageStep

\* What an answer says.
LEMMA CollectorToldIs ==
  ASSUME NEW r, NEW phase
  PROVE  Conductors!Told(r, phase).kind = r.kind /\ Conductors!Told(r, phase).phase = phase
             /\ Conductors!Told(r, phase).id = r.id
BY DEF Conductors!Told

\* A request that has read its row: as it is, and with no login if it is to get one.
CollectorReadNow(q, r) ==
    /\ q.kind = r.kind /\ q.phase \in {"read", "checked"} /\ q.id = r.id /\ q.row = db[r.id]
           /\ q.row.state = "active"
    /\ r.kind \in {"update", "login"} => r.id \in Collectors
    /\ q.kind = "update" => q.photo = r.photo /\ r.phase = "sent"
    /\ Conductors!Granting(q) => q.row.login = None

\* What the server leaves of a request: its answer, what it has read, or a
\* step of an enrolment that holds no row.
LEMMA CollectorServedStep ==
  ASSUME Conductors!TypeOK, Conductors!CollectorAssumption, NEW r \in wire, CollectorServerStep(r)
  PROVE  /\ UNCHANGED <<shown, due, dialog, form>>
         /\ r.kind = "delete" => (db'[r.id].state = "gone"
                \/ wire' \subseteq wire \cup {Conductors!Told(r, "error")})
         /\ \A q \in wire' : \/ q \in wire \/ q = Conductors!Told(r, "ok") \/ q = Conductors!Told(r, "error")
                             \/ CollectorReadNow(q, r) \/ CollectorAlike(q, r)
                             \/ (q.kind = "create" /\ q.phase \in {"created", "asked", "ok"})
<1>0. r \in Conductors!Requests /\ Conductors!Scoped(r)
  BY DEF Conductors!TypeOK, Conductors!WellTyped
<1>f. UNCHANGED <<shown, due, dialog, form>>
  BY DEF CollectorServerStep, Conductors!ReadForUpdate, Conductors!Read, Conductors!SaveCollector,
     Conductors!SaveUpdate, Conductors!ServeEnrolment, Conductors!RemoveCollector, Conductors!ServeRemoval,
     Conductors!AskForLogin, Conductors!CheckLogin, Conductors!GrantLogin, Conductors!LoginTimesOut,
         Conductors!ServeLink, Conductors!ServeUnlink
<1>1. ASSUME NEW phase, Conductors!Reply(r, phase)
      PROVE  \A q \in wire' : q \in wire \/ q = Conductors!Told(r, phase)
  BY <1>1 DEF Conductors!Reply
<1>2. CASE Conductors!ReadForUpdate(r)
  <2>1. r.kind = "update" /\ r.phase = "sent" /\ r \in Conductors!UpdatesIn("sent", {None})
    BY <1>0, <1>2, CollectorKindsOf DEF Conductors!ReadForUpdate, Conductors!Read
  <2>2. CASE db[r.id].state = "active"
    <3>1. CollectorReadNow([r EXCEPT !.phase = "read", !.row = db[r.id]], r)
      BY <2>1, <2>2 DEF Conductors!UpdatesIn, CollectorReadNow, Conductors!Granting
    <3> QED
      BY <1>2, <1>f, <2>1, <2>2, <3>1 DEF Conductors!ReadForUpdate, Conductors!Read, Conductors!Replace
  <2>3. CASE db[r.id].state # "active"
    BY <1>1, <1>2, <1>f, <2>1, <2>3 DEF Conductors!ReadForUpdate, Conductors!Read
  <2> QED
    BY <2>2, <2>3
<1>3. CASE Conductors!SaveCollector(r) \/ Conductors!GrantLogin(r) \/ Conductors!ServeLink(r)
               \/ Conductors!ServeUnlink(r)
  <2>1. r.kind # "delete" /\ (Conductors!Reply(r, "ok") \/ Conductors!Reply(r, "error"))
    BY <1>3 DEF Conductors!SaveCollector, Conductors!SaveUpdate, Conductors!GrantLogin, Conductors!Granting,
       Conductors!ServeLink, Conductors!ServeUnlink
  <2> QED
    BY <1>1, <1>f, <2>1
<1>4. CASE Conductors!RemoveCollector(r)
  <2>1. r.id \in Collectors /\ db[r.id] \in Conductors!Row
    BY <1>0, <1>4, CollectorKindsOf DEF Conductors!RemoveCollector, Conductors!ServeRemoval, Conductors!TypeOK
  <2>2. CASE db' = [db EXCEPT ![r.id] = [db[r.id] EXCEPT !.state = "gone"]] /\ Conductors!Reply(r, "ok")
    <3>1. db'[r.id].state = "gone"
      BY <2>1, <2>2 DEF Conductors!Row, Conductors!TypeOK
    <3> QED
      BY <1>1, <1>f, <2>2, <3>1
  <2>3. CASE Conductors!Reply(r, "error")
    <3>1. \A q \in wire' : q \in wire \/ q = Conductors!Told(r, "error")
      BY <1>1, <2>3
    <3> QED
      BY <1>f, <3>1
  <2> QED
    BY <1>4, <2>2, <2>3 DEF Conductors!RemoveCollector, Conductors!ServeRemoval
<1>5. CASE Conductors!ServeEnrolment(r)
  <2>1. r.kind = "create" /\ r \in Conductors!EnrolmentsIn({"sent"}, {None}, {None})
    BY <1>0, <1>5, CollectorKindsOf DEF Conductors!ServeEnrolment
  <2>2. PICK d : \A q \in wire' : \/ q \in wire \/ q = [r EXCEPT !.id = d, !.phase = "created"]
                                  \/ q = Conductors!Told(r, "ok") \/ q = Conductors!Told(r, "error")
    BY <1>1, <1>5 DEF Conductors!ServeEnrolment, Conductors!Replace
  <2>3. [r EXCEPT !.id = d, !.phase = "created"].kind = "create"
            /\ [r EXCEPT !.id = d, !.phase = "created"].phase = "created"
    BY <2>1 DEF Conductors!EnrolmentsIn
  <2> QED
    BY <1>f, <2>1, <2>2, <2>3
<1>6. CASE Conductors!AskForLogin(r)
  <2>1. r.kind = "create" /\ r \in Conductors!EnrolmentsIn({"created", "asked", "ok"}, Collectors, {None})
    BY <1>0, <1>6, CollectorKindsOf DEF Conductors!AskForLogin
  <2>2. PICK phase \in {"asked", "ok"} : wire' = (wire \ {r}) \cup {[r EXCEPT !.phase = phase]}
    BY <1>6 DEF Conductors!AskForLogin, Conductors!Replace
  <2>3. [r EXCEPT !.phase = phase].kind = "create" /\ [r EXCEPT !.phase = phase].phase = phase
    BY <2>1 DEF Conductors!EnrolmentsIn
  <2> QED
    BY <1>f, <2>1, <2>2, <2>3
<1>7. CASE Conductors!CheckLogin(r)
  <2>1. CASE Conductors!MayHaveLogin(r)
    <3> DEFINE phase == IF r.kind = "login" THEN "read" ELSE "checked"
    <3>1. CollectorReadNow([r EXCEPT !.row = db[r.id], !.phase = phase], r)
      <4>1. CASE r.kind = "login" /\ r.phase = "sent"
        <5>1. r \in Conductors!LoginsIn("sent", {None})
          BY <1>0, <4>1, CollectorKindsOf
        <5> QED
          BY <2>1, <4>1, <5>1 DEF Conductors!LoginsIn, CollectorReadNow, Conductors!MayHaveLogin
      <4>2. CASE r.kind = "create" /\ r.phase = "asked"
        <5>1. r \in Conductors!EnrolmentsIn({"created", "asked", "ok"}, Collectors, {None})
          BY <1>0, <4>2, CollectorKindsOf
        <5> QED
          BY <2>1, <4>2, <5>1 DEF Conductors!EnrolmentsIn, CollectorReadNow, Conductors!MayHaveLogin
      <4> QED
        BY <1>7, <4>1, <4>2 DEF Conductors!CheckLogin
    <3>2. wire' = (wire \ {r}) \cup {[r EXCEPT !.row = db[r.id], !.phase = phase]} /\ r.kind # "delete"
      BY <1>7, <2>1 DEF Conductors!CheckLogin, Conductors!Replace
    <3> HIDE DEF phase
    <3> QED
      BY <1>f, <3>1, <3>2
  <2>2. CASE ~Conductors!MayHaveLogin(r)
    <3>1. r.kind # "delete" /\ (Conductors!Reply(r, "ok") \/ Conductors!Reply(r, "error"))
      BY <1>7, <2>2 DEF Conductors!CheckLogin
    <3> QED
      BY <1>1, <1>f, <3>1
  <2> QED
    BY <2>1, <2>2
<1>8. CASE Conductors!LoginTimesOut(r)
  <2>1. r.kind = "create" /\ r.phase \in {"asked", "checked"}
    BY <1>8 DEF Conductors!LoginTimesOut
  <2>2. \A q \in wire' : q \in wire \/ q = [r EXCEPT !.phase = "ok"] \/ q = [r EXCEPT !.who = "gone"]
    BY <1>8 DEF Conductors!LoginTimesOut
  <2>3. /\ [r EXCEPT !.phase = "ok"].kind = "create" /\ [r EXCEPT !.phase = "ok"].phase = "ok"
        /\ CollectorAlike([r EXCEPT !.who = "gone"], r)
    <3>1. CASE r.phase = "asked"
      <4>1. r \in Conductors!EnrolmentsIn({"created", "asked", "ok"}, Collectors, {None})
        BY <1>0, <2>1, <3>1, CollectorKindsOf
      <4> QED
        BY <2>1, <3>1, <4>1 DEF Conductors!EnrolmentsIn, CollectorAlike, Conductors!Granting
    <3>2. CASE r.phase = "checked"
      <4>1. r \in Conductors!EnrolmentsIn({"checked", "ok"}, Collectors, Conductors!Row)
        BY <1>0, <2>1, <3>2, CollectorKindsOf
      <4> QED
        BY <2>1, <3>2, <4>1 DEF Conductors!EnrolmentsIn, CollectorAlike, Conductors!Granting
    <3> QED
      BY <2>1, <3>1, <3>2
  <2> QED
    BY <1>f, <2>1, <2>2, <2>3
<1> QED
  BY <1>2, <1>3, <1>4, <1>5, <1>6, <1>7, <1>8 DEF CollectorServerStep
\* What the server writes: a row it has read, or no text and no picture.
LEMMA CollectorWrites ==
  ASSUME Conductors!TypeOK, Conductors!CollectorAssumption, NEW r \in wire, CollectorServerStep(r)
  PROVE  /\ hist'.removed = hist.removed /\ hist'.strayed = hist.strayed /\ hist.stale \subseteq hist'.stale
         /\ \/ Conductors!SaveUpdate(r)
            \/ \A d \in Collectors : db'[d].text = db[d].text /\ db'[d].photo = db[d].photo
<1>0. hist \in Conductors!Hists /\ (\A d \in Collectors : db[d] \in Conductors!Row)
          /\ DOMAIN db = Collectors \cup {"users"} /\ "users" \notin Collectors
  BY DEF Conductors!TypeOK, Conductors!CollectorAssumption
<1>1. CASE Conductors!SaveCollector(r)
  <2>1. CASE Conductors!SaveUpdate(r)
    BY <1>0, <2>1 DEF Conductors!SaveUpdate, Conductors!Hists
  <2> QED
    BY <1>1, <2>1 DEF Conductors!SaveCollector
<1>2. CASE Conductors!GrantLogin(r)
  <2>1. r.id \in Collectors
    BY <1>2, CollectorGrantStep
  <2>2. \/ db' = db /\ hist' = hist
        \/ /\ db'[r.id] = [db[r.id] EXCEPT !.login = IF db[r.id].state = "active" THEN r.phone ELSE @]
           /\ \A d \in Collectors : d # r.id => db'[d] = db[d]
           /\ hist' = [hist EXCEPT !.stale = @ \cup Conductors!StaleIds(r)]
    BY <1>2, CollectorGrantStep
  <2>3. db[r.id] \in Conductors!Row
    BY <1>0, <2>1
  <2>4. \A d \in Collectors : db'[d].text = db[d].text /\ db'[d].photo = db[d].photo
    BY <2>2, <2>3 DEF Conductors!Row
  <2>5. hist'.removed = hist.removed /\ hist'.strayed = hist.strayed /\ hist.stale \subseteq hist'.stale
    BY <1>0, <2>2 DEF Conductors!Hists
  <2> QED
    BY <2>4, <2>5
<1>3. CASE Conductors!ReadForUpdate(r) \/ Conductors!AskForLogin(r) \/ Conductors!CheckLogin(r)
               \/ Conductors!LoginTimesOut(r)
  <2>1. db' = db /\ hist' = hist
    BY <1>3 DEF Conductors!ReadForUpdate, Conductors!Read, Conductors!AskForLogin, Conductors!CheckLogin,
       Conductors!LoginTimesOut
  <2> QED
    BY <2>1
<1>4. CASE Conductors!ServeEnrolment(r)
  <2>1. \/ db' = db
        \/ \E e \in Collectors : db' = [db EXCEPT ![e].state = "active", ![e].number = Conductors!NextNumber]
    BY <1>4 DEF Conductors!ServeEnrolment
  <2>2. ASSUME NEW e \in Collectors, db' = [db EXCEPT ![e].state = "active", ![e].number = Conductors!NextNumber],
                   NEW d \in Collectors
        PROVE  db'[d].text = db[d].text /\ db'[d].photo = db[d].photo
    BY <1>0, <2>2 DEF Conductors!Row
  <2>3. \A d \in Collectors : db'[d].text = db[d].text /\ db'[d].photo = db[d].photo
    BY <2>1, <2>2
  <2>4. hist' = hist
    BY <1>4 DEF Conductors!ServeEnrolment
  <2> QED
    BY <2>3, <2>4
<1>5. CASE Conductors!RemoveCollector(r)
  <2>1. \A d \in Collectors : db'[d].text = db[d].text /\ db'[d].photo = db[d].photo
    BY <1>0, <1>5 DEF Conductors!RemoveCollector, Conductors!ServeRemoval, Conductors!Row
  <2>2. hist' = hist
    BY <1>5 DEF Conductors!RemoveCollector, Conductors!ServeRemoval
  <2> QED
    BY <2>1, <2>2
<1>6. CASE Conductors!ServeLink(r) \/ Conductors!ServeUnlink(r)
  <2>1. \A d \in Collectors : db'[d] = db[d]
    BY <1>0, <1>6 DEF Conductors!ServeLink, Conductors!ServeUnlink
  <2>2. hist' = hist
    BY <1>6 DEF Conductors!ServeLink, Conductors!ServeUnlink
  <2> QED
    BY <2>1, <2>2
<1> QED
  BY <1>1, <1>2, <1>3, <1>4, <1>5, <1>6 DEF CollectorServerStep

\* A save over the row it has read leaves that row's login and life alone.
LEMMA CollectorSaveStep ==
  ASSUME Conductors!TypeOK, Conductors!CollectorAssumption, NEW r \in wire, Conductors!SaveUpdate(r)
  PROVE  /\ r.kind = "update" /\ r.phase = "read" /\ r.id \in Collectors /\ r.row \in Conductors!Row
                /\ r.row.state = "active"
         /\ r \notin wire' /\ db'[r.id] = Conductors!Patched(r)
         /\ (\A d \in Collectors : d # r.id => db'[d] = db[d]) /\ Conductors!Users' = Conductors!Users
         /\ Conductors!Patched(r).text = Conductors!Merge(r.row.text, r.payload)
                /\ Conductors!Patched(r).state = r.row.state
         /\ Conductors!Patched(r).login = r.row.login
         /\ Conductors!Patched(r).photo = IF r.photo = None THEN r.row.photo ELSE r.photo
         /\ hist'.stale = hist.stale \cup Conductors!StaleIds(r)
<1>1. r.kind = "update" /\ r.phase = "read" /\ r.id \in Collectors /\ r.row \in Conductors!Row
          /\ r.row.state = "active"
  BY CollectorKindsOf DEF Conductors!SaveUpdate, Conductors!TypeOK, Conductors!WellTyped, Conductors!Scoped
<1>2. r \notin wire'
  BY <1>1, CollectorToldIs DEF Conductors!SaveUpdate, Conductors!Reply
<1>3. db' = [db EXCEPT ![r.id] = Conductors!Patched(r)] /\ DOMAIN db = Collectors \cup {"users"}
          /\ "users" \notin Collectors
  BY DEF Conductors!SaveUpdate, Conductors!TypeOK, Conductors!CollectorAssumption
<1>4. db'[r.id] = Conductors!Patched(r) /\ (\A d \in Collectors : d # r.id => db'[d] = db[d])
          /\ Conductors!Users' = Conductors!Users
  BY <1>1, <1>3 DEF Conductors!Users
<1>5. /\ Conductors!Patched(r).text = Conductors!Merge(r.row.text, r.payload)
             /\ Conductors!Patched(r).state = r.row.state
      /\ Conductors!Patched(r).login = r.row.login
      /\ Conductors!Patched(r).photo = IF r.photo = None THEN r.row.photo ELSE r.photo
  BY <1>1 DEF Conductors!Patched, Conductors!Row
<1>6. hist'.stale = hist.stale \cup Conductors!StaleIds(r)
  BY DEF Conductors!SaveUpdate, Conductors!TypeOK, Conductors!Hists
<1> QED
  BY <1>1, <1>2, <1>4, <1>5, <1>6

\* ---- removals ---------------------------------------------------------------------------

\* What becomes of a row's life: a save over a stale row alone brings one back.
LEMMA CollectorLifeStep ==
  ASSUME Conductors!TypeOK, Conductors!CollectorAssumption, NEW r \in wire, CollectorServerStep(r),
             NEW d \in Collectors
  PROVE  \/ d \in hist'.stale \/ db'[d].state = db[d].state \/ db'[d].state = "gone"
         \/ (db[d].state = "none" /\ db'[d].login = db[d].login)
<1>0. db[d] \in Conductors!Row /\ DOMAIN db = Collectors \cup {"users"} /\ "users" \notin Collectors
  BY DEF Conductors!TypeOK, Conductors!CollectorAssumption
<1>1. CASE Conductors!SaveCollector(r)
  <2>1. CASE Conductors!SaveUpdate(r)
    BY <2>1, CollectorSaveStep DEF Conductors!StaleIds
  <2> QED
    BY <1>1, <2>1 DEF Conductors!SaveCollector
<1>2. CASE Conductors!GrantLogin(r)
  <2>1. r.id \in Collectors /\ db[r.id] \in Conductors!Row
    BY <1>2, CollectorGrantStep DEF Conductors!TypeOK
  <2>2. \/ db' = db
        \/ /\ db'[r.id] = [db[r.id] EXCEPT !.login = IF db[r.id].state = "active" THEN r.phone ELSE @]
           /\ \A e \in Collectors : e # r.id => db'[e] = db[e]
    BY <1>2, CollectorGrantStep
  <2>3. db'[d].state = db[d].state
    BY <2>1, <2>2 DEF Conductors!Row
  <2> QED
    BY <2>3
<1>3. CASE Conductors!ReadForUpdate(r) \/ Conductors!AskForLogin(r) \/ Conductors!CheckLogin(r)
               \/ Conductors!LoginTimesOut(r)
  BY <1>3 DEF Conductors!ReadForUpdate, Conductors!Read, Conductors!AskForLogin, Conductors!CheckLogin,
     Conductors!LoginTimesOut
<1>4. CASE Conductors!ServeEnrolment(r)
  <2>1. \/ db' = db
        \/ \E e \in Collectors : db[e].state = "none"
               /\ db' = [db EXCEPT ![e].state = "active", ![e].number = Conductors!NextNumber]
    BY <1>4 DEF Conductors!ServeEnrolment
  <2>2. ASSUME NEW e \in Collectors, db[e].state = "none",
                   db' = [db EXCEPT ![e].state = "active", ![e].number = Conductors!NextNumber]
        PROVE  db'[d].state = db[d].state \/ (db[d].state = "none" /\ db'[d].login = db[d].login)
    BY <1>0, <2>2 DEF Conductors!Row
  <2> QED
    BY <2>1, <2>2
<1>5. CASE Conductors!RemoveCollector(r)
  BY <1>0, <1>5 DEF Conductors!RemoveCollector, Conductors!ServeRemoval, Conductors!Row
<1>6. CASE Conductors!ServeLink(r) \/ Conductors!ServeUnlink(r)
  <2>1. db'[d] = db[d]
    BY <1>0, <1>6 DEF Conductors!ServeLink, Conductors!ServeUnlink
  <2> QED
    BY <2>1
<1> QED
  BY <1>1, <1>2, <1>3, <1>4, <1>5, <1>6 DEF CollectorServerStep

\* A step that keeps what is gone, and says so of the removals it answers.
LEMMA CollectorRemovedKept ==
  ASSUME Conductors!TypeOK, Conductors!RemovedInv, \A d \in Collectors : Conductors!GoneOrStale(d)
             => Conductors!GoneOrStale(d)',
         hist.stale \subseteq hist'.stale, hist'.removed = hist.removed, UNCHANGED shown, due \subseteq due',
         \A q \in wire' : \/ q \in wire \/ q.kind # "delete" \/ q.phase # "ok"
                          \/ Conductors!GoneOrStale(q.id)' \/ \E p \in wire : CollectorAlike(q, p)
  PROVE  Conductors!RemovedInv'
<1>1. \A d \in hist.removed : d \in Collectors
  BY DEF Conductors!TypeOK, Conductors!Hists
<1>2. \A p \in wire : p.kind = "delete" => p.id \in Collectors
  BY CollectorKindsOf DEF Conductors!TypeOK
<1>3. \A d \in hist'.removed : Conductors!GoneOrStale(d)'
  BY <1>1 DEF Conductors!RemovedInv
<1>4. ASSUME NEW q \in wire', q.kind = "delete", q.phase = "ok"
      PROVE  Conductors!GoneOrStale(q.id)'
  BY <1>2, <1>4 DEF Conductors!RemovedInv, CollectorAlike
<1>5. Conductors!RestingListKnowsRemoved'
  BY DEF Conductors!RemovedInv, Conductors!RestingListKnowsRemoved, Conductors!Rows
<1> QED
  BY <1>3, <1>4, <1>5 DEF Conductors!RemovedInv

LEMMA CollectorRemovedStep ==
  ASSUME Conductors!TypeOK, Conductors!CollectorAssumption, Conductors!RemovedInv, [Conductors!Next]_deskVars
  PROVE  Conductors!RemovedInv'
<1>0. Conductors!StaffAssumption
  BY DEF Conductors!CollectorAssumption
<1>1. CASE UNCHANGED deskVars
  BY <1>1 DEF deskVars, Conductors!RemovedInv, Conductors!GoneOrStale, Conductors!RestingListKnowsRemoved,
     Conductors!Rows
<1>2. CASE CollectorPageStep
  <2>1. \A d : Conductors!GoneOrStale(d)' <=> Conductors!GoneOrStale(d)
    BY <1>0, <1>2, CollectorSendStep DEF Conductors!GoneOrStale
  <2>2. \A q \in wire' : \/ q \in wire \/ q.kind # "delete" \/ q.phase # "ok"
                         \/ Conductors!GoneOrStale(q.id)' \/ \E p \in wire : CollectorAlike(q, p)
    BY <1>0, <1>2, CollectorSendStep DEF CollectorSentNow
  <2> QED
    BY <1>0, <1>2, <2>1, <2>2, CollectorSendStep, CollectorRemovedKept
<1>3. CASE Conductors!RefreshCollectors
  <2>1. DOMAIN Conductors!Rows' = Conductors!Active /\ UNCHANGED <<db, wire, hist>>
    BY <1>3 DEF Conductors!RefreshCollectors, Conductors!Arrive, Conductors!TypeOK, Conductors!Rows
  <2>2. \A d : Conductors!GoneOrStale(d)' <=> Conductors!GoneOrStale(d)
    BY <2>1 DEF Conductors!GoneOrStale
  <2>3. Conductors!RestingListKnowsRemoved'
    BY <2>1 DEF Conductors!RestingListKnowsRemoved, Conductors!Active, Conductors!RemovedInv, Conductors!GoneOrStale
  <2> QED
    BY <2>1, <2>2, <2>3 DEF Conductors!RemovedInv
<1>4. ASSUME NEW r \in wire, Conductors!Succeed(r)
      PROVE  Conductors!RemovedInv'
  <2>1. wire' \subseteq wire /\ due' # {} /\ UNCHANGED <<db, shown>>
    BY <1>4 DEF Conductors!Succeed, Conductors!Settle, Conductors!Invalidate
  <2>2. hist'.stale = hist.stale
    BY <1>4 DEF Conductors!Succeed, Conductors!TypeOK, Conductors!Hists
  <2>3. \A d \in hist'.removed : d \in hist.removed \/ (d = r.id /\ r.kind = "delete" /\ r.phase = "ok")
    BY <1>4 DEF Conductors!Succeed, Conductors!TypeOK, Conductors!Hists
  <2>4. \A d : Conductors!GoneOrStale(d)' <=> Conductors!GoneOrStale(d)
    BY <2>1, <2>2 DEF Conductors!GoneOrStale
  <2> QED
    BY <2>1, <2>3, <2>4 DEF Conductors!RemovedInv, Conductors!RestingListKnowsRemoved
<1>5. ASSUME NEW r \in wire, CollectorServerStep(r)
      PROVE  Conductors!RemovedInv'
  <2>1. \A d \in Collectors : Conductors!GoneOrStale(d) => Conductors!GoneOrStale(d)'
    BY <1>5, CollectorLifeStep, CollectorWrites DEF Conductors!GoneOrStale
  <2>2. /\ UNCHANGED <<shown, due>>
        /\ r.kind = "delete" => (db'[r.id].state = "gone"
               \/ wire' \subseteq wire \cup {Conductors!Told(r, "error")})
        /\ \A q \in wire' : \/ q \in wire \/ q = Conductors!Told(r, "ok") \/ q = Conductors!Told(r, "error")
                            \/ CollectorReadNow(q, r) \/ CollectorAlike(q, r)
                            \/ (q.kind = "create" /\ q.phase \in {"created", "asked", "ok"})
    BY <1>5, CollectorServedStep
  <2>3. hist'.removed = hist.removed /\ hist.stale \subseteq hist'.stale
    BY <1>5, CollectorWrites
  <2>4. \A q \in wire' : \/ q \in wire \/ q.kind # "delete" \/ q.phase # "ok"
                         \/ Conductors!GoneOrStale(q.id)' \/ \E p \in wire : CollectorAlike(q, p)
    BY <2>2, CollectorToldIs DEF Conductors!GoneOrStale, CollectorReadNow
  <2> QED
    BY <2>1, <2>2, <2>3, <2>4, CollectorRemovedKept
<1>6. CASE Conductors!Next
  BY <1>2, <1>3, <1>4, <1>5, <1>6 DEF Conductors!Next, CollectorPageStep, CollectorServerStep
<1> QED
  BY <1>1, <1>6
\* ---- pictures ---------------------------------------------------------------------------

\* What the form holds is of the record it edits.
LEMMA CollectorFormKept ==
  ASSUME Conductors!TypeOK, Conductors!PhotoInv, CollectorPageStep, ~hist'.strayed
  PROVE  ~hist.strayed /\ (Conductors!DialogIs("edit")' => Conductors!Own(form'.file, dialog'.id))
<1> DEFINE Goal == ~hist.strayed /\ (Conductors!DialogIs("edit")' => Conductors!Own(form'.file, dialog'.id))
<1> SUFFICES Goal
  OBVIOUS
<1>0. hist \in Conductors!Hists /\ form \in Conductors!Forms
  BY DEF Conductors!TypeOK
<1>1. ASSUME dialog' = dialog, form'.file = form.file, hist'.strayed = hist.strayed
      PROVE  Goal
  BY <1>1 DEF Conductors!PhotoInv, Conductors!DialogIs
<1>2. ASSUME ~Conductors!DialogIs("edit")', hist'.strayed = hist.strayed
      PROVE  Goal
  BY <1>2
<1>3. CASE Conductors!BrowseCollectors \/ Conductors!FillCollectorStep \/ Conductors!NextCollectorStep
               \/ Conductors!GiveUp
           \/ (\E i \in 0..Conductors!LastStep : Conductors!GoToCollectorStep(i))
                  \/ \E r \in wire : Conductors!Fail(r)
  <2>1. dialog' = dialog /\ form'.file = form.file /\ hist'.strayed = hist.strayed
    BY <1>0, <1>3 DEF Conductors!BrowseCollectors, Conductors!Browse, Conductors!Ask, Conductors!FillCollectorStep,
       Conductors!FillStep, Conductors!NextCollectorStep, Conductors!HandleNext, Conductors!GiveUp,
       Conductors!GoToCollectorStep, Conductors!GoToStep, Conductors!Fail, Conductors!Forms
  <2> QED
    BY <1>1, <2>1
<1>4. CASE Conductors!ConfirmRemoval \/ Conductors!UpdateCollector \/ Conductors!SubmitLogin
               \/ Conductors!SubmitLink \/ \E d \in DOMAIN Conductors!Rows : Conductors!Unlink(d)
  <2>1. dialog' = dialog /\ form' = form /\ \E r : Conductors!Send(r)
    BY <1>4 DEF Conductors!ConfirmRemoval, Conductors!SubmitRemoval, Conductors!UpdateCollector,
       Conductors!HandleUpdate, Conductors!SubmitLogin, Conductors!SubmitLink, Conductors!Unlink
  <2>2. hist'.strayed = hist.strayed
    BY <1>0, <2>1 DEF Conductors!Send, Conductors!Hists
  <2> QED
    BY <1>1, <2>1, <2>2
<1>5. CASE Conductors!PickCollectorPhoto
  <2>1. dialog' = dialog /\ form'.file = form.file /\ hist'.strayed = hist.strayed
    BY <1>0, <1>5 DEF Conductors!PickCollectorPhoto, Conductors!PickPhoto, Conductors!Forms, Conductors!Hists
  <2> QED
    BY <1>1, <2>1
<1>6. CASE Conductors!SubmitCollector
  <2>1. dialog' = dialog /\ form' = form /\ \E r : Conductors!SubmitWizard(r)
    BY <1>6 DEF Conductors!SubmitCollector
  <2>2. hist'.strayed = hist.strayed
    BY <1>0, <2>1 DEF Conductors!SubmitWizard, Conductors!Hists
  <2> QED
    BY <1>1, <2>1, <2>2
<1>8. CASE Conductors!TypeIntoCollector
  <2>1. dialog \in [kind: {"edit"}, id: Collectors, seen: Conductors!Listed, section: CollectorSections,
            text: Conductors!Texts] /\ dialog # None
    BY <1>8, CollectorDialogsBy DEF Conductors!TypeIntoCollector, Conductors!TypeText, Conductors!DialogIs,
       Conductors!TypeOK
  <2>2. dialog'.id = dialog.id /\ form' = form /\ hist'.strayed = hist.strayed
    BY <1>0, <1>8, <2>1 DEF Conductors!TypeIntoCollector, Conductors!TypeText, Conductors!Hists
  <2> QED
    BY <1>8, <2>2 DEF Conductors!PhotoInv, Conductors!TypeIntoCollector, Conductors!TypeText
<1>9. CASE Conductors!CloseDialog \/ Conductors!BackToCollectorPicker
  BY <1>2, <1>9 DEF Conductors!CloseDialog, Conductors!BackToCollectorPicker, Conductors!BackToPicker,
     Conductors!DialogIs
<1>10. ASSUME NEW d, Conductors!Open(d), d.kind # "edit"
       PROVE  Goal
  BY <1>0, <1>2, <1>10 DEF Conductors!Open, Conductors!DialogIs, Conductors!Hists
<1>11. CASE Conductors!OpenWizard \/ \E d \in DOMAIN Conductors!Rows : Conductors!RowButtons(d)
  BY <1>10, <1>11 DEF Conductors!OpenWizard, Conductors!RowButtons, Conductors!OpenEditPicker,
     Conductors!OpenRemoval
<1>12. ASSUME NEW s \in CollectorSections, Conductors!ChooseCollectorSection(s)
       PROVE  Goal
  BY <1>0, <1>12 DEF Conductors!ChooseCollectorSection, Conductors!ChooseEditSection, Conductors!Forms,
     Conductors!Own
<1>13. ASSUME NEW d \in Collectors, Conductors!PhotoChecked(d)
       PROVE  Goal
  <2>1. PICK b \in BOOLEAN : b = (~Conductors!DialogIs("edit") \/ dialog.id # d)
    OBVIOUS
  <2>2. hist' = [hist EXCEPT !.strayed = @ \/ b]
    BY <1>13, <2>1 DEF Conductors!PhotoChecked
  <2>3. ~hist.strayed /\ ~b
    BY <1>0, <2>2 DEF Conductors!Hists
  <2>4. form'.file \in {form.file, d} /\ dialog' = dialog
    BY <1>0, <1>13 DEF Conductors!PhotoChecked, Conductors!Forms
  <2> QED
    BY <2>1, <2>3, <2>4 DEF Conductors!PhotoInv, Conductors!Own, Conductors!DialogIs
<1> HIDE DEF Goal
<1> QED
  BY <1>3, <1>4, <1>5, <1>6, <1>8, <1>9, <1>11, <1>12, <1>13 DEF CollectorPageStep

\* The requests' part of the invariant, one by one.
CollectorOwnPhotos(q) ==
    /\ q.kind = "update" /\ q.phase \in {"sent", "read"} => Conductors!Own(q.photo, q.id)
    /\ q.kind = "update" /\ q.phase = "read" => Conductors!Own(q.row.photo, q.id)

LEMMA CollectorPhotoServed ==
  ASSUME Conductors!TypeOK, Conductors!CollectorAssumption, Conductors!PhotoInv, NEW r \in wire,
             CollectorServerStep(r)
  PROVE  Conductors!PhotoInv'
<1>0. hist'.strayed = hist.strayed
  BY CollectorWrites
<1>1. SUFFICES ASSUME ~hist.strayed PROVE Conductors!PhotoInv'
  BY <1>0 DEF Conductors!PhotoInv
<1>2. (\A q \in wire : CollectorOwnPhotos(q)) /\ \A d \in Collectors : Conductors!Own(db[d].photo, d)
  BY <1>1 DEF Conductors!PhotoInv, CollectorOwnPhotos
<1>3. /\ UNCHANGED <<dialog, form>>
      /\ \A q \in wire' : \/ q \in wire \/ q = Conductors!Told(r, "ok") \/ q = Conductors!Told(r, "error")
                          \/ CollectorReadNow(q, r) \/ CollectorAlike(q, r)
                          \/ (q.kind = "create" /\ q.phase \in {"created", "asked", "ok"})
  BY CollectorServedStep
<1>4. ASSUME NEW q, CollectorReadNow(q, r)
      PROVE  CollectorOwnPhotos(q)
  BY <1>2, <1>4 DEF CollectorOwnPhotos, CollectorReadNow
<1>5. \A q \in wire' : CollectorOwnPhotos(q)
  BY <1>2, <1>3, <1>4, CollectorToldIs DEF CollectorOwnPhotos, CollectorAlike
<1>6. \A d \in Collectors : Conductors!Own(db'[d].photo, d)
  <2>1. CASE Conductors!SaveUpdate(r)
    <3>1. /\ r.kind = "update" /\ r.phase = "read" /\ db'[r.id] = Conductors!Patched(r)
          /\ \A d \in Collectors : d # r.id => db'[d] = db[d]
          /\ Conductors!Patched(r).photo = IF r.photo = None THEN r.row.photo ELSE r.photo
      BY <2>1, CollectorSaveStep
    <3>2. Conductors!Own(r.photo, r.id) /\ Conductors!Own(r.row.photo, r.id)
      BY <1>2, <3>1 DEF CollectorOwnPhotos
    <3> QED
      BY <1>2, <3>1, <3>2
  <2>2. CASE ~Conductors!SaveUpdate(r)
    <3>1. \A d \in Collectors : db'[d].photo = db[d].photo
      BY <2>2, CollectorWrites
    <3> QED
      BY <1>2, <3>1
  <2> QED
    BY <2>1, <2>2
<1> QED
  BY <1>1, <1>2, <1>3, <1>5, <1>6 DEF Conductors!PhotoInv, CollectorOwnPhotos, Conductors!DialogIs

LEMMA CollectorPhotoStep ==
  ASSUME Conductors!TypeOK, Conductors!CollectorAssumption, Conductors!PhotoInv, [Conductors!Next]_deskVars
  PROVE  Conductors!PhotoInv'
<1>0. hist \in Conductors!Hists /\ form \in Conductors!Forms /\ Conductors!StaffAssumption
  BY DEF Conductors!TypeOK, Conductors!CollectorAssumption
<1>1. CASE UNCHANGED deskVars
  BY <1>1 DEF deskVars, Conductors!PhotoInv, Conductors!DialogIs
<1>2. CASE CollectorPageStep
  <2>1. CASE hist'.strayed
    BY <2>1 DEF Conductors!PhotoInv
  <2>2. CASE ~hist'.strayed
    <3>1. ~hist.strayed /\ (Conductors!DialogIs("edit")' => Conductors!Own(form'.file, dialog'.id))
      BY <1>2, <2>2, CollectorFormKept
    <3>2. db' = db /\ \A q \in wire' : q \in wire \/ CollectorSentNow(q) \/ \E p \in wire : CollectorAlike(q, p)
      BY <1>0, <1>2, CollectorSendStep
    <3>3. \A q \in wire : CollectorOwnPhotos(q)
      BY <3>1 DEF Conductors!PhotoInv, CollectorOwnPhotos
    <3>4. \A q : CollectorSentNow(q) => CollectorOwnPhotos(q)
      BY <3>1 DEF Conductors!PhotoInv, CollectorOwnPhotos, CollectorSentNow
    <3>5. \A q \in wire' : CollectorOwnPhotos(q)
      BY <3>2, <3>3, <3>4 DEF CollectorOwnPhotos, CollectorAlike
    <3> QED
      BY <3>1, <3>2, <3>5 DEF Conductors!PhotoInv, CollectorOwnPhotos
  <2> QED
    BY <2>1, <2>2
<1>3. CASE Conductors!RefreshCollectors
  BY <1>3 DEF Conductors!RefreshCollectors, Conductors!Arrive, Conductors!PhotoInv, Conductors!DialogIs
<1>4. ASSUME NEW r \in wire, Conductors!Succeed(r)
      PROVE  Conductors!PhotoInv'
  <2>1. hist'.strayed = hist.strayed /\ wire' \subseteq wire /\ db' = db
    BY <1>0, <1>4 DEF Conductors!Succeed, Conductors!Settle, Conductors!Hists
  <2>2. form'.file = form.file \/ form'.file = None
    BY <1>0, <1>4 DEF Conductors!Succeed, Conductors!ResetWizard, Conductors!Forms
  <2>3. dialog' = None \/ dialog' = dialog
    BY <1>4 DEF Conductors!Succeed
  <2> QED
    BY <2>1, <2>2, <2>3 DEF Conductors!PhotoInv, Conductors!DialogIs, Conductors!Own
<1>5. ASSUME NEW r \in wire, CollectorServerStep(r)
      PROVE  Conductors!PhotoInv'
  BY <1>5, CollectorPhotoServed
<1>6. CASE Conductors!Next
  BY <1>2, <1>3, <1>4, <1>5, <1>6 DEF Conductors!Next, CollectorPageStep, CollectorServerStep
<1> QED
  BY <1>1, <1>6
\* ---- accounts ---------------------------------------------------------------------------

\* A step that keeps every account's owner and, but for stale rows, the logins.
LEMMA CollectorOwnersKept ==
  ASSUME Conductors!TypeOK, Conductors!NoOrphanAccount,
             \A p \in Phones : Conductors!Users'[p].owner = Conductors!Users[p].owner,
         hist.stale \subseteq hist'.stale,
         \A d \in Collectors : \/ d \in hist'.stale
                               \/ db'[d].login = db[d].login /\ (db[d].state = "gone" => db'[d].state = "gone")
  PROVE  Conductors!NoOrphanAccount'
<1> SUFFICES ASSUME NEW p \in Phones, Conductors!Users[p].owner # None
             PROVE  LET d == Conductors!Users[p].owner
                    IN db'[d].login = p \/ db'[d].state = "gone" \/ d \in hist'.stale
  BY DEF Conductors!NoOrphanAccount
<1>1. Conductors!Users[p].owner \in Collectors
  BY DEF Conductors!TypeOK
<1> QED
  BY <1>1 DEF Conductors!NoOrphanAccount

\* An account is inserted for a row that has none, or that was written since.
LEMMA CollectorAccountGranted ==
  ASSUME Conductors!TypeOK, Conductors!CollectorAssumption, Conductors!AccountInv, NEW r \in wire,
             Conductors!GrantLogin(r)
  PROVE  Conductors!NoOrphanAccount'
<1>1. /\ r.id \in Collectors /\ r.phone \in Phones
      /\ \/ db' = db /\ hist' = hist
         \/ /\ db'["users"] = [Conductors!Users EXCEPT ![r.phone]
                   = [Conductors!Users[r.phone] EXCEPT !.owner = r.id]]
            /\ db'[r.id] = [db[r.id] EXCEPT !.login = IF db[r.id].state = "active" THEN r.phone ELSE @]
            /\ \A d \in Collectors : d # r.id => db'[d] = db[d]
            /\ hist' = [hist EXCEPT !.stale = @ \cup Conductors!StaleIds(r)]
  BY CollectorGrantStep
<1>2. CASE db' = db /\ hist' = hist
  BY <1>2 DEF Conductors!AccountInv, Conductors!NoOrphanAccount, Conductors!Users
<1>3. CASE /\ db'["users"] = [Conductors!Users EXCEPT ![r.phone]
                  = [Conductors!Users[r.phone] EXCEPT !.owner = r.id]]
           /\ db'[r.id] = [db[r.id] EXCEPT !.login = IF db[r.id].state = "active" THEN r.phone ELSE @]
           /\ \A d \in Collectors : d # r.id => db'[d] = db[d]
           /\ hist' = [hist EXCEPT !.stale = @ \cup Conductors!StaleIds(r)]
  <2>1. db[r.id] \in Conductors!Row /\ Conductors!Users \in [Phones -> [owner: Collectors \cup {None},
            partner: Partners \cup {None}]]
    BY <1>1 DEF Conductors!TypeOK
  <2>2. Conductors!Users'[r.phone].owner = r.id /\ \A p \in Phones : p # r.phone
            => Conductors!Users'[p] = Conductors!Users[p]
    BY <1>1, <1>3, <2>1 DEF Conductors!Users
  <2>3. db[r.id].state = "active" => db'[r.id].login = r.phone
    BY <1>3, <2>1 DEF Conductors!Row
  <2>4. hist'.stale = hist.stale \cup Conductors!StaleIds(r)
    BY <1>3 DEF Conductors!TypeOK, Conductors!Hists
  <2>5. r.row.login = None /\ r.row.state = "active"
    BY DEF Conductors!AccountInv, Conductors!GrantLogin
  <2>6. r.id \in hist'.stale \/ db[r.id] = r.row
    BY <2>4 DEF Conductors!StaleIds
  <2>7. ASSUME NEW p \in Phones, p # r.phone, Conductors!Users[p].owner # None
        PROVE  LET d == Conductors!Users[p].owner
               IN db'[d].login = p \/ db'[d].state = "gone" \/ d \in hist'.stale
    <3>1. Conductors!Users[p].owner \in Collectors
      BY <2>1, <2>7
    <3>2. \/ db[Conductors!Users[p].owner].login = p \/ db[Conductors!Users[p].owner].state = "gone"
          \/ Conductors!Users[p].owner \in hist.stale
      BY <2>7 DEF Conductors!AccountInv, Conductors!NoOrphanAccount
    <3>3. CASE Conductors!Users[p].owner = r.id
      <4>1. p # None
        BY DEF Conductors!CollectorAssumption
      <4> QED
        BY <2>4, <2>5, <2>6, <3>2, <3>3, <4>1
    <3>4. CASE Conductors!Users[p].owner # r.id
      BY <1>3, <2>4, <3>1, <3>2, <3>4
    <3> QED
      BY <3>3, <3>4
  <2>8. db'[r.id].login = r.phone \/ r.id \in hist'.stale
    BY <2>3, <2>5, <2>6
  <2> QED
    BY <2>2, <2>7, <2>8 DEF Conductors!NoOrphanAccount
<1> QED
  BY <1>1, <1>2, <1>3

\* The other steps of the server give no account another owner.
LEMMA CollectorOwnersServed ==
  ASSUME Conductors!TypeOK, Conductors!CollectorAssumption, NEW r \in wire, CollectorServerStep(r),
             ~Conductors!GrantLogin(r)
  PROVE  /\ \A p \in Phones : Conductors!Users'[p].owner = Conductors!Users[p].owner
         /\ \A d \in Collectors : \/ d \in hist'.stale
                                  \/ db'[d].login = db[d].login /\ (db[d].state = "gone" => db'[d].state = "gone")
<1>0. DOMAIN db = Collectors \cup {"users"} /\ "users" \notin Collectors
          /\ \A d \in Collectors : db[d] \in Conductors!Row
  BY DEF Conductors!TypeOK, Conductors!CollectorAssumption
<1>1. Conductors!Users \in [Phones -> [owner: Collectors \cup {None}, partner: Partners \cup {None}]]
  BY DEF Conductors!TypeOK
<1>2. ASSUME db' = db
      PROVE  /\ \A p \in Phones : Conductors!Users'[p].owner = Conductors!Users[p].owner
             /\ \A d \in Collectors : \/ d \in hist'.stale
                                      \/ db'[d].login = db[d].login
                                             /\ (db[d].state = "gone" => db'[d].state = "gone")
  BY <1>2 DEF Conductors!Users
<1>3. CASE Conductors!SaveCollector(r)
  <2>1. CASE Conductors!SaveUpdate(r)
    <3>1. /\ r.row.state = "active" /\ db'[r.id] = Conductors!Patched(r)
          /\ (\A d \in Collectors : d # r.id => db'[d] = db[d]) /\ Conductors!Users' = Conductors!Users
          /\ Conductors!Patched(r).login = r.row.login /\ hist'.stale = hist.stale \cup Conductors!StaleIds(r)
      BY <2>1, CollectorSaveStep
    <3>2. r.id \in hist'.stale \/ db[r.id] = r.row
      BY <3>1 DEF Conductors!StaleIds
    <3>3. ASSUME NEW d \in Collectors, d \notin hist'.stale
          PROVE  db'[d].login = db[d].login /\ (db[d].state = "gone" => db'[d].state = "gone")
      <4>1. CASE d = r.id
        <5>1. db[r.id] = r.row
          BY <3>2, <3>3, <4>1
        <5>2. db'[r.id].login = db[r.id].login /\ db[r.id].state = "active"
          BY <3>1, <5>1
        <5> QED
          BY <4>1, <5>2
      <4>2. CASE d # r.id
        BY <3>1, <4>2
      <4> QED
        BY <4>1, <4>2
    <3> QED
      BY <3>1, <3>3
  <2> QED
    BY <1>2, <1>3, <2>1 DEF Conductors!SaveCollector
<1>4. CASE Conductors!ReadForUpdate(r) \/ Conductors!AskForLogin(r) \/ Conductors!CheckLogin(r)
               \/ Conductors!LoginTimesOut(r)
  BY <1>2, <1>4 DEF Conductors!ReadForUpdate, Conductors!Read, Conductors!AskForLogin, Conductors!CheckLogin,
     Conductors!LoginTimesOut
<1>5. CASE Conductors!ServeEnrolment(r)
  <2>1. \/ db' = db
        \/ \E e \in Collectors : db[e].state = "none"
               /\ db' = [db EXCEPT ![e].state = "active", ![e].number = Conductors!NextNumber]
    BY <1>5 DEF Conductors!ServeEnrolment
  <2>2. ASSUME NEW e \in Collectors, db[e].state = "none",
                   db' = [db EXCEPT ![e].state = "active", ![e].number = Conductors!NextNumber]
        PROVE  Conductors!Users' = Conductors!Users /\ \A d \in Collectors : db'[d].login = db[d].login
                   /\ (db[d].state = "gone" => db'[d].state = "gone")
    BY <1>0, <2>2 DEF Conductors!Row, Conductors!Users
  <2> QED
    BY <1>2, <2>1, <2>2
<1>6. CASE Conductors!RemoveCollector(r)
  <2>1. r.id \in Collectors
    BY <1>6, CollectorKindsOf DEF Conductors!RemoveCollector, Conductors!ServeRemoval, Conductors!TypeOK
  <2>2. db' = db \/ db' = [db EXCEPT ![r.id] = [db[r.id] EXCEPT !.state = "gone"]]
    BY <1>6 DEF Conductors!RemoveCollector, Conductors!ServeRemoval
  <2>3. ASSUME db' = [db EXCEPT ![r.id] = [db[r.id] EXCEPT !.state = "gone"]]
        PROVE  Conductors!Users' = Conductors!Users /\ \A d \in Collectors : db'[d].login = db[d].login
                   /\ (db[d].state = "gone" => db'[d].state = "gone")
    BY <1>0, <2>1, <2>3 DEF Conductors!Row, Conductors!Users
  <2> QED
    BY <1>2, <2>2, <2>3
<1>7. CASE Conductors!ServeLink(r) \/ Conductors!ServeUnlink(r)
  <2>1. \/ db' = db
        \/ \E p, y : db' = [db EXCEPT !["users"][p].partner = y]
    BY <1>7 DEF Conductors!ServeLink, Conductors!ServeUnlink
  <2>2. ASSUME NEW p, NEW y, db' = [db EXCEPT !["users"][p].partner = y]
        PROVE  /\ \A d \in Collectors : db'[d] = db[d]
               /\ Conductors!Users' = [Conductors!Users EXCEPT ![p] = [Conductors!Users[p] EXCEPT !.partner = y]]
    BY <1>0, <2>2 DEF Conductors!Users
  <2>3. ASSUME NEW p, NEW y, Conductors!Users'
                   = [Conductors!Users EXCEPT ![p] = [Conductors!Users[p] EXCEPT !.partner = y]], NEW q \in Phones
        PROVE  Conductors!Users'[q].owner = Conductors!Users[q].owner
    BY <1>1, <2>3
  <2> QED
    BY <1>2, <2>1, <2>2, <2>3
<1> QED
  BY <1>3, <1>4, <1>5, <1>6, <1>7 DEF CollectorServerStep

LEMMA CollectorAccountStep ==
  ASSUME Conductors!TypeOK, Conductors!CollectorAssumption, Conductors!AccountInv, [Conductors!Next]_deskVars
  PROVE  Conductors!AccountInv'
<1>0. Conductors!StaffAssumption /\ Conductors!NoOrphanAccount /\ \A q \in wire : Conductors!Granting(q)
          => q.row.login = None /\ q.row.state = "active"
  BY DEF Conductors!CollectorAssumption, Conductors!AccountInv
<1>1. ASSUME UNCHANGED db, hist'.stale = hist.stale,
             \A q \in wire' : q \in wire \/ CollectorSentNow(q) \/ \E p \in wire : CollectorAlike(q, p)
      PROVE  Conductors!AccountInv'
  <2>1. Conductors!NoOrphanAccount'
    BY <1>0, <1>1 DEF Conductors!NoOrphanAccount, Conductors!Users
  <2>2. ASSUME NEW q \in wire', Conductors!Granting(q)
        PROVE  q.row.login = None /\ q.row.state = "active"
    BY <1>0, <1>1, <2>2 DEF Conductors!Granting, CollectorSentNow, CollectorAlike
  <2> QED
    BY <2>1, <2>2 DEF Conductors!AccountInv, Conductors!Granting
<1>2. CASE UNCHANGED deskVars
  BY <1>1, <1>2 DEF deskVars
<1>3. CASE CollectorPageStep
  BY <1>0, <1>1, <1>3, CollectorSendStep
<1>4. CASE Conductors!RefreshCollectors
  BY <1>1, <1>4 DEF Conductors!RefreshCollectors, Conductors!Arrive
<1>5. ASSUME NEW r \in wire, Conductors!Succeed(r)
      PROVE  Conductors!AccountInv'
  BY <1>1, <1>5 DEF Conductors!Succeed, Conductors!Settle, Conductors!TypeOK, Conductors!Hists
<1>6. ASSUME NEW r \in wire, CollectorServerStep(r)
      PROVE  Conductors!AccountInv'
  <2>1. Conductors!NoOrphanAccount'
    <3>1. CASE Conductors!GrantLogin(r)
      BY <3>1, CollectorAccountGranted
    <3>2. CASE ~Conductors!GrantLogin(r)
      <4>1. hist.stale \subseteq hist'.stale
        BY <1>6, CollectorWrites
      <4>2. /\ \A p \in Phones : Conductors!Users'[p].owner = Conductors!Users[p].owner
            /\ \A d \in Collectors : \/ d \in hist'.stale
                                     \/ db'[d].login = db[d].login
                                            /\ (db[d].state = "gone" => db'[d].state = "gone")
        BY <1>6, <3>2, CollectorOwnersServed
      <4> QED
        BY <1>0, <4>1, <4>2, CollectorOwnersKept
    <3> QED
      BY <3>1, <3>2
  <2>2. \A q \in wire' : \/ q \in wire \/ q = Conductors!Told(r, "ok") \/ q = Conductors!Told(r, "error")
                         \/ CollectorReadNow(q, r) \/ CollectorAlike(q, r)
                         \/ (q.kind = "create" /\ q.phase \in {"created", "asked", "ok"})
    BY <1>6, CollectorServedStep
  <2>3. ASSUME NEW q \in wire', Conductors!Granting(q)
        PROVE  q.row.login = None /\ q.row.state = "active"
    <3>1. q.phase \in {"read", "checked"}
      BY <2>3 DEF Conductors!Granting
    <3>2. q \in wire \/ CollectorReadNow(q, r) \/ CollectorAlike(q, r)
      BY <2>2, <3>1, CollectorToldIs
    <3> QED
      BY <1>0, <2>3, <3>2 DEF CollectorReadNow, CollectorAlike, Conductors!Granting
  <2> QED
    BY <2>1, <2>3 DEF Conductors!AccountInv, Conductors!Granting
<1>7. CASE Conductors!Next
  BY <1>3, <1>4, <1>5, <1>6, <1>7 DEF Conductors!Next, CollectorPageStep, CollectorServerStep
<1> QED
  BY <1>2, <1>7

\* ---- sections ---------------------------------------------------------------------------

\* Only a save takes a text back, and only one of its own section if it knew the row.
LEMMA CollectorSectionStep ==
  ASSUME Conductors!TypeOK, Conductors!CollectorAssumption, [Conductors!Next]_deskVars
  PROVE  Conductors!SectionKept
<1>0. (\A d \in Collectors : db[d] \in Conductors!Row) /\ Conductors!StaffAssumption
  BY DEF Conductors!TypeOK, Conductors!CollectorAssumption
<1>1. ASSUME \A d \in Collectors : db'[d].text = db[d].text
      PROVE  Conductors!SectionKept
  <2>1. \A d \in Collectors, s \in CollectorSections : ~(db[d].text[s] < db[d].text[s])
    BY <1>0 DEF Conductors!Row, Conductors!Texts
  <2> QED
    BY <1>1, <2>1 DEF Conductors!SectionKept
<1>2. CASE UNCHANGED deskVars
  BY <1>1, <1>2 DEF deskVars
<1>3. CASE CollectorPageStep \/ Conductors!RefreshCollectors \/ \E r \in wire : Conductors!Succeed(r)
  <2>1. db' = db
    BY <1>0, <1>3, CollectorSendStep DEF Conductors!RefreshCollectors, Conductors!Arrive, Conductors!Succeed
  <2> QED
    BY <1>1, <2>1
<1>4. ASSUME NEW r \in wire, Conductors!SaveUpdate(r)
      PROVE  Conductors!SectionKept
  <2>1. /\ r.kind = "update" /\ r.phase = "read" /\ r \notin wire' /\ db'[r.id] = Conductors!Patched(r)
        /\ \A d \in Collectors : d # r.id => db'[d] = db[d]
        /\ Conductors!Patched(r).text = Conductors!Merge(r.row.text, r.payload)
    BY <1>4, CollectorSaveStep
  <2>2. DOMAIN r.payload \subseteq {r.section}
    BY <2>1 DEF Conductors!TypeOK, Conductors!WellTyped, Conductors!Scoped
  <2>3. ASSUME NEW d \in Collectors, NEW s \in CollectorSections, db'[d].text[s] < db[d].text[s]
        PROVE  d = r.id /\ (r.section = s \/ r.row # db[d])
    <3>1. ~(db[d].text[s] < db[d].text[s])
      BY <1>0 DEF Conductors!Row, Conductors!Texts
    <3>2. d = r.id
      BY <2>1, <2>3, <3>1
    <3>3. ASSUME r.row = db[d], r.section # s
          PROVE  FALSE
      <4>1. s \notin DOMAIN r.payload
        BY <2>2, <3>3
      <4>2. db'[d].text[s] = db[d].text[s]
        BY <2>1, <3>2, <3>3, <4>1 DEF Conductors!Merge
      <4> QED
        BY <2>3, <3>1, <4>2
    <3> QED
      BY <3>2, <3>3
  <2> QED
    BY <2>1, <2>3 DEF Conductors!SectionKept
<1>5. ASSUME NEW r \in wire, CollectorServerStep(r)
      PROVE  Conductors!SectionKept
  BY <1>1, <1>4, <1>5, CollectorWrites
<1>6. CASE Conductors!Next
  BY <1>3, <1>5, <1>6 DEF Conductors!Next, CollectorPageStep, CollectorServerStep
<1> QED
  BY <1>2, <1>6

\* ---- the theorems -----------------------------------------------------------------------

LEMMA CollectorInitInv == ASSUME Conductors!CollectorAssumption, Conductors!Init PROVE Conductors!IInv
<1>1. Conductors!Rows = [d \in {} |-> None] /\ wire = {} /\ hist = Conductors!NewHist /\ dialog = None
  BY DEF Conductors!Init, Conductors!Rows
<1>2. Conductors!RemovedInv
  BY <1>1 DEF Conductors!RemovedInv, Conductors!RestingListKnowsRemoved, Conductors!NewHist
<1>3. PICK number \in [Hired -> 1..Cardinality(Hired)], owner \in Hired \cup {None}, phone \in Phones,
          y \in Partners :
        db = Conductors!FirstRows(number, owner, phone, y)
  BY CollectorCounted DEF Conductors!Init
<1>4. ASSUME NEW d \in Collectors
      PROVE  db[d].photo = None /\ (d = owner => db[d].login = phone)
  BY <1>3, <1>4 DEF Conductors!FirstRows, Conductors!CollectorAssumption
<1>5. Conductors!PhotoInv
  BY <1>1, <1>4 DEF Conductors!PhotoInv, Conductors!Own, Conductors!DialogIs
<1>6. ASSUME NEW p \in Phones
      PROVE  Conductors!Users[p].owner = None
                 \/ (Conductors!Users[p].owner = owner /\ owner \in Collectors /\ p = phone)
  BY <1>3 DEF Conductors!Users, Conductors!FirstRows, Conductors!NewUser, Conductors!CollectorAssumption
<1>7. Conductors!AccountInv
  BY <1>1, <1>4, <1>6 DEF Conductors!AccountInv, Conductors!NoOrphanAccount
<1> QED
  BY CollectorInitType, <1>2, <1>5, <1>7 DEF Conductors!IInv

LEMMA CollectorNextInv == ASSUME Conductors!CollectorAssumption, Conductors!IInv,
    [Conductors!Next]_deskVars PROVE Conductors!IInv'
BY CollectorNextType, CollectorRemovedStep, CollectorPhotoStep, CollectorAccountStep DEF Conductors!IInv

LEMMA CollectorInvHolds == ASSUME Conductors!CollectorAssumption PROVE Conductors!Spec => []Conductors!IInv
  BY CollectorInitInv, CollectorNextInv, PTL DEF Conductors!Spec, Conductors!deskVars, deskVars

\* The collectors' rows, accounts, list, dialogs, form and requests are of their types.
THEOREM CollectorTypeCorrect == ASSUME Conductors!CollectorAssumption PROVE Conductors!Spec => []Conductors!TypeOK
<1>1. Conductors!IInv => Conductors!TypeOK
  BY DEF Conductors!IInv
<1> QED
  BY <1>1, CollectorInvHolds, PTL

\* A collector shows another one's picture only when the check of a picked
\* file ended after its dialog was gone.
THEOREM CollectorPhotosBelong ==
    ASSUME Conductors!CollectorAssumption PROVE Conductors!Spec => []Conductors!PhotoBelongs
<1>1. Conductors!IInv => Conductors!PhotoBelongs
  BY DEF Conductors!IInv, Conductors!PhotoInv, Conductors!PhotoBelongs, Conductors!Own
<1> QED
  BY <1>1, CollectorInvHolds, PTL

\* A list at rest has no collector this page removed, but for those a stale save brought back.
THEOREM CollectorRestingKnowsRemoved ==
    ASSUME Conductors!CollectorAssumption PROVE Conductors!Spec => []Conductors!RestingListKnowsRemoved
<1>1. Conductors!IInv => Conductors!RestingListKnowsRemoved
  BY DEF Conductors!IInv, Conductors!RemovedInv
<1> QED
  BY <1>1, CollectorInvHolds, PTL

\* An account no row points at is of a collector who was removed, or whose row
\* was written between a test and a save of another request.
THEOREM CollectorNoOrphans == ASSUME Conductors!CollectorAssumption PROVE Conductors!Spec
    => []Conductors!NoOrphanAccount
<1>1. Conductors!IInv => Conductors!NoOrphanAccount
  BY DEF Conductors!IInv, Conductors!AccountInv
<1> QED
  BY <1>1, CollectorInvHolds, PTL

\* An edit of one section of a collector does not take another's text back.
THEOREM CollectorSectionsKept ==
    ASSUME Conductors!CollectorAssumption PROVE Conductors!Spec => [][Conductors!SectionKept]_deskVars
<1>1. Conductors!IInv /\ [Conductors!Next]_deskVars => [Conductors!SectionKept]_deskVars
  BY CollectorSectionStep DEF Conductors!IInv
<1> QED
  BY <1>1, CollectorInvHolds, PTL DEF Conductors!Spec, Conductors!deskVars, deskVars

\* ---- the fleet page -------------------------------------------------------------------

\* ---- the fleet's requests ---------------------------------------------------------------

LEMMA FleetOnePiece ==
  ASSUME NEW S \in SUBSET FleetSections, NEW f \in [S -> 0..MaxStamp]
  PROVE  f \in Fleet!Pieces
BY DEF Fleet!Pieces

LEMMA FleetMerged ==
  ASSUME NEW text \in Fleet!Texts, NEW payload \in Fleet!Pieces \cup [{} -> 0..MaxStamp]
  PROVE  Fleet!Merge(text, payload) \in Fleet!Texts
<1>1. PICK S \in SUBSET FleetSections : payload \in [S -> 0..MaxStamp]
  BY DEF Fleet!Pieces
<1> QED
  BY <1>1 DEF Fleet!Merge, Fleet!Texts

\* What the kind and the phase of a request say of it.
LEMMA FleetKindsOf ==
  ASSUME NEW r \in Fleet!Requests
  PROVE  /\ r.id \in Staff /\ r.who \in Fleet!Whos
         /\ r.kind = "create" => r \in Fleet!Creates(Staff, {None}) \cup Fleet!CreateAnswers(Staff, {None})
         /\ r.kind = "update" /\ r.phase = "sent" => r \in Fleet!EditsIn({"sent"}, {None})
         /\ r.kind = "update" /\ r.phase \in {"read", "saved"}
                => r \in Fleet!EditsIn({"read", "saved", "error"}, Fleet!Row)
         /\ r.kind = "toggle" /\ r.phase = "sent" => r \in Fleet!TogglesIn("sent", {None})
         /\ r.kind = "toggle" /\ r.phase = "read" => r \in Fleet!TogglesIn("read", Fleet!Row)
         /\ r.kind = "delete" /\ r.phase = "sent" => r \in Fleet!Deletes
         /\ r.kind = "confirm" /\ r.phase = "sent" => r \in Fleet!Confirms
         /\ r.kind \in {"create", "update", "delete", "toggle", "confirm", "service"}
         /\ r.phase \in {"sent", "read", "saved", "ok", "error"}
         /\ r.phase = "read" => r.kind \in {"update", "toggle"} /\ r.row \in Fleet!Row
         /\ r.kind = "service" => r.phase = "saved"
BY DEF Fleet!Requests, Fleet!Creates, Fleet!CreateAnswers, Fleet!Deletes, Fleet!Edits, Fleet!EditsIn,
   Fleet!Toggles, Fleet!TogglesIn, Fleet!Confirms, Fleet!Services, Fleet!Answers, Fleet!Whos

LEMMA FleetToldType ==
  ASSUME NEW r \in Fleet!Requests, r.kind # "service", NEW phase \in {"ok", "error"}
  PROVE  Fleet!Told(r, phase) \in Fleet!Requests /\ Fleet!Scoped(Fleet!Told(r, phase))
<1>1. CASE r.kind = "create"
  <2>1. r.id \in Staff /\ r.copy \in 0..MaxSends /\ r.field = None
    BY <1>1, FleetKindsOf DEF Fleet!Creates, Fleet!CreateAnswers
  <2>2. Fleet!Told(r, phase) \in Fleet!CreateAnswers(Staff, {None})
    BY <1>1, <2>1 DEF Fleet!Told, Fleet!CreateAnswers
  <2> QED
    BY <2>2 DEF Fleet!Requests, Fleet!CreateAnswers, Fleet!Scoped
<1>2. CASE r.kind # "create"
  <2>1. Fleet!Told(r, phase) \in Fleet!Answers({"update", "delete", "toggle", "confirm"})
    BY <1>2, FleetKindsOf DEF Fleet!Told, Fleet!Answers
  <2> QED
    BY <2>1 DEF Fleet!Requests, Fleet!Answers, Fleet!Scoped
<1> QED
  BY <1>1, <1>2

\* An answer takes the place of the request, if anybody waits for it.
LEMMA FleetReplied ==
  ASSUME Fleet!TypeOK, NEW r \in wire, r.kind # "service", NEW phase \in {"ok", "error"}, Fleet!Reply(r, phase)
  PROVE  /\ wire' \subseteq Fleet!Requests /\ \A q \in wire' : Fleet!Scoped(q)
         /\ \A q \in wire' : q \in wire \ {r} \/ q = Fleet!Told(r, phase)
<1>1. \A q \in wire' : q \in wire \ {r} \/ q = Fleet!Told(r, phase)
  BY DEF Fleet!Reply
<1> QED
  BY <1>1, FleetToldType DEF Fleet!TypeOK, Fleet!WellTyped

LEMMA FleetSendType ==
  ASSUME Fleet!TypeOK, Fleet!StaffAssumption, NEW r \in Fleet!Requests, Fleet!Scoped(r), Fleet!Send(r)
  PROVE  hist' \in Fleet!Hists /\ wire' \subseteq Fleet!Requests /\ \A q \in wire' : Fleet!Scoped(q)
<1>1. hist' \in Fleet!Hists
  BY DEF Fleet!TypeOK, Fleet!Hists, Fleet!Send, Fleet!StaffAssumption
<1>2. \A q \in wire' : q \in wire \/ q = r
  BY DEF Fleet!Send
<1> QED
  BY <1>1, <1>2 DEF Fleet!TypeOK, Fleet!WellTyped

\* The dialogs by kind.
LEMMA FleetDialogsBy ==
  ASSUME Fleet!TypeOK, dialog # None
  PROVE  /\ dialog.kind = "picker" => dialog \in [kind: {"picker"}, id: Staff, seen: Fleet!Row]
         /\ dialog.kind = "view" => dialog \in [kind: {"view"}, id: Staff, seen: Fleet!Row]
         /\ dialog.kind = "edit" => dialog \in [kind: {"edit"}, id: Staff, seen: Fleet!Row, section: FleetSections,
                text: Fleet!Texts]
         /\ dialog.kind = "delete" => dialog \in [kind: {"delete"}, id: Staff]
         /\ dialog.kind = "confirm" => dialog \in [kind: {"confirm"}, id: Staff]
BY DEF Fleet!TypeOK, Fleet!Dialogs, Fleet!DialogsOver

\* Steps of the page alone.
LEMMA FleetDialogType ==
  ASSUME Fleet!TypeOK, UNCHANGED <<db, shown, wire>>, due' \subseteq {"list"}, dialog' = None
             \/ dialog' \in Fleet!Dialogs,
         form' \in Fleet!Forms, hist' \in Fleet!Hists
  PROVE  Fleet!TypeOK'
<1>1. Fleet!Rows' = Fleet!Rows /\ \A r : Fleet!Scoped(r)' <=> Fleet!Scoped(r)
  BY DEF Fleet!Rows, Fleet!Scoped
<1> QED
  BY <1>1 DEF Fleet!TypeOK, Fleet!WellTyped

\* Steps of the server and of requests.
LEMMA FleetServerType ==
  ASSUME Fleet!TypeOK, UNCHANGED <<shown, due, dialog>>, db' \in [Staff -> Fleet!Row],
             wire' \subseteq Fleet!Requests,
         \A q \in wire' : Fleet!Scoped(q), form' \in Fleet!Forms, hist' \in Fleet!Hists
  PROVE  Fleet!TypeOK'
<1>1. Fleet!Rows' = Fleet!Rows /\ \A r : Fleet!Scoped(r)' <=> Fleet!Scoped(r)
  BY DEF Fleet!Rows, Fleet!Scoped
<1> QED
  BY <1>1 DEF Fleet!TypeOK, Fleet!WellTyped

\* ---- types ------------------------------------------------------------------------------

LEMMA FleetInitType == Fleet!StaffAssumption /\ Fleet!Init => Fleet!TypeOK
<1> SUFFICES ASSUME Fleet!StaffAssumption, Fleet!Init PROVE Fleet!TypeOK
  OBVIOUS
<1>1. Fleet!NewText \in Fleet!Texts
  BY DEF Fleet!StaffAssumption, Fleet!NewText, Fleet!Texts
<1>2. db \in [Staff -> Fleet!Row]
  BY <1>1 DEF Fleet!Init, Fleet!Row, Fleet!States, Fleet!Status
<1>3. Fleet!Rows = [d \in {} |-> None]
  BY DEF Fleet!Init, Fleet!Rows
<1>4. shown \in [{"list"} -> [DOMAIN Fleet!Rows -> Fleet!Row]]
  BY <1>3 DEF Fleet!Init
<1>5. form \in Fleet!Forms
  BY DEF Fleet!Init, Fleet!Forms, Fleet!Wizards, Fleet!NewForm, Fleet!NewWizard, Fleet!LastStep
<1>6. hist \in Fleet!Hists
  BY DEF Fleet!Init, Fleet!Hists, Fleet!NewHist, Fleet!StaffAssumption
<1> QED
  BY <1>2, <1>3, <1>4, <1>5, <1>6 DEF Fleet!Init, Fleet!TypeOK, Fleet!WellTyped

LEMMA FleetClearedType ==
  ASSUME NEW f \in Fleet!Forms
  PROVE  Fleet!ResetWizard(f) \in Fleet!Forms /\ [f EXCEPT !.file = None] \in Fleet!Forms
<1>1. Fleet!NewWizard \in Fleet!Wizards
  BY DEF Fleet!Wizards, Fleet!NewWizard, Fleet!LastStep
<1> QED
  BY <1>1 DEF Fleet!Forms, Fleet!ResetWizard

LEMMA FleetOpenType ==
  ASSUME Fleet!TypeOK, NEW d \in Fleet!Dialogs, Fleet!Open(d)
  PROVE  Fleet!TypeOK'
<1>1. hist' \in Fleet!Hists
  BY DEF Fleet!TypeOK, Fleet!Hists, Fleet!Open
<1> QED
  BY <1>1, FleetDialogType DEF Fleet!Open, Fleet!TypeOK, Fleet!WellTyped

\* The gestures on the list and its dialogs.
LEMMA FleetBrowsingTypes ==
  ASSUME Fleet!TypeOK,
         \/ Fleet!RefreshVehicles \/ Fleet!BrowseVehicles \/ Fleet!OpenWizard \/ Fleet!CloseDialog
                \/ Fleet!BackToVehiclePicker \/ Fleet!EditViewed
         \/ \E d \in DOMAIN Fleet!Rows : Fleet!RowButtons(d)
         \/ \E s \in FleetSections : Fleet!ChooseVehicleSection(s)
  PROVE  Fleet!TypeOK'
<1>1. CASE Fleet!RefreshVehicles
  <2>1. Fleet!Rows' = Fleet!Listing
    BY <1>1 DEF Fleet!RefreshVehicles, Fleet!Refresh, Fleet!Arrive, Fleet!TypeOK, Fleet!Rows
  <2>2. Fleet!Listing \in [Fleet!Active -> Fleet!Row] /\ \A d \in Fleet!Active : d \in Staff
            /\ Fleet!Listing[d].state = "active"
    BY DEF Fleet!Listing, Fleet!Active, Fleet!TypeOK
  <2>3. shown' \in [{"list"} -> [DOMAIN Fleet!Rows' -> Fleet!Row]]
    BY <1>1, <2>1, <2>2 DEF Fleet!RefreshVehicles, Fleet!Refresh, Fleet!Arrive, Fleet!TypeOK
  <2>4. DOMAIN Fleet!Rows' \subseteq Staff /\ \A d \in DOMAIN Fleet!Rows' : Fleet!Rows'[d].state = "active"
    BY <2>1, <2>2
  <2>5. \A r : Fleet!Scoped(r)' <=> Fleet!Scoped(r)
    BY DEF Fleet!Scoped
  <2> QED
    BY <1>1, <2>3, <2>4, <2>5 DEF Fleet!RefreshVehicles, Fleet!Refresh, Fleet!Arrive, Fleet!TypeOK, Fleet!WellTyped
<1>2. CASE Fleet!BrowseVehicles
  BY <1>2, FleetDialogType DEF Fleet!BrowseVehicles, Fleet!Browse, Fleet!Ask, Fleet!TypeOK, Fleet!WellTyped
<1>3. CASE Fleet!OpenWizard
  <2>1. [kind |-> "create"] \in Fleet!Dialogs
    BY DEF Fleet!Dialogs, Fleet!DialogsOver
  <2> QED
    BY <1>3, <2>1, FleetOpenType DEF Fleet!OpenWizard
<1>4. CASE Fleet!CloseDialog
  <2>1. form' \in Fleet!Forms
    BY <1>4, FleetClearedType DEF Fleet!CloseDialog, Fleet!TypeOK
  <2> QED
    BY <1>4, <2>1, FleetDialogType DEF Fleet!CloseDialog, Fleet!TypeOK, Fleet!WellTyped
<1>5. CASE Fleet!BackToVehiclePicker \/ Fleet!EditViewed
  <2>1. dialog' \in [kind: {"picker"}, id: Staff, seen: Fleet!Row]
    BY <1>5, FleetDialogsBy DEF Fleet!BackToVehiclePicker, Fleet!BackToPicker, Fleet!EditViewed, Fleet!DialogIs
  <2>2. dialog' \in Fleet!Dialogs
    BY <2>1 DEF Fleet!Dialogs, Fleet!DialogsOver
  <2> QED
    BY <1>5, <2>2, FleetDialogType DEF Fleet!BackToVehiclePicker, Fleet!BackToPicker, Fleet!EditViewed,
       Fleet!TypeOK, Fleet!WellTyped
<1>6. ASSUME NEW d \in DOMAIN Fleet!Rows, Fleet!RowButtons(d)
      PROVE  Fleet!TypeOK'
  <2>1. d \in Staff /\ Fleet!Rows[d] \in Fleet!Row
    BY DEF Fleet!TypeOK, Fleet!WellTyped, Fleet!Rows
  <2>2. [kind |-> "picker", id |-> d, seen |-> Fleet!Rows[d]] \in Fleet!Dialogs
    BY <2>1 DEF Fleet!Dialogs, Fleet!DialogsOver
  <2>3. [kind |-> "delete", id |-> d] \in Fleet!Dialogs
            /\ [kind |-> "view", id |-> d, seen |-> Fleet!Rows[d]] \in Fleet!Dialogs
    BY <2>1 DEF Fleet!Dialogs, Fleet!DialogsOver
  <2> QED
    BY <1>6, <2>2, <2>3, FleetOpenType DEF Fleet!RowButtons, Fleet!OpenEditPicker, Fleet!OpenRemoval
<1>7. ASSUME NEW s \in FleetSections, Fleet!ChooseVehicleSection(s)
      PROVE  Fleet!TypeOK'
  <2>1. dialog \in [kind: {"picker"}, id: Staff, seen: Fleet!Row] /\ dialog.seen.text \in Fleet!Texts
    BY <1>7, FleetDialogsBy DEF Fleet!ChooseVehicleSection, Fleet!ChooseEditSection, Fleet!DialogIs, Fleet!Row
  <2>2. dialog' \in [kind: {"edit"}, id: Staff, seen: Fleet!Row, section: FleetSections, text: Fleet!Texts]
    BY <1>7, <2>1 DEF Fleet!ChooseVehicleSection, Fleet!ChooseEditSection
  <2>3. dialog' \in Fleet!Dialogs
    BY <2>2 DEF Fleet!Dialogs, Fleet!DialogsOver
  <2>4. form' \in Fleet!Forms
    BY <1>7 DEF Fleet!ChooseVehicleSection, Fleet!ChooseEditSection, Fleet!TypeOK, Fleet!Forms
  <2> QED
    BY <1>7, <2>3, <2>4, FleetDialogType DEF Fleet!ChooseVehicleSection, Fleet!ChooseEditSection, Fleet!TypeOK,
       Fleet!WellTyped
<1> QED
  BY <1>1, <1>2, <1>3, <1>4, <1>5, <1>6, <1>7

\* Typing, picking, and the wizard.
LEMMA FleetFormTypes ==
  ASSUME Fleet!TypeOK, Fleet!StaffAssumption,
         \/ Fleet!TypeIntoVehicle \/ Fleet!PickInsuranceFile \/ Fleet!FillVehicleStep \/ Fleet!NextVehicleStep
         \/ \E i \in 0..Fleet!LastStep : Fleet!GoToVehicleStep(i)
  PROVE  Fleet!TypeOK'
<1>1. CASE Fleet!TypeIntoVehicle
  <2>1. dialog \in [kind: {"edit"}, id: Staff, seen: Fleet!Row, section: FleetSections, text: Fleet!Texts]
    BY <1>1, FleetDialogsBy DEF Fleet!TypeIntoVehicle, Fleet!TypeText, Fleet!DialogIs
  <2>2. hist.stamp \in 0..MaxStamp /\ hist.stamp < MaxStamp
    BY <1>1 DEF Fleet!TypeIntoVehicle, Fleet!TypeText, Fleet!TypeOK, Fleet!Hists
  <2>3. dialog' \in [kind: {"edit"}, id: Staff, seen: Fleet!Row, section: FleetSections, text: Fleet!Texts]
    BY <1>1, <2>1, <2>2 DEF Fleet!TypeIntoVehicle, Fleet!TypeText, Fleet!Texts, Fleet!StaffAssumption
  <2>4. dialog' \in Fleet!Dialogs
    BY <2>3 DEF Fleet!Dialogs, Fleet!DialogsOver
  <2>5. hist' \in Fleet!Hists
    BY <1>1 DEF Fleet!TypeIntoVehicle, Fleet!TypeText, Fleet!TypeOK, Fleet!Hists, Fleet!StaffAssumption
  <2> QED
    BY <1>1, <2>4, <2>5, FleetDialogType DEF Fleet!TypeIntoVehicle, Fleet!TypeText, Fleet!TypeOK, Fleet!WellTyped
<1>2. CASE Fleet!PickInsuranceFile
  <2>1. dialog.id \in Staff
    BY <1>2, FleetDialogsBy DEF Fleet!PickInsuranceFile, Fleet!DialogIs
  <2>3. form' \in Fleet!Forms
    BY <1>2, <2>1 DEF Fleet!PickInsuranceFile, Fleet!TypeOK, Fleet!Forms
  <2> QED
    BY <1>2, <2>3, FleetDialogType DEF Fleet!PickInsuranceFile, Fleet!TypeOK, Fleet!WellTyped
<1>3. CASE Fleet!FillVehicleStep
  <2>1. form' \in Fleet!Forms
    BY <1>3 DEF Fleet!FillVehicleStep, Fleet!FillStep, Fleet!TypeOK, Fleet!Forms, Fleet!Wizards
  <2> QED
    BY <1>3, <2>1, FleetDialogType DEF Fleet!FillVehicleStep, Fleet!FillStep, Fleet!TypeOK, Fleet!WellTyped
<1>4. CASE Fleet!NextVehicleStep
  <2>1. form \in Fleet!Forms /\ form.wizard \in Fleet!Wizards
    BY DEF Fleet!TypeOK, Fleet!Forms
  <2>2. form'.wizard = [step |-> form.wizard.step + 1, max |-> Fleet!LastStep, filled |-> form.wizard.filled]
    BY <1>4, <2>1 DEF Fleet!NextVehicleStep, Fleet!HandleNext, Fleet!Forms, Fleet!Wizards
  <2>5. form.wizard.step = 0 /\ form.wizard.filled \in BOOLEAN
    BY <1>4, <2>1 DEF Fleet!NextVehicleStep, Fleet!HandleNext, Fleet!Wizards, Fleet!LastStep
  <2>3. form'.wizard \in Fleet!Wizards
    BY <2>2, <2>5 DEF Fleet!Wizards, Fleet!LastStep
  <2>4. form' \in Fleet!Forms
    BY <1>4, <2>1, <2>3 DEF Fleet!NextVehicleStep, Fleet!HandleNext, Fleet!Forms
  <2> QED
    BY <1>4, <2>4, FleetDialogType DEF Fleet!NextVehicleStep, Fleet!HandleNext, Fleet!TypeOK, Fleet!WellTyped
<1>5. ASSUME NEW i \in 0..Fleet!LastStep, Fleet!GoToVehicleStep(i)
      PROVE  Fleet!TypeOK'
  <2>1. form' \in Fleet!Forms
    BY <1>5 DEF Fleet!GoToVehicleStep, Fleet!GoToStep, Fleet!TypeOK, Fleet!Forms, Fleet!Wizards
  <2> QED
    BY <1>5, <2>1, FleetDialogType DEF Fleet!GoToVehicleStep, Fleet!GoToStep, Fleet!TypeOK, Fleet!WellTyped
<1> QED
  BY <1>1, <1>2, <1>3, <1>4, <1>5
\* Requests of the page.
LEMMA FleetSendingTypes ==
  ASSUME Fleet!TypeOK, Fleet!StaffAssumption,
         \/ Fleet!UpdateVehicle \/ Fleet!ConfirmRemoval \/ Fleet!ConfirmAvailable \/ Fleet!GiveUp
         \/ \E d \in Staff : Fleet!SubmitVehicle(d)
         \/ \E d \in DOMAIN Fleet!Rows : Fleet!HandleToggleAvailability(d)
  PROVE  Fleet!TypeOK'
<1>1. CASE Fleet!UpdateVehicle
  <2>1. dialog \in [kind: {"edit"}, id: Staff, seen: Fleet!Row, section: FleetSections, text: Fleet!Texts]
    BY <1>1, FleetDialogsBy DEF Fleet!UpdateVehicle, Fleet!DialogIs
  <2>2. PICK S \in SUBSET {dialog.section} : S = {t \in {dialog.section} : t = "insurance" => dialog.text[t] # 0}
    OBVIOUS
  <2>3. PICK status \in {dialog.seen.status, "ACTIVE", None} :
            Fleet!Send([kind |-> "update", who |-> "desk", id |-> dialog.id, phase |-> "sent",
                  section |-> dialog.section, photo |-> form.file, status |-> status,
                  row |-> None, payload |-> [s \in S |-> dialog.text[s]]])
    BY <1>1, <2>2 DEF Fleet!UpdateVehicle
  <2> DEFINE r == [kind |-> "update", who |-> "desk", id |-> dialog.id, phase |-> "sent",
                   section |-> dialog.section, photo |-> form.file, status |-> status,
                   row |-> None, payload |-> [s \in S |-> dialog.text[s]]]
  <2>4. [s \in S |-> dialog.text[s]] \in [S -> 0..MaxStamp] /\ S \subseteq FleetSections
    BY <2>1 DEF Fleet!Texts
  <2>5. [s \in S |-> dialog.text[s]] \in Fleet!Pieces
    BY <2>4, FleetOnePiece
  <2>6. form.file \in Staff \cup {None} /\ status \in Fleet!Status \cup {None}
    BY <2>1 DEF Fleet!TypeOK, Fleet!Forms, Fleet!Row, Fleet!Status
  <2>7. r \in Fleet!EditsIn({"sent"}, {None})
    BY <2>1, <2>5, <2>6 DEF Fleet!EditsIn, Fleet!Whos
  <2>8. r \in Fleet!Requests /\ Fleet!Scoped(r)
    BY <2>4, <2>7 DEF Fleet!Requests, Fleet!Edits, Fleet!Scoped
  <2>9. UNCHANGED <<db, shown, due, dialog, form>> /\ Fleet!Send(r)
    BY <1>1, <2>3 DEF Fleet!UpdateVehicle
  <2> HIDE DEF r
  <2> QED
    BY <2>8, <2>9, FleetSendType, FleetServerType DEF Fleet!TypeOK
<1>2. CASE Fleet!ConfirmRemoval
  <2> DEFINE r == [kind |-> "delete", who |-> "desk", id |-> dialog.id, phase |-> "sent"]
  <2>1. dialog.id \in Staff
    BY <1>2, FleetDialogsBy DEF Fleet!ConfirmRemoval, Fleet!SubmitRemoval, Fleet!DialogIs
  <2>2. r \in Fleet!Requests /\ Fleet!Scoped(r)
    BY <2>1 DEF Fleet!Requests, Fleet!Deletes, Fleet!Whos, Fleet!Scoped
  <2>3. Fleet!Send(r) /\ UNCHANGED <<db, shown, due, dialog, form>>
    BY <1>2 DEF Fleet!ConfirmRemoval, Fleet!SubmitRemoval
  <2> HIDE DEF r
  <2> QED
    BY <2>2, <2>3, FleetSendType, FleetServerType DEF Fleet!TypeOK
<1>3. CASE Fleet!ConfirmAvailable
  <2> DEFINE r == [kind |-> "confirm", who |-> "desk", id |-> dialog.id, phase |-> "sent"]
  <2>1. dialog.id \in Staff
    BY <1>3, FleetDialogsBy DEF Fleet!ConfirmAvailable, Fleet!DialogIs
  <2>2. r \in Fleet!Requests /\ Fleet!Scoped(r)
    BY <2>1 DEF Fleet!Requests, Fleet!Confirms, Fleet!Whos, Fleet!Scoped
  <2>3. Fleet!Send(r) /\ UNCHANGED <<db, shown, due, dialog, form>>
    BY <1>3 DEF Fleet!ConfirmAvailable
  <2> HIDE DEF r
  <2> QED
    BY <2>2, <2>3, FleetSendType, FleetServerType DEF Fleet!TypeOK
<1>4. ASSUME NEW d \in DOMAIN Fleet!Rows, Fleet!HandleToggleAvailability(d)
      PROVE  Fleet!TypeOK'
  <2>1. d \in Staff /\ Fleet!Rows[d] \in Fleet!Row
    BY DEF Fleet!TypeOK, Fleet!WellTyped, Fleet!Rows
  <2>2. CASE Fleet!NeedsConfirming(d)
    <3>1. [kind |-> "confirm", id |-> d] \in Fleet!Dialogs
      BY <2>1 DEF Fleet!Dialogs
    <3> QED
      BY <1>4, <2>2, <3>1, FleetOpenType DEF Fleet!HandleToggleAvailability
  <2>3. CASE ~Fleet!NeedsConfirming(d)
    <3> DEFINE r == [kind |-> "toggle", who |-> "desk", id |-> d, phase |-> "sent", section |-> None,
                     seen |-> Fleet!Rows[d].pending, payload |-> [s \in {} |-> 0], row |-> None,
                     status |-> IF Fleet!Rows[d].status = "ACTIVE" THEN "INACTIVE" ELSE "ACTIVE", photo |-> None]
    <3>1. Fleet!Rows[d].pending \in SUBSET (1..MaxStamp) /\ [s \in {} |-> 0] \in [{} -> 0..MaxStamp]
      BY <2>1 DEF Fleet!Row
    <3>2. (IF Fleet!Rows[d].status = "ACTIVE" THEN "INACTIVE" ELSE "ACTIVE") \in Fleet!Status
      BY DEF Fleet!Status
    <3>3. r \in Fleet!TogglesIn("sent", {None})
      BY <2>1, <3>1, <3>2 DEF Fleet!TogglesIn, Fleet!Whos
    <3>4. r \in Fleet!Requests /\ Fleet!Scoped(r)
      BY <3>3 DEF Fleet!Requests, Fleet!Toggles, Fleet!Scoped
    <3>5. Fleet!Send(r) /\ UNCHANGED <<db, shown, due, dialog, form>>
      BY <1>4, <2>3 DEF Fleet!HandleToggleAvailability
    <3> HIDE DEF r
    <3> QED
      BY <3>4, <3>5, FleetSendType, FleetServerType DEF Fleet!TypeOK
  <2> QED
    BY <2>2, <2>3
<1>5. ASSUME NEW d \in Staff, Fleet!SubmitVehicle(d)
      PROVE  Fleet!TypeOK'
  <2>1. PICK copy \in Fleet!FreshCopies :
            Fleet!SubmitWizard([kind |-> "create", who |-> "desk", id |-> d, copy |-> copy, field |-> None,
                phase |-> "sent"])
    BY <1>5 DEF Fleet!SubmitVehicle
  <2> DEFINE r == [kind |-> "create", who |-> "desk", id |-> d, copy |-> copy, field |-> None, phase |-> "sent"]
  <2>2. r \in Fleet!Creates(Staff, {None})
    BY DEF Fleet!Creates, Fleet!Whos, Fleet!FreshCopies
  <2>3. r \in Fleet!Requests /\ Fleet!Scoped(r)
    BY <2>2 DEF Fleet!Requests, Fleet!Scoped
  <2>4. Fleet!Send(r)
    BY <2>1 DEF Fleet!SubmitWizard, Fleet!Send
  <2> HIDE DEF r
  <2>5. UNCHANGED <<db, shown, due, dialog, form>>
    BY <1>5 DEF Fleet!SubmitVehicle
  <2> QED
    BY <2>3, <2>4, <2>5, FleetSendType, FleetServerType DEF Fleet!TypeOK
<1>6. CASE Fleet!GiveUp
  <2>1. PICK r \in wire : /\ r.phase \in {"sent", "read"}
                          /\ wire' = wire \ {r} \/ wire' = (wire \ {r}) \cup {[r EXCEPT !.who = "gone"]}
                          /\ UNCHANGED <<db, shown, due, dialog, form, hist>>
    BY <1>6 DEF Fleet!GiveUp, Fleet!Replace
  <2>2. r \in Fleet!Requests /\ Fleet!Scoped(r)
    BY DEF Fleet!TypeOK, Fleet!WellTyped
  <2>3. [r EXCEPT !.who = "gone"] \in Fleet!Requests /\ Fleet!Scoped([r EXCEPT !.who = "gone"])
    <3>1. CASE r.kind = "create"
      <4>1. r \in Fleet!Creates(Staff, {None})
        BY <2>1, <2>2, <3>1, FleetKindsOf DEF Fleet!CreateAnswers
      <4> QED
        BY <4>1 DEF Fleet!Creates, Fleet!Requests, Fleet!Scoped, Fleet!Whos
    <3>2. CASE r.kind = "update" /\ r.phase = "sent"
      BY <2>2, <3>2, FleetKindsOf DEF Fleet!EditsIn, Fleet!Edits, Fleet!Requests, Fleet!Scoped, Fleet!Whos
    <3>3. CASE r.kind = "update" /\ r.phase = "read"
      BY <2>2, <3>3, FleetKindsOf DEF Fleet!EditsIn, Fleet!Edits, Fleet!Requests, Fleet!Scoped, Fleet!Whos
    <3>4. CASE r.kind = "toggle" /\ r.phase = "sent"
      BY <2>2, <3>4, FleetKindsOf DEF Fleet!TogglesIn, Fleet!Toggles, Fleet!Requests, Fleet!Scoped, Fleet!Whos
    <3>5. CASE r.kind = "toggle" /\ r.phase = "read"
      BY <2>2, <3>5, FleetKindsOf DEF Fleet!TogglesIn, Fleet!Toggles, Fleet!Requests, Fleet!Scoped, Fleet!Whos
    <3>6. CASE r.kind \in {"delete", "confirm"}
      BY <2>1, <2>2, <3>6, FleetKindsOf DEF Fleet!Deletes, Fleet!Confirms, Fleet!Requests, Fleet!Scoped, Fleet!Whos
    <3> QED
      BY <2>1, <2>2, <3>1, <3>2, <3>3, <3>4, <3>5, <3>6, FleetKindsOf
  <2>4. \A q \in wire' : q \in wire \/ q = [r EXCEPT !.who = "gone"]
    BY <2>1
  <2>5. wire' \subseteq Fleet!Requests /\ \A q \in wire' : Fleet!Scoped(q)
    BY <2>3, <2>4 DEF Fleet!TypeOK, Fleet!WellTyped
  <2> QED
    BY <2>1, <2>5, FleetServerType DEF Fleet!TypeOK
<1> QED
  BY <1>1, <1>2, <1>3, <1>4, <1>5, <1>6

\* What the server has read is written to a row of its type.
LEMMA FleetWrittenType ==
  ASSUME Fleet!TypeOK, NEW r \in wire, r.kind \in {"update", "toggle"}, r.phase = "read"
  PROVE  /\ Fleet!Written(r) \in Fleet!Row /\ r.id \in Staff /\ r.row \in Fleet!Row
                /\ r.status \in Fleet!Status \cup {None}
         /\ Fleet!Written(r).text = Fleet!Merge(r.row.text, r.payload)
         /\ Fleet!Written(r).state = r.row.state /\ Fleet!Written(r).pending = db[r.id].pending
         /\ Fleet!Written(r).status = IF r.status = None THEN r.row.status ELSE r.status
<1>1. r.id \in Staff /\ r.row \in Fleet!Row /\ db[r.id] \in Fleet!Row
  BY FleetKindsOf DEF Fleet!TypeOK
<1>2. r.payload \in Fleet!Pieces \cup [{} -> 0..MaxStamp] /\ r.status \in Fleet!Status \cup {None}
  <2>1. r \in Fleet!EditsIn({"read", "saved", "error"}, Fleet!Row) \/ r \in Fleet!TogglesIn("read", Fleet!Row)
    BY FleetKindsOf DEF Fleet!TypeOK
  <2> QED
    BY <2>1 DEF Fleet!EditsIn, Fleet!TogglesIn
<1>3. Fleet!Merge(r.row.text, r.payload) \in Fleet!Texts
  BY <1>1, <1>2, FleetMerged DEF Fleet!Row
<1> QED
  BY <1>1, <1>2, <1>3 DEF Fleet!Written, Fleet!Row

\* The server.
LEMMA FleetServerTypes ==
  ASSUME Fleet!TypeOK, Fleet!StaffAssumption,
         \E r \in wire : \/ Fleet!ReadForUpdate(r) \/ Fleet!SaveVehicle(r) \/ Fleet!AttachDocumentFile(r)
                             \/ Fleet!AttachTimesOut(r)
                         \/ Fleet!ServeConfirm(r) \/ Fleet!ServeVehicle(r) \/ Fleet!RemoveVehicle(r)
                                \/ Fleet!TakeOffRoad(r)
  PROVE  Fleet!TypeOK'
<1>1. PICK r \in wire : \/ Fleet!ReadForUpdate(r) \/ Fleet!SaveVehicle(r) \/ Fleet!AttachDocumentFile(r)
                            \/ Fleet!AttachTimesOut(r)
                        \/ Fleet!ServeConfirm(r) \/ Fleet!ServeVehicle(r) \/ Fleet!RemoveVehicle(r)
                               \/ Fleet!TakeOffRoad(r)
  OBVIOUS
<1>2. r \in Fleet!Requests /\ Fleet!Scoped(r) /\ r.id \in Staff /\ db[r.id] \in Fleet!Row
          /\ db \in [Staff -> Fleet!Row]
  BY FleetKindsOf DEF Fleet!TypeOK, Fleet!WellTyped
<1>4. ASSUME NEW phase \in {"ok", "error"}, r.kind # "service", Fleet!Reply(r, phase),
                 db' \in [Staff -> Fleet!Row], hist' \in Fleet!Hists,
             UNCHANGED <<shown, due, dialog, form>>
      PROVE  Fleet!TypeOK'
  BY <1>4, FleetReplied, FleetServerType DEF Fleet!TypeOK
<1>3. CASE Fleet!ReadForUpdate(r)
  <2>1. UNCHANGED <<db, shown, due, dialog, form, hist>> /\ r.phase = "sent" /\ r.kind \in {"update", "toggle"}
    BY <1>3 DEF Fleet!ReadForUpdate, Fleet!Read
  <2>2. CASE db[r.id].state = "active"
    <3> DEFINE q == [r EXCEPT !.phase = "read", !.row = db[r.id]]
    <3>1. wire' = (wire \ {r}) \cup {q}
      BY <1>3, <2>2 DEF Fleet!ReadForUpdate, Fleet!Read, Fleet!Replace
    <3>2. q \in Fleet!Requests /\ Fleet!Scoped(q)
      <4>1. CASE r.kind = "update"
        <5>1. r \in Fleet!EditsIn({"sent"}, {None})
          BY <1>2, <2>1, <4>1, FleetKindsOf
        <5>2. q \in Fleet!EditsIn({"read", "saved", "error"}, Fleet!Row)
          BY <1>2, <5>1 DEF Fleet!EditsIn
        <5>3. q.phase = "read" /\ q.row = db[r.id] /\ q.payload = r.payload /\ q.section = r.section
          BY <5>1 DEF Fleet!EditsIn
        <5> QED
          BY <1>2, <2>1, <2>2, <4>1, <5>2, <5>3 DEF Fleet!Requests, Fleet!Edits, Fleet!Scoped
      <4>2. CASE r.kind = "toggle"
        <5>1. r \in Fleet!TogglesIn("sent", {None})
          BY <1>2, <2>1, <4>2, FleetKindsOf
        <5>2. q \in Fleet!TogglesIn("read", Fleet!Row)
          BY <1>2, <5>1 DEF Fleet!TogglesIn
        <5>3. q.kind = "toggle" /\ q.row = db[r.id]
          BY <5>1 DEF Fleet!TogglesIn
        <5> QED
          BY <2>2, <5>2, <5>3 DEF Fleet!Requests, Fleet!Toggles, Fleet!Scoped
      <4> QED
        BY <2>1, <4>1, <4>2
    <3> HIDE DEF q
    <3>3. wire' \subseteq Fleet!Requests /\ \A p \in wire' : Fleet!Scoped(p)
      BY <3>1, <3>2 DEF Fleet!TypeOK, Fleet!WellTyped
    <3> QED
      BY <2>1, <3>3, FleetServerType DEF Fleet!TypeOK
  <2>3. CASE db[r.id].state # "active"
    <3>1. Fleet!Reply(r, "error")
      BY <1>3, <2>3 DEF Fleet!ReadForUpdate, Fleet!Read
    <3> QED
      BY <1>4, <2>1, <3>1 DEF Fleet!TypeOK
  <2> QED
    BY <2>2, <2>3
<1>5. CASE Fleet!SaveVehicle(r)
  <2>1. r.kind \in {"update", "toggle"} /\ r.phase = "read" /\ UNCHANGED <<shown, due, dialog, form>>
    BY <1>5 DEF Fleet!SaveVehicle
  <2>2. db' \in [Staff -> Fleet!Row]
    BY <1>2, <1>5, <2>1, FleetWrittenType DEF Fleet!SaveVehicle
  <2>3. hist' \in Fleet!Hists
    <3>1. Fleet!StaleIds(r) \subseteq Staff
      BY <1>2 DEF Fleet!StaleIds
    <3> QED
      BY <1>5, <3>1 DEF Fleet!SaveVehicle, Fleet!TypeOK, Fleet!Hists
  <2>4. (Fleet!Replace(r, [r EXCEPT !.phase = "saved"]) /\ r.photo # None) \/ Fleet!Reply(r, "ok")
    BY <1>5 DEF Fleet!SaveVehicle
  <2>5. CASE Fleet!Reply(r, "ok")
    BY <1>4, <2>1, <2>2, <2>3, <2>5
  <2>6. CASE Fleet!Replace(r, [r EXCEPT !.phase = "saved"]) /\ r.photo # None
    <3> DEFINE q == [r EXCEPT !.phase = "saved"]
    <3>1. r.kind = "update"
      BY <1>2, <2>1, <2>6, FleetKindsOf DEF Fleet!TogglesIn
    <3>2. r \in Fleet!EditsIn({"read", "saved", "error"}, Fleet!Row)
      BY <1>2, <2>1, <3>1, FleetKindsOf
    <3>3. q \in Fleet!EditsIn({"read", "saved", "error"}, Fleet!Row) /\ q.phase = "saved"
      BY <3>2 DEF Fleet!EditsIn
    <3>4. q \in Fleet!Requests /\ Fleet!Scoped(q)
      BY <3>3 DEF Fleet!Requests, Fleet!Edits, Fleet!Scoped
    <3>5. wire' = (wire \ {r}) \cup {q}
      BY <2>6 DEF Fleet!Replace
    <3> HIDE DEF q
    <3>6. wire' \subseteq Fleet!Requests /\ \A p \in wire' : Fleet!Scoped(p)
      BY <3>4, <3>5 DEF Fleet!TypeOK, Fleet!WellTyped
    <3> QED
      BY <2>1, <2>2, <2>3, <3>6, FleetServerType DEF Fleet!TypeOK
  <2> QED
    BY <2>4, <2>5, <2>6
<1>6. CASE Fleet!AttachDocumentFile(r)
  <2>1. r.kind = "update" /\ r.phase = "saved" /\ UNCHANGED <<shown, due, dialog, form, hist>>
    BY <1>6 DEF Fleet!AttachDocumentFile
  <2>2. r.photo \in Staff \cup {None}
    BY <1>2, <2>1, FleetKindsOf DEF Fleet!EditsIn
  <2>3. [db EXCEPT ![r.id].photo = r.photo] \in [Staff -> Fleet!Row]
    BY <1>2, <2>2 DEF Fleet!Row
  <2> QED
    BY <1>4, <1>6, <2>1, <2>3 DEF Fleet!AttachDocumentFile, Fleet!TypeOK
<1>7. CASE Fleet!AttachTimesOut(r)
  <2>1. r.kind = "update" /\ r.phase = "saved" /\ UNCHANGED <<db, shown, due, dialog, form, hist>>
    BY <1>7 DEF Fleet!AttachTimesOut
  <2>2. r \in Fleet!EditsIn({"read", "saved", "error"}, Fleet!Row)
    BY <1>2, <2>1, FleetKindsOf
  <2>3. /\ [r EXCEPT !.phase = "error"] \in Fleet!EditsIn({"read", "saved", "error"}, Fleet!Row)
        /\ [r EXCEPT !.phase = "error"].phase = "error"
        /\ [r EXCEPT !.who = "gone"] \in Fleet!EditsIn({"read", "saved", "error"}, Fleet!Row)
        /\ [r EXCEPT !.who = "gone"].phase = "saved"
    BY <2>1, <2>2 DEF Fleet!EditsIn, Fleet!Whos
  <2>4. \A q \in Fleet!EditsIn({"read", "saved", "error"}, Fleet!Row) : q \in Fleet!Requests
            /\ (q.phase \in {"saved", "error"} => Fleet!Scoped(q))
    BY DEF Fleet!Requests, Fleet!Edits, Fleet!Scoped
  <2>5. \A q \in wire' : q \in wire \/ q = [r EXCEPT !.phase = "error"] \/ q = [r EXCEPT !.who = "gone"]
    BY <1>7 DEF Fleet!AttachTimesOut
  <2>6. wire' \subseteq Fleet!Requests /\ \A q \in wire' : Fleet!Scoped(q)
    BY <2>3, <2>4, <2>5 DEF Fleet!TypeOK, Fleet!WellTyped
  <2> QED
    BY <2>1, <2>6, FleetServerType DEF Fleet!TypeOK
<1>8. CASE Fleet!ServeConfirm(r)
  <2>1. [db EXCEPT ![r.id].pending = {}, ![r.id].status = "ACTIVE"] \in [Staff -> Fleet!Row]
    BY <1>2 DEF Fleet!Row, Fleet!Status
  <2> QED
    BY <1>2, <1>4, <1>8, <2>1 DEF Fleet!ServeConfirm, Fleet!TypeOK
<1>9. CASE Fleet!ServeVehicle(r)
  <2>1. [db EXCEPT ![r.id].state = "active"] \in [Staff -> Fleet!Row]
    BY <1>2 DEF Fleet!Row, Fleet!States
  <2> QED
    BY <1>4, <1>9, <2>1 DEF Fleet!ServeVehicle, Fleet!TypeOK
<1>10. CASE Fleet!RemoveVehicle(r)
  <2>1. [db[r.id] EXCEPT !.state = "gone"] \in Fleet!Row
    BY <1>2 DEF Fleet!Row, Fleet!States
  <2> QED
    BY <1>2, <1>4, <1>10, <2>1 DEF Fleet!RemoveVehicle, Fleet!ServeRemoval, Fleet!TypeOK
<1>11. CASE Fleet!TakeOffRoad(r)
  <2>1. db' \in [Staff -> Fleet!Row]
    BY <1>2, <1>11 DEF Fleet!TakeOffRoad, Fleet!Row, Fleet!Status
  <2>2. wire' \subseteq wire /\ UNCHANGED <<shown, due, dialog, form, hist>>
    BY <1>11 DEF Fleet!TakeOffRoad
  <2>3. wire' \subseteq Fleet!Requests /\ \A q \in wire' : Fleet!Scoped(q)
    BY <2>2 DEF Fleet!TypeOK, Fleet!WellTyped
  <2> QED
    BY <2>1, <2>2, <2>3, FleetServerType DEF Fleet!TypeOK
<1> QED
  BY <1>1, <1>3, <1>5, <1>6, <1>7, <1>8, <1>9, <1>10, <1>11

\* The page hears of it; the workshop.
LEMMA FleetHearingTypes ==
  ASSUME Fleet!TypeOK, Fleet!StaffAssumption,
         \/ \E r \in wire : Fleet!Succeed(r) \/ Fleet!Fail(r)
         \/ \E d \in Staff : Fleet!ScheduleService(d)
  PROVE  Fleet!TypeOK'
<1>1. ASSUME NEW r \in wire, Fleet!Succeed(r)
      PROVE  Fleet!TypeOK'
  <2>1. r.id \in Staff
    BY FleetKindsOf DEF Fleet!TypeOK
  <2>2. form' \in Fleet!Forms
    BY <1>1, FleetClearedType DEF Fleet!Succeed, Fleet!TypeOK
  <2>3. hist' \in Fleet!Hists
    BY <1>1, <2>1 DEF Fleet!Succeed, Fleet!TypeOK, Fleet!Hists
  <2>4. dialog' = None \/ dialog' = dialog
    BY <1>1 DEF Fleet!Succeed
  <2>5. wire' \subseteq wire /\ due' \subseteq {"list"} /\ UNCHANGED <<db, shown>>
    BY <1>1 DEF Fleet!Succeed, Fleet!Settle, Fleet!Invalidate, Fleet!TypeOK, Fleet!WellTyped
  <2>6. Fleet!Rows' = Fleet!Rows /\ \A q : Fleet!Scoped(q)' <=> Fleet!Scoped(q)
    BY <2>5 DEF Fleet!Rows, Fleet!Scoped
  <2> QED
    BY <2>2, <2>3, <2>4, <2>5, <2>6 DEF Fleet!TypeOK, Fleet!WellTyped
<1>2. ASSUME NEW r \in wire, Fleet!Fail(r)
      PROVE  Fleet!TypeOK'
  <2>1. wire' \subseteq wire /\ UNCHANGED <<db, shown, due, dialog, form, hist>>
    BY <1>2 DEF Fleet!Fail, Fleet!Settle
  <2>3. wire' \subseteq Fleet!Requests /\ \A q \in wire' : Fleet!Scoped(q)
    BY <2>1 DEF Fleet!TypeOK, Fleet!WellTyped
  <2> QED
    BY <2>1, <2>3, FleetServerType DEF Fleet!TypeOK
<1>3. ASSUME NEW d \in Staff, Fleet!ScheduleService(d)
      PROVE  Fleet!TypeOK'
  <2> DEFINE r == [kind |-> "service", who |-> "other", id |-> d, phase |-> "saved"]
  <2>1. hist.stamp \in 0..MaxStamp /\ hist.stamp < MaxStamp
    BY <1>3 DEF Fleet!ScheduleService, Fleet!TypeOK, Fleet!Hists
  <2>2. db' \in [Staff -> Fleet!Row]
    BY <1>3, <2>1 DEF Fleet!ScheduleService, Fleet!TypeOK, Fleet!Row, Fleet!StaffAssumption
  <2>3. hist' \in Fleet!Hists
    <3>1. hist.stamp + 1 \in 0..MaxStamp /\ hist.sends + 1 \in 0..MaxSends
      BY <1>3, <2>1 DEF Fleet!ScheduleService, Fleet!TypeOK, Fleet!Hists, Fleet!StaffAssumption
    <3> QED
      BY <1>3, <3>1 DEF Fleet!ScheduleService, Fleet!TypeOK, Fleet!Hists
  <2>4. r \in Fleet!Requests /\ Fleet!Scoped(r)
    BY DEF Fleet!Requests, Fleet!Services, Fleet!Scoped
  <2>5. wire' = wire \cup {r} /\ UNCHANGED <<shown, due, dialog, form>>
    BY <1>3 DEF Fleet!ScheduleService
  <2> HIDE DEF r
  <2>6. wire' \subseteq Fleet!Requests /\ \A q \in wire' : Fleet!Scoped(q)
    BY <2>4, <2>5 DEF Fleet!TypeOK, Fleet!WellTyped
  <2> QED
    BY <2>2, <2>3, <2>5, <2>6, FleetServerType DEF Fleet!TypeOK
<1> QED
  BY <1>1, <1>2, <1>3

LEMMA FleetNextType ==
  ASSUME Fleet!TypeOK, Fleet!StaffAssumption, [Fleet!Next]_deskVars
  PROVE  Fleet!TypeOK'
<1>1. CASE UNCHANGED deskVars
  BY <1>1 DEF deskVars, Fleet!TypeOK, Fleet!WellTyped, Fleet!Rows, Fleet!Scoped
<1>2. CASE Fleet!Next
  BY <1>2, FleetBrowsingTypes, FleetFormTypes, FleetSendingTypes, FleetServerTypes, FleetHearingTypes DEF Fleet!Next
<1> QED
  BY <1>1, <1>2
\* ---- what the steps do ------------------------------------------------------------------

\* The steps that leave the rows and the list on the page alone.
FleetPageStep ==
    \/ Fleet!BrowseVehicles \/ Fleet!OpenWizard \/ Fleet!CloseDialog \/ Fleet!GiveUp
    \/ Fleet!BackToVehiclePicker \/ Fleet!TypeIntoVehicle \/ Fleet!PickInsuranceFile \/ Fleet!UpdateVehicle
    \/ Fleet!EditViewed \/ Fleet!FillVehicleStep \/ Fleet!NextVehicleStep \/ Fleet!ConfirmRemoval
           \/ Fleet!ConfirmAvailable
    \/ \E d \in DOMAIN Fleet!Rows : Fleet!RowButtons(d) \/ Fleet!HandleToggleAvailability(d)
    \/ \E s \in FleetSections : Fleet!ChooseVehicleSection(s)
    \/ \E i \in 0..Fleet!LastStep : Fleet!GoToVehicleStep(i)
    \/ \E d \in Staff : Fleet!SubmitVehicle(d)
    \/ \E r \in wire : Fleet!Fail(r)

\* The requests' part of ToggleInv, one by one.
FleetAllowed(q) ==
    q.phase \in {"sent", "read"} =>
        /\ q.kind = "toggle" /\ q.status = "ACTIVE" => q.seen = {}
        /\ q.kind = "update" /\ q.status # None => q.section = "operational"

\* One request holds what the other does.
FleetAlike(q, p) ==
    /\ q.kind = p.kind /\ q.id = p.id /\ (q.phase = p.phase \/ {q.phase, p.phase} \subseteq {"sent", "read"})
    /\ q.kind \in {"update", "toggle"} /\ q.phase \in {"sent", "read"} =>
         q.status = p.status /\ q.section = p.section
    /\ q.kind = "toggle" /\ q.phase \in {"sent", "read"} => q.seen = p.seen

LEMMA FleetAlikeAllowed ==
  ASSUME NEW p, FleetAllowed(p), NEW q, FleetAlike(q, p)
  PROVE  FleetAllowed(q)
BY DEF FleetAllowed, FleetAlike

LEMMA FleetSendStep ==
  ASSUME Fleet!TypeOK, Fleet!StaffAssumption, FleetPageStep
  PROVE  /\ UNCHANGED <<db, shown>> /\ due \subseteq due'
         /\ hist'.removed = hist.removed /\ hist'.stale = hist.stale
         /\ \A q \in wire' : q \in wire \/ (q.phase = "sent" /\ FleetAllowed(q)) \/ \E p \in wire : FleetAlike(q, p)
<1> DEFINE Goal == /\ UNCHANGED <<db, shown>> /\ due \subseteq due'
                   /\ hist'.removed = hist.removed /\ hist'.stale = hist.stale
                   /\ \A q \in wire' : \/ q \in wire \/ (q.phase = "sent" /\ FleetAllowed(q))
                                       \/ \E p \in wire : FleetAlike(q, p)
<1> SUFFICES Goal
  OBVIOUS
<1>0. hist \in Fleet!Hists
  BY DEF Fleet!TypeOK
<1>1. ASSUME wire' = wire, UNCHANGED <<db, shown>>, due \subseteq due', hist' = hist
      PROVE  Goal
  BY <1>0, <1>1
<1>2. CASE Fleet!TypeIntoVehicle
  BY <1>0, <1>2 DEF Fleet!TypeIntoVehicle, Fleet!TypeText, Fleet!Hists
<1>3. ASSUME NEW d, Fleet!Open(d)
      PROVE  Goal
  BY <1>0, <1>3 DEF Fleet!Open, Fleet!Hists
<1>4. ASSUME NEW r, r.phase = "sent", FleetAllowed(r), Fleet!Send(r), UNCHANGED <<db, shown, due>>
      PROVE  Goal
  BY <1>0, <1>4 DEF Fleet!Send, Fleet!Hists
<1>5. CASE Fleet!BrowseVehicles
  BY <1>1, <1>5 DEF Fleet!BrowseVehicles, Fleet!Browse, Fleet!Ask
<1>6. CASE Fleet!CloseDialog \/ Fleet!BackToVehiclePicker \/ Fleet!EditViewed \/ Fleet!FillVehicleStep
               \/ Fleet!NextVehicleStep \/ Fleet!PickInsuranceFile
           \/ (\E s \in FleetSections : Fleet!ChooseVehicleSection(s))
                  \/ \E i \in 0..Fleet!LastStep : Fleet!GoToVehicleStep(i)
  BY <1>1, <1>6 DEF Fleet!CloseDialog, Fleet!BackToVehiclePicker, Fleet!BackToPicker, Fleet!EditViewed,
     Fleet!FillVehicleStep, Fleet!FillStep,
     Fleet!NextVehicleStep, Fleet!HandleNext, Fleet!PickInsuranceFile, Fleet!ChooseVehicleSection,
         Fleet!ChooseEditSection, Fleet!GoToVehicleStep, Fleet!GoToStep
<1>7. CASE Fleet!OpenWizard \/ \E d \in DOMAIN Fleet!Rows : Fleet!RowButtons(d)
  BY <1>3, <1>7 DEF Fleet!OpenWizard, Fleet!RowButtons, Fleet!OpenEditPicker, Fleet!OpenRemoval
<1>8. CASE Fleet!ConfirmRemoval
  <2>1. PICK r : r = [kind |-> "delete", who |-> "desk", id |-> dialog.id, phase |-> "sent"]
    OBVIOUS
  <2>2. r.phase = "sent" /\ FleetAllowed(r)
    BY <2>1 DEF FleetAllowed
  <2>3. Fleet!Send(r) /\ UNCHANGED <<db, shown, due>>
    BY <1>8, <2>1 DEF Fleet!ConfirmRemoval, Fleet!SubmitRemoval
  <2> HIDE DEF Goal
  <2> QED
    BY <1>4, <2>2, <2>3
<1>9. CASE Fleet!ConfirmAvailable
  <2>1. PICK r : r = [kind |-> "confirm", who |-> "desk", id |-> dialog.id, phase |-> "sent"]
    OBVIOUS
  <2>2. r.phase = "sent" /\ FleetAllowed(r)
    BY <2>1 DEF FleetAllowed
  <2>3. Fleet!Send(r) /\ UNCHANGED <<db, shown, due>>
    BY <1>9, <2>1 DEF Fleet!ConfirmAvailable
  <2> HIDE DEF Goal
  <2> QED
    BY <1>4, <2>2, <2>3
<1>10. CASE Fleet!UpdateVehicle
  <2>1. PICK P : P = [s \in {t \in {dialog.section} : t = "insurance" => dialog.text[t] # 0} |-> dialog.text[s]]
    OBVIOUS
  <2>2. PICK status \in IF dialog.section = "operational" THEN {dialog.seen.status, "ACTIVE"} ELSE {None} :
            Fleet!Send([kind |-> "update", who |-> "desk", id |-> dialog.id, phase |-> "sent",
                  section |-> dialog.section, photo |-> form.file, status |-> status,
                  row |-> None, payload |-> P])
    BY <1>10, <2>1 DEF Fleet!UpdateVehicle
  <2>3. PICK r : r = [kind |-> "update", who |-> "desk", id |-> dialog.id, phase |-> "sent",
                      section |-> dialog.section, photo |-> form.file, status |-> status,
                      row |-> None, payload |-> P]
    OBVIOUS
  <2>4. r.phase = "sent" /\ FleetAllowed(r)
    BY <2>2, <2>3 DEF FleetAllowed
  <2>5. Fleet!Send(r) /\ UNCHANGED <<db, shown, due>>
    BY <1>10, <2>2, <2>3 DEF Fleet!UpdateVehicle
  <2> HIDE DEF Goal
  <2> QED
    BY <1>4, <2>4, <2>5
<1>11. ASSUME NEW d \in DOMAIN Fleet!Rows, Fleet!HandleToggleAvailability(d)
       PROVE  Goal
  <2>1. CASE Fleet!NeedsConfirming(d)
    <3> HIDE DEF Goal
    <3> QED
      BY <1>3, <1>11, <2>1 DEF Fleet!HandleToggleAvailability
  <2>2. CASE ~Fleet!NeedsConfirming(d)
    <3>1. PICK r : r = [kind |-> "toggle", who |-> "desk", id |-> d, phase |-> "sent", section |-> None,
                        seen |-> Fleet!Rows[d].pending, payload |-> [s \in {} |-> 0], row |-> None,
                        status |-> IF Fleet!Rows[d].status = "ACTIVE" THEN "INACTIVE" ELSE "ACTIVE", photo |-> None]
      OBVIOUS
    <3>2. r.phase = "sent" /\ FleetAllowed(r)
      BY <2>2, <3>1 DEF FleetAllowed, Fleet!NeedsConfirming
    <3>3. Fleet!Send(r) /\ UNCHANGED <<db, shown, due>>
      BY <1>11, <2>2, <3>1 DEF Fleet!HandleToggleAvailability
    <3> HIDE DEF Goal
    <3> QED
      BY <1>4, <3>2, <3>3
  <2> HIDE DEF Goal
  <2> QED
    BY <2>1, <2>2
<1>12. ASSUME NEW d \in Staff, Fleet!SubmitVehicle(d)
       PROVE  Goal
  <2>1. PICK copy \in Fleet!FreshCopies :
            Fleet!SubmitWizard([kind |-> "create", who |-> "desk", id |-> d, copy |-> copy, field |-> None,
                phase |-> "sent"])
    BY <1>12 DEF Fleet!SubmitVehicle
  <2> DEFINE r == [kind |-> "create", who |-> "desk", id |-> d, copy |-> copy, field |-> None, phase |-> "sent"]
  <2>2. r.phase = "sent" /\ FleetAllowed(r) /\ Fleet!Send(r)
    BY <2>1 DEF FleetAllowed, Fleet!SubmitWizard, Fleet!Send
  <2>3. UNCHANGED <<db, shown, due>>
    BY <1>12 DEF Fleet!SubmitVehicle
  <2> HIDE DEF r, Goal
  <2> QED
    BY <1>4, <2>2, <2>3
<1>13. CASE Fleet!GiveUp
  <2>1. PICK r \in wire : /\ r.phase \in {"sent", "read"}
                          /\ wire' = wire \ {r} \/ wire' = (wire \ {r}) \cup {[r EXCEPT !.who = "gone"]}
                          /\ UNCHANGED <<db, shown, due, dialog, form, hist>>
    BY <1>13 DEF Fleet!GiveUp, Fleet!Replace
  <2>2. r \in Fleet!Requests
    BY DEF Fleet!TypeOK
  <2>3. FleetAlike([r EXCEPT !.who = "gone"], r)
    <3>1. CASE r.kind \in {"create", "delete", "confirm"}
      BY <2>1, <2>2, <3>1, FleetKindsOf DEF FleetAlike, Fleet!Creates, Fleet!CreateAnswers, Fleet!Deletes,
         Fleet!Confirms
    <3>2. CASE r.kind = "update"
      BY <2>1, <2>2, <3>2, FleetKindsOf DEF FleetAlike, Fleet!EditsIn
    <3>3. CASE r.kind = "toggle"
      BY <2>1, <2>2, <3>3, FleetKindsOf DEF FleetAlike, Fleet!TogglesIn
    <3> QED
      BY <2>1, <2>2, <3>1, <3>2, <3>3, FleetKindsOf
  <2> QED
    BY <1>0, <2>1, <2>3
<1>14. ASSUME NEW r \in wire, Fleet!Fail(r)
       PROVE  Goal
  BY <1>0, <1>14 DEF Fleet!Fail, Fleet!Settle
<1> HIDE DEF Goal
<1> QED
  BY <1>2, <1>5, <1>6, <1>7, <1>8, <1>9, <1>10, <1>11, <1>12, <1>13, <1>14 DEF FleetPageStep

\* What an answer says.
LEMMA FleetToldIs ==
  ASSUME NEW r, NEW phase
  PROVE  Fleet!Told(r, phase).kind = r.kind /\ Fleet!Told(r, phase).phase = phase /\ Fleet!Told(r, phase).id = r.id
BY DEF Fleet!Told

\* What the server does of a request, and what it leaves of it.
LEMMA FleetServedStep ==
  ASSUME Fleet!TypeOK, NEW r \in wire,
         \/ Fleet!ReadForUpdate(r) \/ Fleet!SaveVehicle(r) \/ Fleet!AttachDocumentFile(r) \/ Fleet!AttachTimesOut(r)
         \/ Fleet!ServeConfirm(r) \/ Fleet!ServeVehicle(r) \/ Fleet!RemoveVehicle(r) \/ Fleet!TakeOffRoad(r)
  PROVE  /\ UNCHANGED <<shown, due, dialog, form>> /\ hist'.removed = hist.removed
         /\ hist.stale \subseteq hist'.stale
         /\ r.kind = "delete" => (r.phase = "sent"
                /\ (db'[r.id].state = "gone" \/ wire' \subseteq wire \cup {Fleet!Told(r, "error")}))
         /\ \A q \in wire' : \/ q \in wire \/ q.phase \in {"saved", "error"} \/ q = Fleet!Told(r, "ok")
                                 \/ FleetAlike(q, r)
<1>0. r \in Fleet!Requests /\ r.id \in Staff /\ hist \in Fleet!Hists /\ db \in [Staff -> Fleet!Row]
  BY FleetKindsOf DEF Fleet!TypeOK
<1>1. ASSUME NEW phase, Fleet!Reply(r, phase)
      PROVE  \A q \in wire' : q \in wire \/ q = Fleet!Told(r, phase)
  BY <1>1 DEF Fleet!Reply
<1>2. CASE Fleet!ReadForUpdate(r)
  <2>1. r.kind \in {"update", "toggle"} /\ r.phase = "sent" /\ UNCHANGED <<db, shown, due, dialog, form, hist>>
    BY <1>2 DEF Fleet!ReadForUpdate, Fleet!Read
  <2>2. FleetAlike([r EXCEPT !.phase = "read", !.row = db[r.id]], r)
    <3>1. CASE r.kind = "update"
      <4>1. r \in Fleet!EditsIn({"sent"}, {None})
        BY <1>0, <2>1, <3>1, FleetKindsOf
      <4> QED
        BY <4>1 DEF Fleet!EditsIn, FleetAlike
    <3>2. CASE r.kind = "toggle"
      <4>1. r \in Fleet!TogglesIn("sent", {None})
        BY <1>0, <2>1, <3>2, FleetKindsOf
      <4> QED
        BY <4>1 DEF Fleet!TogglesIn, FleetAlike
    <3> QED
      BY <2>1, <3>1, <3>2
  <2>3. \A q \in wire' : q \in wire \/ q = [r EXCEPT !.phase = "read", !.row = db[r.id]]
            \/ q = Fleet!Told(r, "error")
    BY <1>1, <1>2 DEF Fleet!ReadForUpdate, Fleet!Read, Fleet!Replace
  <2> QED
    BY <1>0, <2>1, <2>2, <2>3, FleetToldIs
<1>3. CASE Fleet!SaveVehicle(r)
  <2>1. r.kind \in {"update", "toggle"} /\ r.phase = "read" /\ UNCHANGED <<shown, due, dialog, form>>
    BY <1>3 DEF Fleet!SaveVehicle
  <2>2. hist'.removed = hist.removed /\ hist.stale \subseteq hist'.stale
    BY <1>0, <1>3 DEF Fleet!SaveVehicle, Fleet!Hists
  <2>3. [r EXCEPT !.phase = "saved"].phase = "saved"
    <3>1. r \in Fleet!EditsIn({"read", "saved", "error"}, Fleet!Row) \/ r \in Fleet!TogglesIn("read", Fleet!Row)
      BY <1>0, <2>1, FleetKindsOf
    <3> QED
      BY <3>1 DEF Fleet!EditsIn, Fleet!TogglesIn
  <2>4. \A q \in wire' : q \in wire \/ q = [r EXCEPT !.phase = "saved"] \/ q = Fleet!Told(r, "ok")
    BY <1>1, <1>3 DEF Fleet!SaveVehicle, Fleet!Replace
  <2> QED
    BY <2>1, <2>2, <2>3, <2>4
<1>4. CASE Fleet!AttachTimesOut(r)
  <2>1. r \in Fleet!EditsIn({"read", "saved", "error"}, Fleet!Row) /\ r.kind = "update" /\ r.phase = "saved"
    BY <1>0, <1>4, FleetKindsOf DEF Fleet!AttachTimesOut
  <2>2. [r EXCEPT !.phase = "error"].phase = "error" /\ [r EXCEPT !.who = "gone"].phase = "saved"
    BY <2>1 DEF Fleet!EditsIn
  <2> QED
    BY <1>0, <1>4, <2>1, <2>2 DEF Fleet!AttachTimesOut
<1>5. CASE Fleet!AttachDocumentFile(r) \/ Fleet!ServeConfirm(r) \/ Fleet!ServeVehicle(r)
  <2>1. r.kind # "delete" /\ UNCHANGED <<shown, due, dialog, form, hist>>
            /\ (Fleet!Reply(r, "ok") \/ Fleet!Reply(r, "error"))
    BY <1>5 DEF Fleet!AttachDocumentFile, Fleet!ServeConfirm, Fleet!ServeVehicle
  <2> QED
    BY <1>0, <1>1, <2>1, FleetToldIs
<1>6. CASE Fleet!RemoveVehicle(r)
  <2>1. r.phase = "sent" /\ UNCHANGED <<shown, due, dialog, form, hist>>
    BY <1>6 DEF Fleet!RemoveVehicle, Fleet!ServeRemoval
  <2>2. (db' = [db EXCEPT ![r.id] = [db[r.id] EXCEPT !.state = "gone"]] /\ Fleet!Reply(r, "ok"))
            \/ Fleet!Reply(r, "error")
    BY <1>6 DEF Fleet!RemoveVehicle, Fleet!ServeRemoval
  <2>3. CASE db' = [db EXCEPT ![r.id] = [db[r.id] EXCEPT !.state = "gone"]] /\ Fleet!Reply(r, "ok")
    <3>1. db'[r.id].state = "gone"
      BY <1>0, <2>3 DEF Fleet!Row
    <3> QED
      BY <1>0, <1>1, <2>1, <2>3, <3>1
  <2>4. CASE Fleet!Reply(r, "error")
    <3>1. \A q \in wire' : q \in wire \/ q = Fleet!Told(r, "error")
      BY <1>1, <2>4
    <3> QED
      BY <1>0, <2>1, <3>1, FleetToldIs
  <2> QED
    BY <2>2, <2>3, <2>4
<1>7. CASE Fleet!TakeOffRoad(r)
  BY <1>0, <1>7 DEF Fleet!TakeOffRoad
<1> QED
  BY <1>2, <1>3, <1>4, <1>5, <1>6, <1>7
\* ---- removals ---------------------------------------------------------------------------

\* Nothing brings a removed vehicle back but a save over a stale row.
LEMMA FleetGoneStays ==
  ASSUME Fleet!TypeOK, NEW r \in wire, NEW d \in Staff, Fleet!GoneOrStale(d),
         \/ Fleet!ReadForUpdate(r) \/ Fleet!SaveVehicle(r) \/ Fleet!AttachDocumentFile(r) \/ Fleet!AttachTimesOut(r)
         \/ Fleet!ServeConfirm(r) \/ Fleet!ServeVehicle(r) \/ Fleet!RemoveVehicle(r) \/ Fleet!TakeOffRoad(r)
  PROVE  Fleet!GoneOrStale(d)'
<1>0. r \in Fleet!Requests /\ r.id \in Staff /\ hist \in Fleet!Hists /\ db \in [Staff -> Fleet!Row]
  BY FleetKindsOf DEF Fleet!TypeOK
<1>1. ASSUME hist' = hist, db'[d].state = db[d].state \/ db'[d].state = "gone" \/ db[d].state = "none"
      PROVE  Fleet!GoneOrStale(d)'
  BY <1>1 DEF Fleet!GoneOrStale
<1>2. CASE Fleet!SaveVehicle(r)
  <2>1. r.kind \in {"update", "toggle"} /\ r.phase = "read" /\ r.row.state = "active"
    BY <1>2 DEF Fleet!SaveVehicle, Fleet!TypeOK, Fleet!WellTyped, Fleet!Scoped
  <2>2. hist'.stale = hist.stale \cup Fleet!StaleIds(r)
    BY <1>0, <1>2 DEF Fleet!SaveVehicle, Fleet!Hists
  <2>3. d # r.id => db'[d] = db[d]
    BY <1>0, <1>2 DEF Fleet!SaveVehicle
  <2> QED
    BY <2>1, <2>2, <2>3 DEF Fleet!GoneOrStale, Fleet!StaleIds
<1>3. CASE Fleet!ReadForUpdate(r) \/ Fleet!AttachTimesOut(r)
  BY <1>1, <1>3 DEF Fleet!ReadForUpdate, Fleet!Read, Fleet!AttachTimesOut
<1>4. CASE Fleet!AttachDocumentFile(r) \/ Fleet!ServeConfirm(r) \/ Fleet!TakeOffRoad(r)
  <2>1. hist' = hist
    BY <1>4 DEF Fleet!AttachDocumentFile, Fleet!ServeConfirm, Fleet!TakeOffRoad
  <2>2. db'[d].state = db[d].state
    BY <1>0, <1>4 DEF Fleet!AttachDocumentFile, Fleet!ServeConfirm, Fleet!TakeOffRoad, Fleet!Row
  <2> QED
    BY <1>1, <2>1, <2>2
<1>5. CASE Fleet!ServeVehicle(r) \/ Fleet!RemoveVehicle(r)
  <2>1. hist' = hist
    BY <1>5 DEF Fleet!ServeVehicle, Fleet!RemoveVehicle, Fleet!ServeRemoval
  <2>2. db'[d].state = db[d].state \/ db'[d].state = "gone" \/ db[d].state = "none"
    BY <1>0, <1>5 DEF Fleet!ServeVehicle, Fleet!RemoveVehicle, Fleet!ServeRemoval, Fleet!Row
  <2> QED
    BY <1>1, <2>1, <2>2
<1> QED
  BY <1>2, <1>3, <1>4, <1>5

\* A step that keeps what is gone, and says so of the removals it answers.
LEMMA FleetRemovedKept ==
  ASSUME Fleet!TypeOK, Fleet!RemovedInv, \A d \in Staff : Fleet!GoneOrStale(d) => Fleet!GoneOrStale(d)',
         hist.stale \subseteq hist'.stale, hist'.removed = hist.removed, UNCHANGED shown, due \subseteq due',
         \A q \in wire' : \/ q \in wire \/ q.kind # "delete" \/ q.phase # "ok"
                          \/ Fleet!GoneOrStale(q.id)' \/ \E p \in wire : FleetAlike(q, p)
  PROVE  Fleet!RemovedInv'
<1>1. \A d \in hist.removed : d \in Staff
  BY DEF Fleet!TypeOK, Fleet!Hists
<1>2. \A p \in wire : p.id \in Staff
  BY FleetKindsOf DEF Fleet!TypeOK
<1>3. \A d \in hist'.removed : Fleet!GoneOrStale(d)'
  BY <1>1 DEF Fleet!RemovedInv
<1>4. ASSUME NEW q \in wire', q.kind = "delete", q.phase = "ok"
      PROVE  Fleet!GoneOrStale(q.id)'
  BY <1>2, <1>4 DEF Fleet!RemovedInv, FleetAlike
<1>5. Fleet!RestingListKnowsRemoved'
  BY DEF Fleet!RemovedInv, Fleet!RestingListKnowsRemoved, Fleet!Rows
<1> QED
  BY <1>3, <1>4, <1>5 DEF Fleet!RemovedInv

LEMMA FleetRemovedStep ==
  ASSUME Fleet!TypeOK, Fleet!StaffAssumption, Fleet!RemovedInv, [Fleet!Next]_deskVars
  PROVE  Fleet!RemovedInv'
<1>1. CASE UNCHANGED deskVars
  BY <1>1 DEF deskVars, Fleet!RemovedInv, Fleet!GoneOrStale, Fleet!RestingListKnowsRemoved, Fleet!Rows
<1>2. CASE FleetPageStep
  <2>1. \A d : Fleet!GoneOrStale(d)' <=> Fleet!GoneOrStale(d)
    BY <1>2, FleetSendStep DEF Fleet!GoneOrStale
  <2> QED
    BY <1>2, <2>1, FleetSendStep, FleetRemovedKept
<1>3. CASE Fleet!RefreshVehicles
  <2>1. Fleet!Rows' = Fleet!Listing /\ UNCHANGED <<db, wire, hist>>
    BY <1>3 DEF Fleet!RefreshVehicles, Fleet!Refresh, Fleet!Arrive, Fleet!TypeOK, Fleet!Rows
  <2>2. \A d : Fleet!GoneOrStale(d)' <=> Fleet!GoneOrStale(d)
    BY <2>1 DEF Fleet!GoneOrStale
  <2>3. Fleet!RestingListKnowsRemoved'
    BY <2>1 DEF Fleet!RestingListKnowsRemoved, Fleet!Listing, Fleet!Active, Fleet!RemovedInv, Fleet!GoneOrStale
  <2> QED
    BY <2>1, <2>2, <2>3 DEF Fleet!RemovedInv
<1>4. ASSUME NEW r \in wire, Fleet!Succeed(r)
      PROVE  Fleet!RemovedInv'
  <2>1. wire' \subseteq wire /\ due' # {} /\ UNCHANGED <<db, shown>>
    BY <1>4 DEF Fleet!Succeed, Fleet!Settle, Fleet!Invalidate
  <2>2. hist'.stale = hist.stale
    BY <1>4 DEF Fleet!Succeed, Fleet!TypeOK, Fleet!Hists
  <2>3. \A d \in hist'.removed : d \in hist.removed \/ (d = r.id /\ r.kind = "delete" /\ r.phase = "ok")
    BY <1>4 DEF Fleet!Succeed, Fleet!TypeOK, Fleet!Hists
  <2>4. \A d : Fleet!GoneOrStale(d)' <=> Fleet!GoneOrStale(d)
    BY <2>1, <2>2 DEF Fleet!GoneOrStale
  <2> QED
    BY <2>1, <2>3, <2>4 DEF Fleet!RemovedInv, Fleet!RestingListKnowsRemoved
<1>5. ASSUME NEW d \in Staff, Fleet!ScheduleService(d)
      PROVE  Fleet!RemovedInv'
  <2>1. UNCHANGED <<shown, due>> /\ hist'.stale = hist.stale /\ hist'.removed = hist.removed
    BY <1>5 DEF Fleet!ScheduleService, Fleet!TypeOK, Fleet!Hists
  <2>2. \A e \in Staff : db'[e].state = db[e].state
    BY <1>5 DEF Fleet!ScheduleService, Fleet!TypeOK, Fleet!Row
  <2>3. \A e \in Staff : Fleet!GoneOrStale(e) => Fleet!GoneOrStale(e)'
    BY <2>1, <2>2 DEF Fleet!GoneOrStale
  <2>4. \A q \in wire' : q \in wire \/ q.kind # "delete"
    BY <1>5 DEF Fleet!ScheduleService
  <2> QED
    BY <2>1, <2>3, <2>4, FleetRemovedKept
<1>6. ASSUME NEW r \in wire,
             \/ Fleet!ReadForUpdate(r) \/ Fleet!SaveVehicle(r) \/ Fleet!AttachDocumentFile(r)
                    \/ Fleet!AttachTimesOut(r)
             \/ Fleet!ServeConfirm(r) \/ Fleet!ServeVehicle(r) \/ Fleet!RemoveVehicle(r) \/ Fleet!TakeOffRoad(r)
      PROVE  Fleet!RemovedInv'
  <2>1. \A d \in Staff : Fleet!GoneOrStale(d) => Fleet!GoneOrStale(d)'
    BY <1>6, FleetGoneStays
  <2>2. /\ UNCHANGED <<shown, due>> /\ hist'.removed = hist.removed /\ hist.stale \subseteq hist'.stale
        /\ r.kind = "delete" => (r.phase = "sent"
               /\ (db'[r.id].state = "gone" \/ wire' \subseteq wire \cup {Fleet!Told(r, "error")}))
        /\ \A q \in wire' : \/ q \in wire \/ q.phase \in {"saved", "error"} \/ q = Fleet!Told(r, "ok")
                                \/ FleetAlike(q, r)
    BY <1>6, FleetServedStep
  <2>3. \A q \in wire' : \/ q \in wire \/ q.kind # "delete" \/ q.phase # "ok"
                         \/ Fleet!GoneOrStale(q.id)' \/ \E p \in wire : FleetAlike(q, p)
    BY <2>2, FleetToldIs DEF Fleet!GoneOrStale
  <2> QED
    BY <2>1, <2>2, <2>3, FleetRemovedKept
<1>7. CASE Fleet!Next
  BY <1>2, <1>3, <1>4, <1>5, <1>6, <1>7 DEF Fleet!Next, FleetPageStep
<1> QED
  BY <1>1, <1>7

\* ---- what may put a vehicle back --------------------------------------------------------

LEMMA FleetToggleStep ==
  ASSUME Fleet!TypeOK, Fleet!StaffAssumption, Fleet!ToggleInv, [Fleet!Next]_deskVars
  PROVE  Fleet!ToggleInv'
<1>0. \A q \in wire : FleetAllowed(q)
  BY DEF Fleet!ToggleInv, FleetAllowed
<1>1. SUFFICES \A q \in wire' : FleetAllowed(q)
  BY DEF Fleet!ToggleInv, FleetAllowed
<1>2. CASE UNCHANGED deskVars
  BY <1>0, <1>2 DEF deskVars
<1>3. CASE FleetPageStep
  BY <1>0, <1>3, FleetSendStep, FleetAlikeAllowed
<1>4. CASE Fleet!RefreshVehicles
  BY <1>0, <1>4 DEF Fleet!RefreshVehicles, Fleet!Refresh, Fleet!Arrive
<1>5. ASSUME NEW r \in wire, Fleet!Succeed(r)
      PROVE  \A q \in wire' : FleetAllowed(q)
  BY <1>0, <1>5 DEF Fleet!Succeed, Fleet!Settle
<1>6. ASSUME NEW d \in Staff, Fleet!ScheduleService(d)
      PROVE  \A q \in wire' : FleetAllowed(q)
  BY <1>0, <1>6 DEF Fleet!ScheduleService, FleetAllowed
<1>7. ASSUME NEW r \in wire,
             \/ Fleet!ReadForUpdate(r) \/ Fleet!SaveVehicle(r) \/ Fleet!AttachDocumentFile(r)
                    \/ Fleet!AttachTimesOut(r)
             \/ Fleet!ServeConfirm(r) \/ Fleet!ServeVehicle(r) \/ Fleet!RemoveVehicle(r) \/ Fleet!TakeOffRoad(r)
      PROVE  \A q \in wire' : FleetAllowed(q)
  <2>1. \A q \in wire' : \/ q \in wire \/ q.phase \in {"saved", "error"} \/ q = Fleet!Told(r, "ok")
                             \/ FleetAlike(q, r)
    BY <1>7, FleetServedStep
  <2>2. \A q : q.phase \in {"saved", "error", "ok"} => FleetAllowed(q)
    BY DEF FleetAllowed
  <2> QED
    BY <1>0, <2>1, <2>2, FleetAlikeAllowed, FleetToldIs
<1>8. CASE Fleet!Next
  BY <1>3, <1>4, <1>5, <1>6, <1>7, <1>8 DEF Fleet!Next, FleetPageStep
<1> QED
  BY <1>2, <1>8

\* ---- what the sections and the services are promised --------------------------------------

\* The vehicle a save has read, and what it makes of it.
LEMMA FleetSaveStep ==
  ASSUME Fleet!TypeOK, NEW r \in wire, Fleet!SaveVehicle(r)
  PROVE  /\ r.phase = "read" /\ r.kind \in {"update", "toggle"} /\ r \notin wire'
         /\ db'[r.id] = Fleet!Written(r) /\ \A d \in Staff : d # r.id => db'[d] = db[d]
<1>1. r.kind \in {"update", "toggle"} /\ r.phase = "read" /\ r.id \in Staff
  BY FleetWrittenType DEF Fleet!SaveVehicle
<1>2. [r EXCEPT !.phase = "saved"].phase = "saved"
  <2>1. r \in Fleet!EditsIn({"read", "saved", "error"}, Fleet!Row) \/ r \in Fleet!TogglesIn("read", Fleet!Row)
    BY <1>1, FleetKindsOf DEF Fleet!TypeOK
  <2> QED
    BY <2>1 DEF Fleet!EditsIn, Fleet!TogglesIn
<1>3. \A q \in wire' : q \in wire \ {r} \/ q = [r EXCEPT !.phase = "saved"] \/ q = Fleet!Told(r, "ok")
  BY DEF Fleet!SaveVehicle, Fleet!Replace, Fleet!Reply
<1>4. r \notin wire'
  <2>1. [r EXCEPT !.phase = "saved"] # r
    BY <1>1, <1>2
  <2>2. Fleet!Told(r, "ok") # r
    BY <1>1, FleetToldIs
  <2> QED
    BY <1>3, <2>1, <2>2
<1>5. db' = [db EXCEPT ![r.id] = Fleet!Written(r)] /\ db \in [Staff -> Fleet!Row]
  BY DEF Fleet!SaveVehicle, Fleet!TypeOK
<1> QED
  BY <1>1, <1>4, <1>5

\* The steps that write a vehicle, but for the saves.
FleetOtherWrite ==
    \/ \E r \in wire : \/ Fleet!ReadForUpdate(r) \/ Fleet!AttachDocumentFile(r) \/ Fleet!AttachTimesOut(r)
                       \/ Fleet!ServeConfirm(r) \/ Fleet!ServeVehicle(r) \/ Fleet!RemoveVehicle(r)
                              \/ Fleet!TakeOffRoad(r)
    \/ \E d \in Staff : Fleet!ScheduleService(d)

\* They leave the texts alone, and make no vehicle active while a service is
\* due, unless it is then that the service is scheduled.
LEMMA FleetOtherWrites ==
  ASSUME Fleet!TypeOK, FleetOtherWrite, NEW d \in Staff
  PROVE  /\ db'[d].text = db[d].text
         /\ \/ db'[d].pending # db[d].pending \/ db'[d].pending = {} \/ db'[d].status = db[d].status
            \/ db'[d].status # "ACTIVE"
<1>0. db \in [Staff -> Fleet!Row] /\ db[d] \in Fleet!Row /\ \A r \in wire : r.id \in Staff
  BY FleetKindsOf DEF Fleet!TypeOK
<1>1. ASSUME NEW r \in wire, Fleet!ReadForUpdate(r) \/ Fleet!AttachTimesOut(r)
      PROVE  db' = db
  BY <1>1 DEF Fleet!ReadForUpdate, Fleet!Read, Fleet!AttachTimesOut
<1>2. ASSUME NEW r \in wire, Fleet!AttachDocumentFile(r) \/ Fleet!ServeVehicle(r) \/ Fleet!RemoveVehicle(r)
      PROVE  db'[d].text = db[d].text /\ db'[d].status = db[d].status
  BY <1>0, <1>2 DEF Fleet!AttachDocumentFile, Fleet!ServeVehicle, Fleet!RemoveVehicle, Fleet!ServeRemoval, Fleet!Row
<1>3. ASSUME NEW r \in wire, Fleet!ServeConfirm(r)
      PROVE  /\ db'[d].text = db[d].text
             /\ db'[d].pending = {} \/ db'[d].status = db[d].status
  BY <1>0, <1>3 DEF Fleet!ServeConfirm, Fleet!Row
<1>4. ASSUME NEW r \in wire, Fleet!TakeOffRoad(r)
      PROVE  /\ db'[d].text = db[d].text
             /\ db'[d].status = db[d].status \/ db'[d].status = "IN_MAINTENANCE"
  BY <1>0, <1>4 DEF Fleet!TakeOffRoad, Fleet!Row
<1>5. ASSUME NEW e \in Staff, Fleet!ScheduleService(e)
      PROVE  db'[d].text = db[d].text /\ db'[d].status = db[d].status
  BY <1>0, <1>5 DEF Fleet!ScheduleService, Fleet!Row
<1> QED
  BY <1>1, <1>2, <1>3, <1>4, <1>5 DEF FleetOtherWrite

\* Only a save takes a text back, and only one of its own section if it knew the row.
LEMMA FleetSectionStep ==
  ASSUME Fleet!StaffAssumption, Fleet!IInv, [Fleet!Next]_deskVars
  PROVE  Fleet!SectionKept
<1>0. Fleet!TypeOK /\ Fleet!ToggleInv /\ db \in [Staff -> Fleet!Row]
  BY DEF Fleet!IInv, Fleet!TypeOK
<1>1. ASSUME \A d \in Staff : db'[d].text = db[d].text
      PROVE  Fleet!SectionKept
  <2>1. \A d \in Staff, s \in FleetSections : ~(db[d].text[s] < db[d].text[s])
    BY <1>0 DEF Fleet!Row, Fleet!Texts
  <2> QED
    BY <1>1, <2>1 DEF Fleet!SectionKept
<1>2. CASE UNCHANGED deskVars
  BY <1>1, <1>2 DEF deskVars
<1>3. CASE FleetPageStep \/ Fleet!RefreshVehicles \/ \E r \in wire : Fleet!Succeed(r)
  <2>1. db' = db
    BY <1>0, <1>3, FleetSendStep DEF Fleet!RefreshVehicles, Fleet!Refresh, Fleet!Arrive, Fleet!Succeed
  <2> QED
    BY <1>1, <2>1
<1>4. ASSUME NEW r \in wire, Fleet!SaveVehicle(r)
      PROVE  Fleet!SectionKept
  <2>1. /\ r.phase = "read" /\ r.kind \in {"update", "toggle"} /\ r \notin wire'
        /\ db'[r.id] = Fleet!Written(r) /\ \A d \in Staff : d # r.id => db'[d] = db[d]
    BY <1>0, <1>4, FleetSaveStep
  <2>2. Fleet!Written(r).text = Fleet!Merge(r.row.text, r.payload)
    BY <1>0, <2>1, FleetWrittenType
  <2>3. r.kind = "update" => DOMAIN r.payload \subseteq {r.section}
    BY <1>0, <2>1 DEF Fleet!TypeOK, Fleet!WellTyped, Fleet!Scoped
  <2>4. r.kind = "toggle" => DOMAIN r.payload = {}
    <3>1. r.kind = "toggle" => r \in Fleet!TogglesIn("read", Fleet!Row)
      BY <1>0, <2>1, FleetKindsOf DEF Fleet!TypeOK
    <3> QED
      BY <3>1 DEF Fleet!TogglesIn
  <2>5. ASSUME NEW d \in Staff, NEW s \in FleetSections, db'[d].text[s] < db[d].text[s]
        PROVE  d = r.id /\ ((r.kind = "update" /\ r.section = s) \/ r.row # db[d])
    <3>1. ~(db[d].text[s] < db[d].text[s])
      BY <1>0 DEF Fleet!Row, Fleet!Texts
    <3>2. d = r.id
      BY <2>1, <2>5, <3>1
    <3>3. ASSUME r.row = db[d], ~(r.kind = "update" /\ r.section = s)
          PROVE  FALSE
      <4>1. s \notin DOMAIN r.payload
        BY <2>1, <2>3, <2>4, <3>3
      <4>2. db'[d].text[s] = db[d].text[s]
        BY <2>1, <2>2, <3>2, <3>3, <4>1 DEF Fleet!Merge
      <4> QED
        BY <2>5, <3>1, <4>2
    <3> QED
      BY <3>2, <3>3
  <2> QED
    BY <2>1, <2>5 DEF Fleet!SectionKept
<1>5. CASE FleetOtherWrite
  BY <1>0, <1>1, <1>5, FleetOtherWrites
<1>6. CASE Fleet!Next
  BY <1>3, <1>4, <1>5, <1>6 DEF Fleet!Next, FleetPageStep, FleetOtherWrite
<1> QED
  BY <1>2, <1>6

\* Only a save makes a vehicle active while a service is due.
LEMMA FleetServiceStep ==
  ASSUME Fleet!StaffAssumption, Fleet!IInv, [Fleet!Next]_deskVars
  PROVE  Fleet!ServiceNotOverridden
<1>0. Fleet!TypeOK /\ Fleet!ToggleInv
  BY DEF Fleet!IInv
<1>1. CASE UNCHANGED deskVars \/ FleetPageStep \/ Fleet!RefreshVehicles \/ \E r \in wire : Fleet!Succeed(r)
  <2>1. db' = db
    BY <1>0, <1>1, FleetSendStep DEF Fleet!RefreshVehicles, Fleet!Refresh, Fleet!Arrive, Fleet!Succeed, deskVars
  <2> QED
    BY <2>1 DEF Fleet!ServiceNotOverridden, Fleet!ActiveWhileDue
<1>2. ASSUME NEW r \in wire, Fleet!SaveVehicle(r)
      PROVE  Fleet!ServiceNotOverridden
  <2>1. /\ r.phase = "read" /\ r.kind \in {"update", "toggle"} /\ r \notin wire'
        /\ db'[r.id] = Fleet!Written(r) /\ \A d \in Staff : d # r.id => db'[d] = db[d]
    BY <1>0, <1>2, FleetSaveStep
  <2>2. /\ Fleet!Written(r).pending = db[r.id].pending
        /\ Fleet!Written(r).status = IF r.status = None THEN r.row.status ELSE r.status
    BY <1>0, <2>1, FleetWrittenType
  <2>3. ASSUME NEW d \in Staff, ~Fleet!ActiveWhileDue(d), Fleet!ActiveWhileDue(d)'
        PROVE  d = r.id /\ (\/ r.kind = "toggle" /\ r.seen = {}
                            \/ r.section = "operational"
                            \/ r.row # db[d])
    <3>1. d = r.id
      BY <2>1, <2>3 DEF Fleet!ActiveWhileDue
    <3>2. r.row = db[d] => r.status = "ACTIVE" /\ r.status # None
      BY <2>1, <2>2, <2>3, <3>1 DEF Fleet!ActiveWhileDue
    <3> QED
      BY <1>0, <2>1, <3>1, <3>2 DEF Fleet!ToggleInv
  <2> QED
    BY <2>1, <2>3 DEF Fleet!ServiceNotOverridden
<1>3. CASE FleetOtherWrite
  BY <1>0, <1>3, FleetOtherWrites DEF Fleet!ServiceNotOverridden, Fleet!ActiveWhileDue
<1>4. CASE Fleet!Next
  BY <1>1, <1>2, <1>3, <1>4 DEF Fleet!Next, FleetPageStep, FleetOtherWrite
<1> QED
  BY <1>1, <1>4

\* ---- the theorems -----------------------------------------------------------------------

LEMMA FleetInitInv == ASSUME Fleet!StaffAssumption, Fleet!Init PROVE Fleet!IInv
<1>1. Fleet!Rows = [d \in {} |-> None]
  BY DEF Fleet!Init, Fleet!Rows
<1>2. Fleet!RemovedInv /\ Fleet!ToggleInv
  BY <1>1 DEF Fleet!Init, Fleet!RemovedInv, Fleet!RestingListKnowsRemoved, Fleet!ToggleInv, Fleet!NewHist
<1> QED
  BY FleetInitType, <1>2 DEF Fleet!IInv

LEMMA FleetNextInv == ASSUME Fleet!StaffAssumption, Fleet!IInv, [Fleet!Next]_deskVars PROVE Fleet!IInv'
BY FleetNextType, FleetRemovedStep, FleetToggleStep DEF Fleet!IInv

LEMMA FleetInvHolds == ASSUME Fleet!StaffAssumption PROVE Fleet!Spec => []Fleet!IInv
  BY FleetInitInv, FleetNextInv, PTL DEF Fleet!Spec, Fleet!deskVars, deskVars

\* The vehicles' rows, list, dialogs, form and requests are of their types.
THEOREM FleetTypeCorrect == ASSUME Fleet!StaffAssumption PROVE Fleet!Spec => []Fleet!TypeOK
<1>1. Fleet!IInv => Fleet!TypeOK
  BY DEF Fleet!IInv
<1> QED
  BY <1>1, FleetInvHolds, PTL

\* A list at rest has no vehicle this page removed, but for those a stale save brought back.
THEOREM FleetRestingKnowsRemoved == ASSUME Fleet!StaffAssumption PROVE Fleet!Spec => []Fleet!RestingListKnowsRemoved
<1>1. Fleet!IInv => Fleet!RestingListKnowsRemoved
  BY DEF Fleet!IInv, Fleet!RemovedInv
<1> QED
  BY <1>1, FleetInvHolds, PTL

\* An edit of one section of a vehicle does not take another's text back.
THEOREM FleetSectionsKept == ASSUME Fleet!StaffAssumption PROVE Fleet!Spec => [][Fleet!SectionKept]_deskVars
<1>1. Fleet!IInv /\ [Fleet!Next]_deskVars => [Fleet!SectionKept]_deskVars
  BY FleetSectionStep
<1> QED
  BY <1>1, FleetInvHolds, PTL DEF Fleet!Spec, Fleet!deskVars, deskVars

\* A service the page showed is overridden by no toggle.
THEOREM FleetServicesKept == ASSUME Fleet!StaffAssumption PROVE Fleet!Spec
    => [][Fleet!ServiceNotOverridden]_deskVars
<1>1. Fleet!IInv /\ [Fleet!Next]_deskVars => [Fleet!ServiceNotOverridden]_deskVars
  BY FleetServiceStep
<1> QED
  BY <1>1, FleetInvHolds, PTL DEF Fleet!Spec, Fleet!deskVars, deskVars

\* ---- the dispatch page ----------------------------------------------------------------

\* ---- the inductive invariant -------------------------------------------------

DispatchStatuses == {"ACTIVE", "ASSIGNED", "BREAKDOWN"}
DispatchDbs == [rows: [Dispatch!Ids -> Dispatch!RowType], fleet: [Buses -> DispatchStatuses]]
DispatchForms == [selected: SUBSET Buses, picked: SUBSET Dispatch!Ids]
DispatchHists ==
    [opens: 0..FewOpens, sends: 0..MaxSends, loose: SUBSET Dispatch!Ids, made: SUBSET Dispatch!Ids,
        deleted: SUBSET Dispatch!Ids, ran: BOOLEAN]

\* A list shows rows that were in the table, and a dialog one of them.
DispatchPageInv ==
    /\ shown = [k \in {"today", "fleet"} |-> shown[k]]
    /\ DOMAIN shown["today"] \subseteq Dispatch!Ids
           /\ shown["today"] \in [DOMAIN shown["today"] -> Dispatch!RowType]
    /\ shown["fleet"] \subseteq Buses
    /\ \A i \in DOMAIN shown["today"] : shown["today"][i].status \in Dispatch!Kept
    /\ due \subseteq {"today", "fleet"}
    /\ form \in DispatchForms
    /\ dialog # None => dialog \in Dispatch!Dialogs /\ dialog.seen.status \in Dispatch!Kept
    /\ hist \in DispatchHists

\* What a handler has found and goes on from.  The row an edit writes back has
\* the day the allocation has.
DispatchSound(r, rows) ==
    /\ r.kind \in {"copy", "breakdown", "remove", "end", "delete", "reassign", "update"} => r.id \in Dispatch!Ids
    /\ r.phase = "read" => r.kind \in {"assign", "copy", "reassign", "update", "end"} /\ (r.kind # "end" => r.free)
    /\ r.phase = "recur" => r.free /\ r.row.status \in Dispatch!Live /\ r.row.day = 2
    /\ r.kind = "assign" => r.row.status \in Dispatch!Live
    /\ r.kind \in {"copy", "reassign", "end"} /\ r.phase = "read" => r.row.status \in Dispatch!Live
    /\ r.kind = "update" => r.put.status \in Dispatch!Kept
    /\ r.kind = "update" /\ r.phase = "read" => rows[r.id].status # "none" /\ rows[r.id].day = r.row.day
    /\ r.kind = "beat" => \A i \in Dispatch!Ids : r.seen[i] # Dispatch!NoRow => r.seen[i].status \in Dispatch!Live

\* What was made is in the table unless it was deleted.
DispatchThere(i) == i \in Dispatch!Ids \ hist.deleted => Dispatch!Rows[i].status \in Dispatch!Kept

DispatchWireInv == \A r \in wire : r \in Dispatch!Requests /\ DispatchSound(r, Dispatch!Rows)
    /\ DispatchThere(r.made)

DispatchMadeInv == \A i \in hist.made : DispatchThere(i)

\* The unique index on day and bus.
DispatchOneRowPerBus ==
    \A i, j \in Dispatch!Ids : i # j /\ Dispatch!Rows[i].status \in Dispatch!Kept
        /\ Dispatch!Rows[j].status \in Dispatch!Kept
                      => <<Dispatch!Rows[i].day, Dispatch!Rows[i].bus>> # <<Dispatch!Rows[j].day,
                          Dispatch!Rows[j].bus>>

DispatchIInv ==
    /\ db \in DispatchDbs /\ DispatchPageInv /\ DispatchWireInv /\ DispatchMadeInv
    /\ DispatchOneRowPerBus /\ Dispatch!OneBusPerDay /\ Dispatch!RestingListKnowsMade
-----------------------------------------------------------------------------
\* ---- the table -----------------------------------------------------------------

\* A row that is in the table keeps its day, and stays in it unless it is deleted.
DispatchFollows ==
    /\ hist.deleted \subseteq hist'.deleted
    /\ \A i \in Dispatch!Ids :
          /\ Dispatch!Rows[i].status # "none"
                 => Dispatch!Rows'[i].status # "none" /\ Dispatch!Rows'[i].day = Dispatch!Rows[i].day
          /\ Dispatch!Rows[i].status \in Dispatch!Kept
                 => Dispatch!Rows'[i].status \in Dispatch!Kept \/ i \in hist'.deleted

DispatchTableInv == Dispatch!Rows \in [Dispatch!Ids -> Dispatch!RowType] /\ DispatchOneRowPerBus
    /\ Dispatch!OneBusPerDay

\* What a handler that is under way has found is still so.
LEMMA DispatchSoundFollows ==
  ASSUME DispatchFollows, NEW r \in wire, r \in Dispatch!Requests, DispatchSound(r, Dispatch!Rows),
             DispatchThere(r.made)
  PROVE  DispatchSound(r, Dispatch!Rows') /\ DispatchThere(r.made)'
<1>1. r.kind = "update" /\ r.phase = "read"
          => Dispatch!Rows'[r.id].status # "none" /\ Dispatch!Rows'[r.id].day = r.row.day
  BY DEF DispatchSound, DispatchFollows
<1>2. DispatchThere(r.made)'
  BY DEF DispatchThere, DispatchFollows
<1> QED
  BY <1>1, <1>2 DEF DispatchSound

\* A row is written at a day and bus that no other has, by a handler that says
\* so when somebody has its driver.
LEMMA DispatchWritten ==
  ASSUME DispatchTableInv, NEW i \in Dispatch!Ids, NEW row \in Dispatch!RowType,
             Dispatch!Rows' = [Dispatch!Rows EXCEPT ![i] = row],
         ~Dispatch!Occupied(row.day, row.bus, {i}), hist.loose \subseteq hist'.loose,
         row.status \in Dispatch!Live /\ Dispatch!Busy(row.day, row.driver, {i}) => i \in hist'.loose
  PROVE  DispatchTableInv'
<1>1. Dispatch!Rows \in [Dispatch!Ids -> Dispatch!RowType] /\ Dispatch!Rows' \in [Dispatch!Ids -> Dispatch!RowType]
  BY DEF DispatchTableInv
<1>2. \A j \in Dispatch!Ids : Dispatch!Rows'[j] = IF j = i THEN row ELSE Dispatch!Rows[j]
  BY <1>1
<1>3. DispatchOneRowPerBus'
  <2> SUFFICES ASSUME NEW j \in Dispatch!Ids, NEW k \in Dispatch!Ids, j # k,
          Dispatch!Rows'[j].status \in Dispatch!Kept, Dispatch!Rows'[k].status \in Dispatch!Kept,
                      Dispatch!Rows'[j].day = Dispatch!Rows'[k].day, Dispatch!Rows'[j].bus = Dispatch!Rows'[k].bus
               PROVE  FALSE
    BY DEF DispatchOneRowPerBus
  <2>1. CASE j # i /\ k # i
    BY <1>2, <2>1 DEF DispatchTableInv, DispatchOneRowPerBus
  <2>2. CASE j = i
    BY <1>2, <2>2 DEF Dispatch!Occupied
  <2>3. CASE k = i
    BY <1>2, <2>3 DEF Dispatch!Occupied
  <2> QED
    BY <2>1, <2>2, <2>3
<1>4. Dispatch!OneBusPerDay'
  <2> SUFFICES ASSUME NEW j \in Dispatch!Ids, NEW k \in Dispatch!Ids, j # k,
          Dispatch!Rows'[j].status \in Dispatch!Live, Dispatch!Rows'[k].status \in Dispatch!Live,
                      Dispatch!Rows'[j].day = Dispatch!Rows'[k].day,
                          Dispatch!Rows'[j].driver = Dispatch!Rows'[k].driver, Dispatch!Rows'[j].driver # None
               PROVE  {j, k} \cap hist'.loose # {}
    BY DEF Dispatch!OneBusPerDay
  <2>1. CASE j # i /\ k # i
    BY <1>2, <2>1 DEF DispatchTableInv, Dispatch!OneBusPerDay
  <2>2. CASE j = i
    <3>1. Dispatch!Busy(row.day, row.driver, {i})
      BY <1>2, <2>2 DEF Dispatch!Busy
    <3> QED
      BY <1>2, <2>2, <3>1
  <2>3. CASE k = i
    <3>1. Dispatch!Busy(row.day, row.driver, {i})
      BY <1>2, <2>3 DEF Dispatch!Busy
    <3> QED
      BY <1>2, <2>3, <3>1
  <2> QED
    BY <2>1, <2>2, <2>3
<1> QED
  BY <1>1, <1>3, <1>4 DEF DispatchTableInv

\* A shift is ended, cancelled or deleted.
LEMMA DispatchClosed ==
  ASSUME DispatchTableInv, NEW i \in Dispatch!Ids, NEW status \in {"COMPLETED", "CANCELLED", "gone"},
             Dispatch!Rows[i].status \in Dispatch!Kept,
         Dispatch!Rows' = [Dispatch!Rows EXCEPT ![i].status = status], hist'.loose = hist.loose
  PROVE  DispatchTableInv'
<1> DEFINE row == [Dispatch!Rows[i] EXCEPT !.status = status]
<1>1. Dispatch!Rows \in [Dispatch!Ids -> Dispatch!RowType]
  BY DEF DispatchTableInv
<1>2. row \in Dispatch!RowType /\ row.day = Dispatch!Rows[i].day /\ row.bus = Dispatch!Rows[i].bus
          /\ row.status = status
  BY <1>1 DEF Dispatch!RowType, Dispatch!Kept
<1>3. Dispatch!Rows' = [Dispatch!Rows EXCEPT ![i] = row]
  BY <1>1
<1>4. ~Dispatch!Occupied(row.day, row.bus, {i})
  BY <1>2 DEF DispatchTableInv, DispatchOneRowPerBus, Dispatch!Occupied
<1>5. row.status \notin Dispatch!Live
  BY <1>2 DEF Dispatch!Live
<1> HIDE DEF row
<1> QED
  BY <1>2, <1>3, <1>4, <1>5, DispatchWritten
-----------------------------------------------------------------------------
\* Rows are opened as they are, or made for buses that have none: whoever is on
\* a row that was not open is on record.
LEMMA DispatchOpened ==
  ASSUME DispatchTableInv, Dispatch!Rows' \in [Dispatch!Ids -> Dispatch!RowType], hist.loose \subseteq hist'.loose,
             hist.deleted \subseteq hist'.deleted,
         NEW fresh \in SUBSET Dispatch!Ids,
         \A i \in Dispatch!Ids \ fresh :
             /\ Dispatch!Rows'[i].day = Dispatch!Rows[i].day /\ Dispatch!Rows'[i].bus = Dispatch!Rows[i].bus
                    /\ Dispatch!Rows'[i].driver = Dispatch!Rows[i].driver
             /\ Dispatch!Rows'[i].status \in Dispatch!Kept <=> Dispatch!Rows[i].status \in Dispatch!Kept
             /\ Dispatch!Rows'[i].status \in Dispatch!Live
                    => Dispatch!Rows[i].status \in Dispatch!Live \/ i \in hist'.loose
             /\ Dispatch!Rows[i].status # "none" => Dispatch!Rows'[i].status # "none",
         \A i \in fresh :
             /\ Dispatch!Rows[i].status = "none" /\ Dispatch!Rows'[i].day = Dispatch!Today
                    /\ Dispatch!Rows'[i].driver = None
             /\ \A j \in Dispatch!Ids : Dispatch!Rows[j].status \in Dispatch!Kept
                    /\ Dispatch!Rows[j].day = Dispatch!Today => Dispatch!Rows[j].bus # Dispatch!Rows'[i].bus
             /\ \A j \in fresh : Dispatch!Rows'[i].bus = Dispatch!Rows'[j].bus => i = j
  PROVE  DispatchTableInv' /\ DispatchFollows
<1>1. DispatchOneRowPerBus'
  <2> SUFFICES ASSUME NEW j \in Dispatch!Ids, NEW k \in Dispatch!Ids, j # k,
          Dispatch!Rows'[j].status \in Dispatch!Kept, Dispatch!Rows'[k].status \in Dispatch!Kept,
                      Dispatch!Rows'[j].day = Dispatch!Rows'[k].day, Dispatch!Rows'[j].bus = Dispatch!Rows'[k].bus
               PROVE  FALSE
    BY DEF DispatchOneRowPerBus
  <2>1. CASE j \notin fresh /\ k \notin fresh
    BY <2>1 DEF DispatchTableInv, DispatchOneRowPerBus
  <2> QED
    BY <2>1
<1>2. Dispatch!OneBusPerDay'
  <2> SUFFICES ASSUME NEW j \in Dispatch!Ids, NEW k \in Dispatch!Ids, j # k,
          Dispatch!Rows'[j].status \in Dispatch!Live, Dispatch!Rows'[k].status \in Dispatch!Live,
                      Dispatch!Rows'[j].day = Dispatch!Rows'[k].day,
                          Dispatch!Rows'[j].driver = Dispatch!Rows'[k].driver, Dispatch!Rows'[j].driver # None
               PROVE  {j, k} \cap hist'.loose # {}
    BY DEF Dispatch!OneBusPerDay
  <2>1. j \notin fresh /\ k \notin fresh
    OBVIOUS
  <2>2. CASE Dispatch!Rows[j].status \in Dispatch!Live /\ Dispatch!Rows[k].status \in Dispatch!Live
    BY <2>1, <2>2 DEF DispatchTableInv, Dispatch!OneBusPerDay
  <2> QED
    BY <2>1, <2>2
<1>3. DispatchFollows
  BY DEF DispatchFollows, Dispatch!Kept, Dispatch!Live
<1> QED
  BY <1>1, <1>2, <1>3 DEF DispatchTableInv

\* A schedule opens the rows its buses have today and makes one for each other bus.
LEMMA DispatchGenerated ==
  ASSUME db \in DispatchDbs, DispatchTableInv, hist \in DispatchHists, NEW r \in wire, r \in Dispatch!Requests,
             Dispatch!ServeGenerate(r)
  PROVE  db' \in DispatchDbs /\ DispatchTableInv' /\ DispatchFollows
<1> DEFINE of(v) == {i \in Dispatch!Ids : Dispatch!Rows[i].status \in Dispatch!Kept
        /\ Dispatch!Rows[i].day = Dispatch!Today /\ Dispatch!Rows[i].bus = v}
           new == {v \in r.buses : of(v) = {}}
           old == UNION {of(v) : v \in r.buses}
           blank == {i \in Dispatch!Ids : Dispatch!Rows[i].status = "none"}
           fleet == [v \in Buses |-> IF v \in r.buses THEN "ASSIGNED" ELSE db.fleet[v]]
<1>1. Dispatch!Rows \in [Dispatch!Ids -> Dispatch!RowType] /\ r.buses \subseteq Buses
  BY DEF DispatchTableInv, Dispatch!Requests
<1>2. PICK made \in [new -> blank] :
        /\ \A v, w \in new : made[v] = made[w] => v = w
        /\ db' = [rows |-> [i \in Dispatch!Ids |-> IF i \in old THEN [Dispatch!Rows[i] EXCEPT !.status = "ACTIVE"]
                                          ELSE IF \E v \in new : made[v] = i
                                          THEN Dispatch!Row(Dispatch!Today, CHOOSE v \in new : made[v] = i, None,
                                              "ACTIVE", FALSE)
                                          ELSE Dispatch!Rows[i]],
                  fleet |-> fleet]
  BY DEF Dispatch!ServeGenerate
<1>3. hist' = [hist EXCEPT !.loose = @ \cup {i \in old : Dispatch!Rows[i].status \notin Dispatch!Live}]
  BY DEF Dispatch!ServeGenerate
<1>4. hist'.deleted = hist.deleted /\ hist'.loose = hist.loose
          \cup {i \in old : Dispatch!Rows[i].status \notin Dispatch!Live}
  BY <1>3 DEF DispatchHists
<1>5. \A i \in old : i \in Dispatch!Ids /\ Dispatch!Rows[i].status \in Dispatch!Kept
  OBVIOUS
<1>6. \A v \in new : v \in Buses /\ \A j \in Dispatch!Ids : Dispatch!Rows[j].status \in Dispatch!Kept
          /\ Dispatch!Rows[j].day = Dispatch!Today => Dispatch!Rows[j].bus # v
  BY <1>1
<1>7. \A i \in blank : i \in Dispatch!Ids /\ Dispatch!Rows[i].status = "none" /\ i \notin old
  BY <1>5 DEF Dispatch!Kept, Dispatch!Live
<1>8. fleet \in [Buses -> DispatchStatuses]
  BY DEF DispatchDbs, DispatchStatuses
<1> HIDE DEF of, new, old, blank, fleet
<1> DEFINE fresh == {made[v] : v \in new}
<1>9. fresh \subseteq blank
  BY <1>2
<1>10. \A v \in new : (CHOOSE w \in new : made[w] = made[v]) = v
  BY <1>2
<1>11. /\ Dispatch!Rows' = [i \in Dispatch!Ids |-> IF i \in old THEN [Dispatch!Rows[i] EXCEPT !.status = "ACTIVE"]
                                 ELSE IF \E v \in new : made[v] = i
                                 THEN Dispatch!Row(Dispatch!Today, CHOOSE v \in new : made[v] = i, None, "ACTIVE",
                                     FALSE)
                                 ELSE Dispatch!Rows[i]]
       /\ db' = [rows |-> Dispatch!Rows', fleet |-> fleet]
  BY <1>2 DEF Dispatch!Rows
<1>12. ASSUME NEW i \in old
       PROVE  /\ Dispatch!Rows'[i] = [Dispatch!Rows[i] EXCEPT !.status = "ACTIVE"]
                     /\ Dispatch!Rows'[i] \in Dispatch!RowType
              /\ Dispatch!Rows'[i].day = Dispatch!Rows[i].day /\ Dispatch!Rows'[i].bus = Dispatch!Rows[i].bus
                     /\ Dispatch!Rows'[i].driver = Dispatch!Rows[i].driver
              /\ Dispatch!Rows'[i].status = "ACTIVE"
                     /\ (Dispatch!Rows[i].status \in Dispatch!Live \/ i \in hist'.loose)
  <2>1. Dispatch!Rows'[i] = [Dispatch!Rows[i] EXCEPT !.status = "ACTIVE"]
    BY <1>5, <1>11
  <2>2. Dispatch!Rows[i] \in Dispatch!RowType
    BY <1>1, <1>5
  <2> QED
    BY <1>4, <2>1, <2>2 DEF Dispatch!RowType, Dispatch!Kept, Dispatch!Live
<1>13. ASSUME NEW v \in new
       PROVE  /\ Dispatch!Rows'[made[v]] \in Dispatch!RowType
              /\ Dispatch!Rows'[made[v]].day = Dispatch!Today /\ Dispatch!Rows'[made[v]].driver = None
                     /\ Dispatch!Rows'[made[v]].bus = v
  <2>1. made[v] \in Dispatch!Ids /\ made[v] \notin old
    BY <1>2, <1>7
  <2>2. Dispatch!Rows'[made[v]] = Dispatch!Row(Dispatch!Today, v, None, "ACTIVE", FALSE)
    BY <1>10, <1>11, <2>1
  <2>3. Dispatch!Row(Dispatch!Today, v, None, "ACTIVE", FALSE) \in Dispatch!RowType
    BY <1>6 DEF Dispatch!Row, Dispatch!RowType, Dispatch!Kept, Dispatch!Live, Dispatch!Today
  <2> QED
    BY <2>2, <2>3 DEF Dispatch!Row
<1>14. ASSUME NEW i \in Dispatch!Ids \ fresh, i \notin old PROVE Dispatch!Rows'[i] = Dispatch!Rows[i]
  BY <1>11, <1>14
<1>15. Dispatch!Rows' \in [Dispatch!Ids -> Dispatch!RowType]
  <2>1. \A i \in Dispatch!Ids : Dispatch!Rows'[i] \in Dispatch!RowType
    BY <1>1, <1>12, <1>13, <1>14
  <2>2. Dispatch!Rows' = [i \in Dispatch!Ids |-> Dispatch!Rows'[i]]
    BY <1>11
  <2> QED
    BY <2>1, <2>2
<1>16. ASSUME NEW i \in Dispatch!Ids \ fresh
       PROVE  /\ Dispatch!Rows'[i].day = Dispatch!Rows[i].day /\ Dispatch!Rows'[i].bus = Dispatch!Rows[i].bus
                     /\ Dispatch!Rows'[i].driver = Dispatch!Rows[i].driver
              /\ Dispatch!Rows'[i].status \in Dispatch!Kept <=> Dispatch!Rows[i].status \in Dispatch!Kept
              /\ Dispatch!Rows'[i].status \in Dispatch!Live
                     => Dispatch!Rows[i].status \in Dispatch!Live \/ i \in hist'.loose
              /\ Dispatch!Rows[i].status # "none" => Dispatch!Rows'[i].status # "none"
  <2>1. CASE i \in old
    BY <1>5, <1>12, <2>1 DEF Dispatch!Kept, Dispatch!Live
  <2>2. CASE i \notin old
    BY <1>14, <2>2
  <2> QED
    BY <2>1, <2>2
<1>17. ASSUME NEW i \in fresh
       PROVE  /\ Dispatch!Rows[i].status = "none" /\ Dispatch!Rows'[i].day = Dispatch!Today
                     /\ Dispatch!Rows'[i].driver = None
              /\ \A j \in Dispatch!Ids : Dispatch!Rows[j].status \in Dispatch!Kept
                     /\ Dispatch!Rows[j].day = Dispatch!Today => Dispatch!Rows[j].bus # Dispatch!Rows'[i].bus
              /\ \A j \in fresh : Dispatch!Rows'[i].bus = Dispatch!Rows'[j].bus => i = j
  <2>1. Dispatch!Rows[i].status = "none"
    BY <1>7, <1>9
  <2>2. PICK v \in new : made[v] = i
    OBVIOUS
  <2>3. Dispatch!Rows'[i].day = Dispatch!Today /\ Dispatch!Rows'[i].driver = None /\ Dispatch!Rows'[i].bus = v
    BY <1>13, <2>2
  <2>4. ASSUME NEW j \in fresh, Dispatch!Rows'[i].bus = Dispatch!Rows'[j].bus PROVE i = j
    <3>1. PICK w \in new : made[w] = j
      OBVIOUS
    <3>2. Dispatch!Rows'[j].bus = w
      BY <1>13, <3>1
    <3> QED
      BY <2>2, <2>3, <2>4, <3>1, <3>2
  <2> QED
    BY <1>6, <2>1, <2>3, <2>4
<1>18. fresh \in SUBSET Dispatch!Ids
  BY <1>7, <1>9
<1> HIDE DEF fresh
<1>19. DispatchTableInv' /\ DispatchFollows
  <2>1. hist.loose \subseteq hist'.loose /\ hist.deleted \subseteq hist'.deleted
    BY <1>4
  <2> QED
    BY <1>15, <1>16, <1>17, <1>18, <2>1, DispatchOpened
<1>20. db' \in DispatchDbs
  BY <1>8, <1>11, <1>15 DEF DispatchDbs
<1> QED
  BY <1>19, <1>20
-----------------------------------------------------------------------------
\* A row is stored, with whatever becomes of the vehicles.
LEMMA DispatchStored ==
  ASSUME db \in DispatchDbs, DispatchTableInv, NEW i \in Dispatch!Ids, NEW row \in Dispatch!RowType,
             NEW fleet \in [Buses -> DispatchStatuses],
         db' = [rows |-> [Dispatch!Rows EXCEPT ![i] = row], fleet |-> fleet],
         hist.loose \subseteq hist'.loose, hist.deleted \subseteq hist'.deleted,
         ~Dispatch!Occupied(row.day, row.bus, {i}),
         row.status \in Dispatch!Live /\ Dispatch!Busy(row.day, row.driver, {i}) => i \in hist'.loose,
         Dispatch!Rows[i].status # "none" => row.status # "none" /\ row.day = Dispatch!Rows[i].day,
         Dispatch!Rows[i].status \in Dispatch!Kept => row.status \in Dispatch!Kept \/ i \in hist'.deleted
  PROVE  db' \in DispatchDbs /\ DispatchTableInv' /\ DispatchFollows
<1>1. Dispatch!Rows' = [Dispatch!Rows EXCEPT ![i] = row] /\ Dispatch!Rows \in [Dispatch!Ids -> Dispatch!RowType]
  BY DEF Dispatch!Rows, DispatchTableInv
<1>2. DispatchTableInv'
  BY <1>1, DispatchWritten
<1>3. DispatchFollows
  BY <1>1 DEF DispatchFollows
<1> QED
  BY <1>1, <1>2, <1>3 DEF DispatchDbs

\* Only vehicles are marked, or nothing.
LEMMA DispatchMarked ==
  ASSUME db \in DispatchDbs, DispatchTableInv, NEW fleet \in [Buses -> DispatchStatuses],
             db' = [db EXCEPT !.fleet = fleet],
         hist'.loose = hist.loose, hist'.deleted = hist.deleted
  PROVE  db' \in DispatchDbs /\ DispatchTableInv' /\ DispatchFollows
<1>1. Dispatch!Rows' = Dispatch!Rows /\ db' \in DispatchDbs
  BY DEF Dispatch!Rows, DispatchDbs
<1> QED
  BY <1>1 DEF DispatchTableInv, DispatchOneRowPerBus, Dispatch!OneBusPerDay, DispatchFollows

LEMMA DispatchUntouched ==
  ASSUME db \in DispatchDbs, DispatchTableInv, UNCHANGED db, hist'.loose = hist.loose, hist'.deleted = hist.deleted
  PROVE  db' \in DispatchDbs /\ DispatchTableInv' /\ DispatchFollows
<1>1. Dispatch!Rows' = Dispatch!Rows
  BY DEF Dispatch!Rows
<1> QED
  BY <1>1 DEF DispatchTableInv, DispatchOneRowPerBus, Dispatch!OneBusPerDay, DispatchFollows

\* A new row, of the day's list or of tomorrow's.
LEMMA DispatchAdded ==
  ASSUME db \in DispatchDbs, DispatchTableInv, hist \in DispatchHists, NEW r \in Dispatch!Requests, r.free,
             r.row.status \in Dispatch!Live,
         ~Dispatch!Occupied(r.row.day, r.row.bus, {}), NEW i \in Dispatch!Fresh,
         db' = [db EXCEPT !.rows[i] = r.row, !.fleet[r.row.bus] = "ASSIGNED"],
         hist' = [hist EXCEPT !.loose = @ \cup Dispatch!Loose(r, i, r.row)]
  PROVE  db' \in DispatchDbs /\ DispatchTableInv' /\ DispatchFollows
<1> DEFINE fleet == [db.fleet EXCEPT ![r.row.bus] = "ASSIGNED"]
<1>1. i \in Dispatch!Ids /\ Dispatch!Rows[i].status = "none" /\ r.row \in Dispatch!RowType
  BY DEF Dispatch!Fresh, Dispatch!Requests
<1>2. db' = [rows |-> [Dispatch!Rows EXCEPT ![i] = r.row], fleet |-> fleet]
  BY DEF Dispatch!Rows, DispatchDbs
<1>3. fleet \in [Buses -> DispatchStatuses]
  BY DEF DispatchDbs, DispatchStatuses
<1>4. hist'.loose = hist.loose \cup Dispatch!Loose(r, i, r.row) /\ hist'.deleted = hist.deleted
  BY DEF DispatchHists
<1>5. ~Dispatch!Occupied(r.row.day, r.row.bus, {i})
  BY DEF Dispatch!Occupied
<1>6. Dispatch!Busy(r.row.day, r.row.driver, {i}) => i \in hist'.loose
  BY <1>4 DEF Dispatch!Loose
<1> HIDE DEF fleet
<1> QED
  BY <1>1, <1>2, <1>3, <1>4, <1>5, <1>6, DispatchStored DEF Dispatch!Kept, Dispatch!Live

LEMMA DispatchTableInsert ==
  ASSUME db \in DispatchDbs, DispatchTableInv, hist \in DispatchHists, NEW r \in wire, r \in Dispatch!Requests,
             DispatchSound(r, Dispatch!Rows), Dispatch!Insert(r)
  PROVE  db' \in DispatchDbs /\ DispatchTableInv' /\ DispatchFollows
<1>1. r.free /\ r.row.status \in Dispatch!Live
  BY DEF Dispatch!Insert, DispatchSound
<1>2. CASE Dispatch!Occupied(r.row.day, r.row.bus, {})
  <2>1. UNCHANGED hist
    BY <1>2 DEF Dispatch!Insert
  <2>2. CASE r.kind = "assign"
    <3> DEFINE fleet == [db.fleet EXCEPT ![r.row.bus] = "ASSIGNED"]
    <3>1. fleet \in [Buses -> DispatchStatuses] /\ db' = [db EXCEPT !.fleet = fleet]
      BY <1>2, <2>2 DEF Dispatch!Insert, DispatchDbs, DispatchStatuses
    <3> HIDE DEF fleet
    <3> QED
      BY <2>1, <3>1, DispatchMarked
  <2>3. CASE r.kind # "assign"
    <3>1. UNCHANGED db
      BY <1>2, <2>3 DEF Dispatch!Insert
    <3> QED
      BY <2>1, <3>1, DispatchUntouched
  <2> QED
    BY <2>2, <2>3
<1>3. CASE ~Dispatch!Occupied(r.row.day, r.row.bus, {})
  <2>1. PICK i \in Dispatch!Fresh : /\ db' = [db EXCEPT !.rows[i] = r.row, !.fleet[r.row.bus] = "ASSIGNED"]
                                    /\ hist' = [hist EXCEPT !.loose = @ \cup Dispatch!Loose(r, i, r.row)]
    BY <1>3 DEF Dispatch!Insert
  <2> QED
    BY <1>1, <1>3, <2>1, DispatchAdded
<1> QED
  BY <1>2, <1>3

LEMMA DispatchTableRecur ==
  ASSUME db \in DispatchDbs, DispatchTableInv, hist \in DispatchHists, NEW r \in wire, r \in Dispatch!Requests,
             DispatchSound(r, Dispatch!Rows), Dispatch!Recur(r)
  PROVE  db' \in DispatchDbs /\ DispatchTableInv' /\ DispatchFollows
<1>1. r.free /\ r.row.status \in Dispatch!Live /\ r.row.day = 2
  BY DEF Dispatch!Recur, DispatchSound
<1>2. CASE Dispatch!Occupied(2, r.row.bus, {})
  <2>1. UNCHANGED <<db, hist>>
    BY <1>2 DEF Dispatch!Recur
  <2> QED
    BY <2>1, DispatchUntouched
<1>3. CASE ~Dispatch!Occupied(2, r.row.bus, {})
  <2>1. PICK i \in Dispatch!Fresh : /\ db' = [db EXCEPT !.rows[i] = r.row, !.fleet[r.row.bus] = "ASSIGNED"]
                                    /\ hist' = [hist EXCEPT !.loose = @ \cup Dispatch!Loose(r, i, r.row)]
    BY <1>3 DEF Dispatch!Recur
  <2> QED
    BY <1>1, <1>3, <2>1, DispatchAdded
<1> QED
  BY <1>2, <1>3

\* An edit writes the row it read, but for what its form has.
LEMMA DispatchTableUpdate ==
  ASSUME db \in DispatchDbs, DispatchTableInv, hist \in DispatchHists, NEW r \in wire, r \in Dispatch!Requests,
             DispatchSound(r, Dispatch!Rows), Dispatch!SaveUpdate(r)
  PROVE  db' \in DispatchDbs /\ DispatchTableInv' /\ DispatchFollows
<1> DEFINE row == [r.row EXCEPT !.bus = r.put.bus, !.driver = r.put.driver, !.status = r.put.status]
           fleet == IF row.bus = r.row.bus THEN db.fleet
                    ELSE [db.fleet EXCEPT ![r.row.bus] = "ACTIVE", ![row.bus] = "ASSIGNED"]
<1>1. r.kind = "update" /\ r.phase = "read"
  BY DEF Dispatch!SaveUpdate
<1>2. /\ r.id \in Dispatch!Ids /\ r.free /\ r.put.status \in Dispatch!Kept
      /\ Dispatch!Rows[r.id].status # "none" /\ Dispatch!Rows[r.id].day = r.row.day
  BY <1>1 DEF DispatchSound
<1>3. /\ row \in Dispatch!RowType /\ row.day = r.row.day /\ row.status = r.put.status
  BY DEF Dispatch!Requests, Dispatch!RowType
<1>4. fleet \in [Buses -> DispatchStatuses]
  BY DEF DispatchDbs, DispatchStatuses
<1>5. CASE Dispatch!Occupied(row.day, row.bus, {r.id})
  <2>1. UNCHANGED <<db, hist>>
    BY <1>5 DEF Dispatch!SaveUpdate
  <2> QED
    BY <2>1, DispatchUntouched
<1>6. CASE ~Dispatch!Occupied(row.day, row.bus, {r.id})
  <2>1. /\ db' = [db EXCEPT !.rows[r.id] = row,
                            !.fleet = IF row.bus = r.row.bus THEN @
                                      ELSE [@ EXCEPT ![r.row.bus] = "ACTIVE", ![row.bus] = "ASSIGNED"]]
        /\ hist' = [hist EXCEPT !.loose = @ \cup Dispatch!Loose(r, r.id, row)]
    BY <1>6 DEF Dispatch!SaveUpdate
  <2>2. db' = [rows |-> [Dispatch!Rows EXCEPT ![r.id] = row], fleet |-> fleet]
    BY <2>1 DEF Dispatch!Rows, DispatchDbs
  <2>3. hist'.loose = hist.loose \cup Dispatch!Loose(r, r.id, row) /\ hist'.deleted = hist.deleted
    BY <2>1 DEF DispatchHists
  <2> HIDE DEF row, fleet
  <2>4. row.status \in Dispatch!Live /\ Dispatch!Busy(row.day, row.driver, {r.id}) => r.id \in hist'.loose
    BY <1>2, <2>3 DEF Dispatch!Loose
  <2>5. row.status # "none"
    BY <1>2, <1>3 DEF Dispatch!Kept, Dispatch!Live
  <2> QED
    BY <1>2, <1>3, <1>4, <1>6, <2>2, <2>3, <2>4, <2>5, DispatchStored
<1> QED
  BY <1>5, <1>6

\* A shift is closed, and its bus marked.
LEMMA DispatchTableClosed ==
  ASSUME db \in DispatchDbs, DispatchTableInv, NEW i \in Dispatch!Ids,
             NEW status \in {"COMPLETED", "CANCELLED", "gone"}, NEW bus,
         NEW mark \in DispatchStatuses, Dispatch!Rows[i].status \in Dispatch!Kept,
         db' = [db EXCEPT !.rows[i].status = status, !.fleet[bus] = mark],
         hist'.loose = hist.loose, hist.deleted \subseteq hist'.deleted, status = "gone" => i \in hist'.deleted
  PROVE  db' \in DispatchDbs /\ DispatchTableInv' /\ DispatchFollows
<1>1. Dispatch!Rows \in [Dispatch!Ids -> Dispatch!RowType]
  BY DEF DispatchTableInv
<1>2. Dispatch!Rows' = [Dispatch!Rows EXCEPT ![i].status = status]
          /\ db' = [rows |-> Dispatch!Rows', fleet |-> [db.fleet EXCEPT ![bus] = mark]]
  BY DEF Dispatch!Rows, DispatchDbs
<1>3. DispatchTableInv'
  BY <1>2, DispatchClosed
<1>4. DispatchFollows
  <2>1. "gone" # "none" /\ "none" \notin Dispatch!Kept /\ {"COMPLETED", "CANCELLED"} \subseteq Dispatch!Kept
    BY DEF Dispatch!Kept, Dispatch!Live
  <2>2. \A j \in Dispatch!Ids : Dispatch!Rows'[j] = IF j = i THEN [Dispatch!Rows[i] EXCEPT !.status = status]
            ELSE Dispatch!Rows[j]
    BY <1>1, <1>2
  <2>3. Dispatch!Rows'[i].status = status /\ Dispatch!Rows'[i].day = Dispatch!Rows[i].day
    BY <1>1, <2>2 DEF Dispatch!RowType
  <2> QED
    BY <2>1, <2>2, <2>3 DEF DispatchFollows
<1>5. db' \in DispatchDbs
  <2>1. [db.fleet EXCEPT ![bus] = mark] \in [Buses -> DispatchStatuses]
    BY DEF DispatchDbs
  <2> QED
    BY <1>2, <1>3, <2>1 DEF DispatchTableInv, DispatchDbs
<1> QED
  BY <1>3, <1>4, <1>5

LEMMA DispatchTableEndShift ==
  ASSUME db \in DispatchDbs, DispatchTableInv, hist \in DispatchHists, NEW r \in wire,
             DispatchSound(r, Dispatch!Rows), Dispatch!SaveEndShift(r)
  PROVE  db' \in DispatchDbs /\ DispatchTableInv' /\ DispatchFollows
<1>1. r.id \in Dispatch!Ids /\ UNCHANGED hist
  BY DEF Dispatch!SaveEndShift, DispatchSound
<1>2. CASE Dispatch!Rows[r.id].status \in Dispatch!Kept
  <2>1. db' = [db EXCEPT !.rows[r.id].status = "COMPLETED", !.fleet[r.row.bus] = "ACTIVE"]
    BY <1>2 DEF Dispatch!SaveEndShift
  <2> QED
    BY <1>1, <1>2, <2>1, DispatchTableClosed DEF DispatchStatuses
<1>3. CASE Dispatch!Rows[r.id].status \notin Dispatch!Kept
  <2> DEFINE fleet == [db.fleet EXCEPT ![r.row.bus] = "ACTIVE"]
  <2>1. fleet \in [Buses -> DispatchStatuses] /\ db' = [db EXCEPT !.fleet = fleet]
    BY <1>3 DEF Dispatch!SaveEndShift, DispatchDbs, DispatchStatuses
  <2> HIDE DEF fleet
  <2> QED
    BY <1>1, <2>1, DispatchMarked
<1> QED
  BY <1>2, <1>3

LEMMA DispatchTableOff ==
  ASSUME db \in DispatchDbs, DispatchTableInv, hist \in DispatchHists, NEW r \in wire,
             DispatchSound(r, Dispatch!Rows), Dispatch!ServeOff(r)
  PROVE  db' \in DispatchDbs /\ DispatchTableInv' /\ DispatchFollows
<1>1. r.id \in Dispatch!Ids
  BY DEF Dispatch!ServeOff, DispatchSound
<1>2. CASE Dispatch!Rows[r.id].status \in Dispatch!Kept
  <2> DEFINE status == IF r.kind = "delete" THEN "gone" ELSE "CANCELLED"
             mark == IF r.kind = "breakdown" THEN "BREAKDOWN" ELSE "ACTIVE"
  <2>1. db' = [db EXCEPT !.rows[r.id].status = status, !.fleet[Dispatch!Rows[r.id].bus] = mark]
    BY <1>2 DEF Dispatch!ServeOff
  <2>2. hist' = IF r.kind = "delete" THEN [hist EXCEPT !.deleted = @ \cup {r.id}] ELSE hist
    BY <1>2 DEF Dispatch!ServeOff
  <2>3. hist'.loose = hist.loose /\ hist.deleted \subseteq hist'.deleted
            /\ (status = "gone" => r.id \in hist'.deleted)
    BY <2>2 DEF DispatchHists
  <2>4. status \in {"COMPLETED", "CANCELLED", "gone"} /\ mark \in DispatchStatuses
    BY DEF DispatchStatuses
  <2> HIDE DEF status, mark
  <2> QED
    BY <1>1, <1>2, <2>1, <2>3, <2>4, DispatchTableClosed
<1>3. CASE Dispatch!Rows[r.id].status \notin Dispatch!Kept
  <2>1. UNCHANGED <<db, hist>>
    BY <1>3 DEF Dispatch!ServeOff
  <2> QED
    BY <2>1, DispatchUntouched
<1> QED
  BY <1>2, <1>3

LEMMA DispatchTableDue ==
  ASSUME db \in DispatchDbs, DispatchTableInv, hist \in DispatchHists, NEW r \in wire, NEW i \in Dispatch!Ids,
             Dispatch!CompleteDue(r, i)
  PROVE  db' \in DispatchDbs /\ DispatchTableInv' /\ DispatchFollows
<1>1. UNCHANGED hist
  BY DEF Dispatch!CompleteDue
<1>2. CASE Dispatch!Rows[i].status \in Dispatch!Kept
  <2>1. db' = [db EXCEPT !.rows[i].status = "COMPLETED", !.fleet[r.seen[i].bus] = "ACTIVE"]
    BY <1>2 DEF Dispatch!CompleteDue
  <2> QED
    BY <1>1, <1>2, <2>1, DispatchTableClosed DEF DispatchStatuses
<1>3. CASE Dispatch!Rows[i].status \notin Dispatch!Kept
  <2> DEFINE fleet == [db.fleet EXCEPT ![r.seen[i].bus] = "ACTIVE"]
  <2>1. fleet \in [Buses -> DispatchStatuses] /\ db' = [db EXCEPT !.fleet = fleet]
    BY <1>3 DEF Dispatch!CompleteDue, DispatchDbs, DispatchStatuses
  <2> HIDE DEF fleet
  <2> QED
    BY <1>1, <2>1, DispatchMarked
<1> QED
  BY <1>2, <1>3
-----------------------------------------------------------------------------
\* ---- the requests ---------------------------------------------------------------

DispatchKinds == {"assign", "generate", "copy", "breakdown", "remove", "end", "delete", "reassign", "update",
    "beat"}

LEMMA DispatchBlankType ==
  ASSUME Dispatch!DispatchAssumption
  PROVE  /\ 0 \notin Dispatch!Ids /\ Dispatch!NoRow \in Dispatch!RowType
                /\ Dispatch!NoRows \in [Dispatch!Ids -> Dispatch!RowType]
         /\ \A kind \in DispatchKinds : /\ Dispatch!Request(kind) \in Dispatch!Requests
                                        /\ Dispatch!Request(kind).kind = kind
                                               /\ Dispatch!Request(kind).phase = "sent"
                                        /\ Dispatch!Request(kind).made = 0
                                               /\ Dispatch!Request(kind).seen = Dispatch!NoRows
<1>1. Dispatch!NoRow \in Dispatch!RowType /\ 0 \notin Dispatch!Ids
  BY DEF Dispatch!NoRow, Dispatch!RowType, Dispatch!Ids, Dispatch!DispatchAssumption
<1>2. Dispatch!NoRows \in [Dispatch!Ids -> Dispatch!RowType]
  BY <1>1 DEF Dispatch!NoRows
<1> QED
  BY <1>1, <1>2 DEF Dispatch!Request, Dispatch!Requests, DispatchKinds

\* One request more, or one in the place of another.
LEMMA DispatchWireAdds ==
  ASSUME DispatchWireInv, DispatchFollows, NEW q \in Dispatch!Requests, DispatchSound(q, Dispatch!Rows'),
             DispatchThere(q.made)', wire' \subseteq wire \cup {q}
  PROVE  DispatchWireInv'
<1>1. \A r \in wire : r \in Dispatch!Requests /\ DispatchSound(r, Dispatch!Rows') /\ DispatchThere(r.made)'
  BY DispatchSoundFollows DEF DispatchWireInv
<1> QED
  BY <1>1 DEF DispatchWireInv

LEMMA DispatchWireLoses ==
  ASSUME DispatchWireInv, DispatchFollows, wire' \subseteq wire
  PROVE  DispatchWireInv'
<1>1. \A r \in wire : r \in Dispatch!Requests /\ DispatchSound(r, Dispatch!Rows') /\ DispatchThere(r.made)'
  BY DispatchSoundFollows DEF DispatchWireInv
<1> QED
  BY <1>1 DEF DispatchWireInv

\* An answer is nothing a handler goes on from.
LEMMA DispatchAnswered ==
  ASSUME DispatchWireInv, DispatchFollows, NEW r \in wire, NEW phase \in {"ok", "error"}, Dispatch!Answer(r, phase)
  PROVE  DispatchWireInv'
<1> DEFINE q == [r EXCEPT !.phase = phase]
<1>1. r \in Dispatch!Requests /\ DispatchSound(r, Dispatch!Rows') /\ DispatchThere(r.made)'
  BY DispatchSoundFollows DEF DispatchWireInv
<1>2. /\ q \in Dispatch!Requests /\ q.phase = phase /\ q.kind = r.kind /\ q.id = r.id /\ q.made = r.made
      /\ q.row = r.row /\ q.put = r.put /\ q.seen = r.seen
  BY <1>1 DEF Dispatch!Requests
<1>3. wire' \subseteq wire \cup {q}
  BY DEF Dispatch!Answer
<1> HIDE DEF q
<1>4. DispatchSound(q, Dispatch!Rows') /\ DispatchThere(q.made)'
  BY <1>1, <1>2 DEF DispatchSound
<1> QED
  BY <1>2, <1>3, <1>4, DispatchWireAdds

LEMMA DispatchStaysSame == ASSUME UNCHANGED <<db, hist>> PROVE DispatchFollows
  BY DEF DispatchFollows, Dispatch!Rows

\* What is sent has nothing found yet.
LEMMA DispatchSent ==
  ASSUME Dispatch!DispatchAssumption, DispatchWireInv, NEW q \in Dispatch!Requests, q.phase = "sent", q.made = 0,
             q.seen = Dispatch!NoRows,
         q.kind \in {"copy", "breakdown", "remove", "end", "delete", "reassign", "update"} => q.id \in Dispatch!Ids,
         q.kind = "assign" => q.row.status \in Dispatch!Live, q.kind = "update" => q.put.status \in Dispatch!Kept,
         Dispatch!Send(q), hist \in DispatchHists, UNCHANGED db
  PROVE  DispatchWireInv' /\ DispatchFollows
<1>1. hist'.deleted = hist.deleted
  BY DEF Dispatch!Send, DispatchHists
<1>2. DispatchFollows
  BY <1>1 DEF DispatchFollows, Dispatch!Rows
<1>3. DispatchSound(q, Dispatch!Rows')
  BY DEF DispatchSound, Dispatch!NoRows
<1>4. DispatchThere(q.made)'
  BY DispatchBlankType DEF DispatchThere
<1> QED
  BY <1>2, <1>3, <1>4, DispatchWireAdds DEF Dispatch!Send
-----------------------------------------------------------------------------
\* ---- the server ------------------------------------------------------------------

\* What a handler's step keeps: it leaves the page alone.
DispatchServed ==
    /\ db' \in DispatchDbs /\ DispatchTableInv' /\ DispatchFollows /\ DispatchWireInv' /\ hist' \in DispatchHists
           /\ hist'.made = hist.made
    /\ UNCHANGED <<shown, due, dialog, form>>

\* A handler has found that it may go on, or not.
LEMMA DispatchChecked ==
  ASSUME db \in DispatchDbs, DispatchTableInv, hist \in DispatchHists, DispatchWireInv, NEW r \in wire,
             NEW row \in Dispatch!RowType, NEW free \in BOOLEAN,
         NEW ok, Dispatch!GoOn(r, ok, row, free),
         ok => /\ r.kind \in {"assign", "copy", "reassign", "update", "end"} /\ (r.kind # "end" => free)
               /\ r.kind \in {"assign", "copy", "reassign", "end"} => row.status \in Dispatch!Live
               /\ r.kind = "update" => Dispatch!Rows[r.id].status # "none" /\ Dispatch!Rows[r.id].day = row.day
  PROVE  DispatchServed
<1>1. UNCHANGED <<db, shown, due, dialog, form, hist>>
  BY DEF Dispatch!GoOn
<1>2. DispatchFollows
  BY <1>1, DispatchStaysSame
<1>3. db' \in DispatchDbs /\ DispatchTableInv' /\ hist' \in DispatchHists /\ hist'.made = hist.made
  BY <1>1, DispatchUntouched
<1>4. CASE ok
  <2> DEFINE q == [r EXCEPT !.phase = "read", !.row = row, !.free = free]
  <2>1. r \in Dispatch!Requests /\ DispatchSound(r, Dispatch!Rows) /\ DispatchThere(r.made)
    BY DEF DispatchWireInv
  <2>2. /\ q \in Dispatch!Requests /\ q.phase = "read" /\ q.kind = r.kind /\ q.id = r.id /\ q.made = r.made
        /\ q.row = row /\ q.free = free /\ q.put = r.put /\ q.seen = r.seen
    BY <2>1 DEF Dispatch!Requests
  <2>3. wire' \subseteq wire \cup {q}
    BY <1>4 DEF Dispatch!GoOn, Dispatch!Replace
  <2> HIDE DEF q
  <2>4. Dispatch!Rows' = Dispatch!Rows
    BY <1>1 DEF Dispatch!Rows
  <2>5. DispatchSound(q, Dispatch!Rows')
    BY <1>4, <2>1, <2>2, <2>4 DEF DispatchSound
  <2>6. DispatchThere(q.made)'
    BY <1>1, <2>1, <2>2, <2>4 DEF DispatchThere
  <2> QED
    BY <1>1, <1>2, <1>3, <2>2, <2>3, <2>5, <2>6, DispatchWireAdds DEF DispatchServed
<1>5. CASE ~ok
  <2>1. Dispatch!Answer(r, "error")
    BY <1>5 DEF Dispatch!GoOn
  <2> QED
    BY <1>1, <1>2, <1>3, <2>1, DispatchAnswered DEF DispatchServed
<1> QED
  BY <1>4, <1>5

LEMMA DispatchServedChecks ==
  ASSUME db \in DispatchDbs, DispatchTableInv, hist \in DispatchHists, DispatchWireInv, NEW r \in wire,
         Dispatch!CheckAssign(r) \/ Dispatch!CheckCopy(r) \/ Dispatch!CheckReassign(r) \/ Dispatch!CheckUpdate(r)
             \/ Dispatch!CheckEndShift(r)
  PROVE  DispatchServed
<1>1. r \in Dispatch!Requests /\ DispatchSound(r, Dispatch!Rows)
          /\ Dispatch!Rows \in [Dispatch!Ids -> Dispatch!RowType]
  BY DEF DispatchWireInv, DispatchTableInv
<1>2. Dispatch!Today = 1 /\ "PENDING" \in Dispatch!Live /\ "ACTIVE" \in Dispatch!Live
          /\ Dispatch!Live \subseteq Dispatch!Kept /\ "none" \notin Dispatch!Kept
  BY DEF Dispatch!Today, Dispatch!Live, Dispatch!Kept
<1>3. \A day \in 0..2, bus \in Buses \cup {None}, driver \in Crew \cup {None}, status \in Dispatch!Live :
        Dispatch!Row(day, bus, driver, status, FALSE) \in Dispatch!RowType
            /\ Dispatch!Row(day, bus, driver, status, FALSE).status = status
  BY <1>2 DEF Dispatch!Row, Dispatch!RowType
<1>4. \A row \in Dispatch!RowType : row.day \in 0..2 /\ row.bus \in Buses \cup {None}
          /\ row.driver \in Crew \cup {None}
  BY DEF Dispatch!RowType
<1>5. CASE Dispatch!CheckAssign(r)
  <2> DEFINE free == ~Dispatch!Busy(r.row.day, r.row.driver, {})
             ok == ~Dispatch!Occupied(r.row.day, r.row.bus, {}) /\ free
  <2>1. r.row \in Dispatch!RowType /\ r.kind = "assign" /\ r.row.status \in Dispatch!Live
            /\ Dispatch!GoOn(r, ok, r.row, free)
    BY <1>1, <1>5 DEF Dispatch!CheckAssign, Dispatch!Requests, DispatchSound
  <2>2. free \in BOOLEAN
    BY DEF Dispatch!Busy
  <2>3. ok => free
    OBVIOUS
  <2> HIDE DEF free, ok
  <2> QED
    BY <2>1, <2>2, <2>3, DispatchChecked
<1>6. CASE Dispatch!CheckCopy(r)
  <2> DEFINE row == Dispatch!Row(Dispatch!Today, Dispatch!Rows[r.id].bus, Dispatch!Rows[r.id].driver, "PENDING",
          FALSE)
             free == ~Dispatch!Busy(Dispatch!Today, row.driver, {})
             ok == Dispatch!Rows[r.id].status \in Dispatch!Kept /\ ~Dispatch!Occupied(Dispatch!Today, row.bus, {})
                 /\ free
  <2>1. r.kind = "copy" /\ r.id \in Dispatch!Ids
    BY <1>1, <1>6 DEF Dispatch!CheckCopy, DispatchSound
  <2>2. row \in Dispatch!RowType /\ row.status \in Dispatch!Live
    <3>1. Dispatch!Rows[r.id] \in Dispatch!RowType
      BY <1>1, <2>1
    <3>2. Dispatch!Today \in 0..2 /\ Dispatch!Rows[r.id].bus \in Buses \cup {None}
              /\ Dispatch!Rows[r.id].driver \in Crew \cup {None}
      BY <1>2, <1>4, <3>1
    <3> QED
      BY <1>2, <1>3, <3>2
  <2>3. CASE ok
    <3>1. Dispatch!GoOn(r, TRUE, row, free)
      BY <1>6, <2>3 DEF Dispatch!CheckCopy
    <3>2. free
      BY <2>3
    <3> HIDE DEF row, free, ok
    <3> QED
      BY <2>1, <2>2, <3>1, <3>2, DispatchChecked
  <2>4. CASE ~ok
    <3>1. Dispatch!Answer(r, "ok") /\ UNCHANGED <<db, shown, due, dialog, form, hist>>
      BY <1>6, <2>4 DEF Dispatch!CheckCopy
    <3>2. DispatchFollows /\ db' \in DispatchDbs /\ DispatchTableInv'
      BY <3>1, DispatchUntouched
    <3>3. DispatchWireInv'
      BY <3>1, <3>2, DispatchAnswered
    <3> QED
      BY <3>1, <3>2, <3>3 DEF DispatchServed
  <2> QED
    BY <2>3, <2>4
<1>7. CASE Dispatch!CheckReassign(r)
  <2> DEFINE old == Dispatch!Rows[r.id]
             free == ~Dispatch!Busy(old.day, old.driver, {r.id})
             taken == \E i \in Dispatch!Ids : Dispatch!Rows[i].status \in Dispatch!Live
                 /\ Dispatch!Rows[i].day = old.day /\ Dispatch!Rows[i].bus = r.row.bus
             ok == old.status \in Dispatch!Kept /\ ~taken /\ free
             row == Dispatch!Row(old.day, r.row.bus, old.driver, "ACTIVE", FALSE)
  <2>1. r.kind = "reassign" /\ r.id \in Dispatch!Ids /\ r.row \in Dispatch!RowType
    BY <1>1, <1>7 DEF Dispatch!CheckReassign, DispatchSound, Dispatch!Requests
  <2>2. row \in Dispatch!RowType /\ row.status \in Dispatch!Live
    <3>1. old \in Dispatch!RowType
      BY <1>1, <2>1
    <3>2. old.day \in 0..2 /\ r.row.bus \in Buses \cup {None} /\ old.driver \in Crew \cup {None}
      BY <1>4, <2>1, <3>1
    <3> QED
      BY <1>2, <1>3, <3>2
  <2>3. Dispatch!GoOn(r, ok, row, free)
    BY <1>7 DEF Dispatch!CheckReassign
  <2>4. free \in BOOLEAN /\ (ok => free)
    OBVIOUS
  <2> HIDE DEF row, free, ok
  <2> QED
    BY <2>1, <2>2, <2>3, <2>4, DispatchChecked
<1>8. CASE Dispatch!CheckUpdate(r)
  <2> DEFINE old == Dispatch!Rows[r.id]
             free == ~Dispatch!Busy(old.day, r.put.driver, {r.id})
             ok == old.status \in Dispatch!Kept /\ ~Dispatch!Occupied(old.day, r.put.bus, {r.id}) /\ free
  <2>1. r.kind = "update" /\ r.id \in Dispatch!Ids /\ old \in Dispatch!RowType
    BY <1>1, <1>8 DEF Dispatch!CheckUpdate, DispatchSound
  <2>2. Dispatch!GoOn(r, ok, old, free)
    BY <1>8 DEF Dispatch!CheckUpdate
  <2>3. free \in BOOLEAN /\ (ok => free /\ old.status # "none")
    BY <1>2
  <2> HIDE DEF free, ok
  <2> QED
    BY <2>1, <2>2, <2>3, DispatchChecked
<1>9. CASE Dispatch!CheckEndShift(r)
  <2> DEFINE ok == Dispatch!Rows[r.id].status \in Dispatch!Live
  <2>1. r.kind = "end" /\ r.id \in Dispatch!Ids /\ Dispatch!Rows[r.id] \in Dispatch!RowType
    BY <1>1, <1>9 DEF Dispatch!CheckEndShift, DispatchSound
  <2>2. Dispatch!GoOn(r, ok, Dispatch!Rows[r.id], FALSE)
    BY <1>9 DEF Dispatch!CheckEndShift
  <2>3. ok => Dispatch!Rows[r.id].status \in Dispatch!Live
    OBVIOUS
  <2> HIDE DEF ok
  <2> QED
    BY <2>1, <2>2, <2>3, DispatchChecked
<1> QED
  BY <1>5, <1>6, <1>7, <1>8, <1>9

\* Rows that are on record are rows.
LEMMA DispatchHistKept ==
  ASSUME hist \in DispatchHists,
         \/ hist' = hist
         \/ \E s \in SUBSET Dispatch!Ids : hist' = [hist EXCEPT !.loose = @ \cup s]
                \/ hist' = [hist EXCEPT !.deleted = @ \cup s]
  PROVE  hist' \in DispatchHists /\ hist'.made = hist.made
  BY DEF DispatchHists

LEMMA DispatchServedInsert ==
  ASSUME Dispatch!DispatchAssumption, db \in DispatchDbs, DispatchTableInv, hist \in DispatchHists,
             DispatchWireInv, NEW r \in wire, Dispatch!Insert(r)
  PROVE  DispatchServed
<1>1. r \in Dispatch!Requests /\ DispatchSound(r, Dispatch!Rows) /\ DispatchThere(r.made)
  BY DEF DispatchWireInv
<1>2. db' \in DispatchDbs /\ DispatchTableInv' /\ DispatchFollows
  BY <1>1, DispatchTableInsert
<1>3. UNCHANGED <<shown, due, dialog, form>>
  BY DEF Dispatch!Insert
<1>4. CASE Dispatch!Occupied(r.row.day, r.row.bus, {})
  <2>1. Dispatch!Answer(r, "error") /\ UNCHANGED hist
    BY <1>4 DEF Dispatch!Insert
  <2> QED
    BY <1>2, <1>3, <2>1, DispatchAnswered DEF DispatchServed
<1>5. CASE ~Dispatch!Occupied(r.row.day, r.row.bus, {})
  <2>1. PICK i \in Dispatch!Fresh :
          /\ db' = [db EXCEPT !.rows[i] = r.row, !.fleet[r.row.bus] = "ASSIGNED"]
          /\ hist' = [hist EXCEPT !.loose = @ \cup Dispatch!Loose(r, i, r.row)]
          /\ IF r.who = "desk" THEN Dispatch!Replace(r, [r EXCEPT !.phase = "ok", !.made = i])
                 ELSE Dispatch!Answer(r, "ok")
    BY <1>5 DEF Dispatch!Insert
  <2>2. hist' \in DispatchHists /\ hist'.made = hist.made
    <3>1. Dispatch!Loose(r, i, r.row) \subseteq Dispatch!Ids
      BY DEF Dispatch!Loose, Dispatch!Fresh
    <3> QED
      BY <2>1, <3>1, DispatchHistKept
  <2>3. CASE r.who = "desk"
    <3> DEFINE q == [r EXCEPT !.phase = "ok", !.made = i]
    <3>1. i \in Dispatch!Ids
      BY DEF Dispatch!Fresh
    <3>2. /\ q \in Dispatch!Requests /\ q.phase = "ok" /\ q.kind = r.kind /\ q.id = r.id /\ q.made = i
          /\ q.row = r.row /\ q.put = r.put /\ q.seen = r.seen
      BY <1>1, <3>1 DEF Dispatch!Requests
    <3>3. wire' \subseteq wire \cup {q}
      BY <2>1, <2>3 DEF Dispatch!Replace
    <3> HIDE DEF q
    <3>4. r.kind \in {"assign", "copy", "reassign"} /\ r.phase = "read"
      BY DEF Dispatch!Insert
    <3>5. DispatchSound(q, Dispatch!Rows')
      BY <1>1, <3>2, <3>4 DEF DispatchSound
    <3>6. Dispatch!Rows' = [Dispatch!Rows EXCEPT ![i] = r.row]
              /\ Dispatch!Rows \in [Dispatch!Ids -> Dispatch!RowType] /\ r.row.status \in Dispatch!Kept
      BY <1>1, <2>1, <3>4 DEF Dispatch!Rows, DispatchDbs, DispatchSound, Dispatch!Kept, DispatchTableInv
    <3>7. DispatchThere(q.made)'
      BY <3>1, <3>2, <3>6 DEF DispatchThere
    <3> QED
      BY <1>2, <1>3, <2>2, <3>2, <3>3, <3>5, <3>7, DispatchWireAdds DEF DispatchServed
  <2>4. CASE r.who # "desk"
    BY <1>2, <1>3, <2>1, <2>2, <2>4, DispatchAnswered DEF DispatchServed
  <2> QED
    BY <2>3, <2>4
<1> QED
  BY <1>4, <1>5

LEMMA DispatchServedWrites ==
  ASSUME Dispatch!DispatchAssumption, db \in DispatchDbs, DispatchTableInv, hist \in DispatchHists,
             DispatchWireInv, NEW r \in wire,
         Dispatch!SaveUpdate(r) \/ Dispatch!SaveEndShift(r) \/ Dispatch!ServeOff(r) \/ Dispatch!ServeGenerate(r)
  PROVE  DispatchServed
<1>1. r \in Dispatch!Requests /\ DispatchSound(r, Dispatch!Rows)
  BY DEF DispatchWireInv
<1>2. db' \in DispatchDbs /\ DispatchTableInv' /\ DispatchFollows
  BY <1>1, DispatchTableUpdate, DispatchTableEndShift, DispatchTableOff, DispatchGenerated
<1>3. UNCHANGED <<shown, due, dialog, form>>
  BY DEF Dispatch!SaveUpdate, Dispatch!SaveEndShift, Dispatch!ServeOff, Dispatch!ServeGenerate
<1>4. Dispatch!Answer(r, "ok") \/ Dispatch!Answer(r, "error")
  BY DEF Dispatch!SaveUpdate, Dispatch!SaveEndShift, Dispatch!ServeOff, Dispatch!ServeGenerate
<1>5. DispatchWireInv'
  BY <1>2, <1>4, DispatchAnswered
<1>6. hist' \in DispatchHists /\ hist'.made = hist.made
  <2>1. CASE Dispatch!SaveUpdate(r)
    <3> DEFINE row == [r.row EXCEPT !.bus = r.put.bus, !.driver = r.put.driver, !.status = r.put.status]
    <3>1. r.id \in Dispatch!Ids /\ Dispatch!Loose(r, r.id, row) \subseteq Dispatch!Ids
      BY <1>1, <2>1 DEF Dispatch!SaveUpdate, DispatchSound, Dispatch!Loose
    <3>2. hist' = hist \/ hist' = [hist EXCEPT !.loose = @ \cup Dispatch!Loose(r, r.id, row)]
      BY <2>1 DEF Dispatch!SaveUpdate
    <3> HIDE DEF row
    <3> QED
      BY <3>1, <3>2, DispatchHistKept
  <2>2. CASE Dispatch!SaveEndShift(r)
    BY <2>2, DispatchHistKept DEF Dispatch!SaveEndShift
  <2>3. CASE Dispatch!ServeOff(r)
    <3>1. {r.id} \subseteq Dispatch!Ids
      BY <1>1, <2>3 DEF Dispatch!ServeOff, DispatchSound
    <3> QED
      BY <2>3, <3>1, DispatchHistKept DEF Dispatch!ServeOff
  <2>4. CASE Dispatch!ServeGenerate(r)
    <3> DEFINE of(v) == {i \in Dispatch!Ids : Dispatch!Rows[i].status \in Dispatch!Kept
            /\ Dispatch!Rows[i].day = Dispatch!Today /\ Dispatch!Rows[i].bus = v}
               old == UNION {of(v) : v \in r.buses}
               opened == {i \in old : Dispatch!Rows[i].status \notin Dispatch!Live}
    <3>1. hist' = [hist EXCEPT !.loose = @ \cup opened]
      BY <2>4 DEF Dispatch!ServeGenerate
    <3>2. opened \subseteq Dispatch!Ids
      OBVIOUS
    <3> HIDE DEF opened
    <3> QED
      BY <3>1, <3>2, DispatchHistKept
  <2> QED
    BY <2>1, <2>2, <2>3, <2>4
<1> QED
  BY <1>2, <1>3, <1>5, <1>6 DEF DispatchServed

\* ---- the clock -------------------------------------------------------------------

LEMMA DispatchServedBeat ==
  ASSUME Dispatch!DispatchAssumption, db \in DispatchDbs, DispatchTableInv, hist \in DispatchHists,
             DispatchWireInv, Dispatch!BeatReads
  PROVE  DispatchServed
<1>1. PICK ended \in SUBSET Dispatch!OpenToday :
         wire' = wire \cup {[Dispatch!Request("beat") EXCEPT !.who = "other", !.phase = "run",
                                                    !.seen = [i \in Dispatch!Ids |->
                                                        IF i \in ended THEN Dispatch!Rows[i] ELSE Dispatch!NoRow]]}
  BY DEF Dispatch!BeatReads
<1>2. PICK seen \in [Dispatch!Ids -> Dispatch!RowType] :
         /\ seen = [i \in Dispatch!Ids |-> IF i \in ended THEN Dispatch!Rows[i] ELSE Dispatch!NoRow]
         /\ \A i \in Dispatch!Ids : seen[i] # Dispatch!NoRow => seen[i].status \in Dispatch!Live
  <2> DEFINE seen == [i \in Dispatch!Ids |-> IF i \in ended THEN Dispatch!Rows[i] ELSE Dispatch!NoRow]
  <2>1. seen \in [Dispatch!Ids -> Dispatch!RowType]
    BY DispatchBlankType DEF DispatchTableInv
  <2>2. \A i \in Dispatch!Ids : seen[i] # Dispatch!NoRow => seen[i].status \in Dispatch!Live
    BY DEF Dispatch!OpenToday
  <2> QED
    BY <2>1, <2>2
<1> DEFINE q == [Dispatch!Request("beat") EXCEPT !.who = "other", !.phase = "run", !.seen = seen]
<1>3. hist' = [hist EXCEPT !.ran = TRUE] /\ UNCHANGED <<db, shown, due, dialog, form>>
  BY DEF Dispatch!BeatReads
<1>4. hist' \in DispatchHists /\ hist'.made = hist.made /\ hist'.loose = hist.loose /\ hist'.deleted = hist.deleted
  BY <1>3 DEF DispatchHists
<1>5. db' \in DispatchDbs /\ DispatchTableInv' /\ DispatchFollows
  BY <1>3, <1>4, DispatchUntouched
<1>6. wire' \subseteq wire \cup {q}
  BY <1>1, <1>2
<1>7. q \in Dispatch!Requests /\ q.kind = "beat" /\ q.phase = "run" /\ q.made = 0 /\ q.seen = seen
  BY <1>2, DispatchBlankType DEF Dispatch!Requests, DispatchKinds
<1> HIDE DEF q
<1>8. DispatchSound(q, Dispatch!Rows')
  BY <1>2, <1>7 DEF DispatchSound
<1>9. DispatchThere(q.made)'
  BY <1>7, DispatchBlankType DEF DispatchThere
<1> QED
  BY <1>3, <1>4, <1>5, <1>6, <1>7, <1>8, <1>9, DispatchWireAdds DEF DispatchServed

LEMMA DispatchServedDue ==
  ASSUME Dispatch!DispatchAssumption, db \in DispatchDbs, DispatchTableInv, hist \in DispatchHists,
             DispatchWireInv, NEW r \in wire, NEW i \in Dispatch!Ids,
         Dispatch!CompleteDue(r, i)
  PROVE  DispatchServed
<1> DEFINE seen == [r.seen EXCEPT ![i] = Dispatch!NoRow]
           next == Dispatch!Row(2, r.seen[i].bus, r.seen[i].driver, "PENDING", TRUE)
<1>1. db' \in DispatchDbs /\ DispatchTableInv' /\ DispatchFollows /\ UNCHANGED <<shown, due, dialog, form, hist>>
  BY DispatchTableDue DEF Dispatch!CompleteDue
<1>2. r \in Dispatch!Requests /\ DispatchSound(r, Dispatch!Rows) /\ DispatchThere(r.made)' /\ r.kind = "beat"
          /\ r.phase = "run"
  BY DispatchSoundFollows, <1>1 DEF DispatchWireInv, Dispatch!CompleteDue
<1>3. /\ seen \in [Dispatch!Ids -> Dispatch!RowType] /\ next \in Dispatch!RowType /\ next.status \in Dispatch!Live
             /\ next.day = 2
      /\ \A j \in Dispatch!Ids : seen[j] # Dispatch!NoRow => seen[j].status \in Dispatch!Live
  <2>1. r.seen \in [Dispatch!Ids -> Dispatch!RowType] /\ r.seen[i] \in Dispatch!RowType
    BY <1>2 DEF Dispatch!Requests
  <2>2. next \in Dispatch!RowType /\ next.status \in Dispatch!Live /\ next.day = 2
    BY <2>1 DEF Dispatch!Row, Dispatch!RowType, Dispatch!Live, Dispatch!Kept
  <2>3. \A j \in Dispatch!Ids : r.seen[j] # Dispatch!NoRow => r.seen[j].status \in Dispatch!Live
    BY <1>2 DEF DispatchSound
  <2>4. seen \in [Dispatch!Ids -> Dispatch!RowType]
            /\ \A j \in Dispatch!Ids : seen[j] = IF j = i THEN Dispatch!NoRow ELSE r.seen[j]
    BY <2>1, DispatchBlankType
  <2> HIDE DEF seen, next
  <2> QED
    BY <2>2, <2>3, <2>4
<1>4. \/ wire' \subseteq wire
      \/ wire' \subseteq wire \cup {[r EXCEPT !.phase = "recur", !.seen = seen, !.row = next, !.free = TRUE]}
      \/ wire' \subseteq wire \cup {[r EXCEPT !.seen = seen]}
  BY DEF Dispatch!CompleteDue, Dispatch!Replace
<1> HIDE DEF seen, next
<1>5. DispatchWireInv'
  <2>1. CASE wire' \subseteq wire
    BY <1>1, <2>1, DispatchWireLoses
  <2>2. CASE wire' \subseteq wire \cup {[r EXCEPT !.phase = "recur", !.seen = seen, !.row = next, !.free = TRUE]}
    <3> DEFINE q == [r EXCEPT !.phase = "recur", !.seen = seen, !.row = next, !.free = TRUE]
    <3>1. /\ q \in Dispatch!Requests /\ q.kind = "beat" /\ q.phase = "recur" /\ q.free /\ q.row = next
                 /\ q.seen = seen
          /\ q.made = r.made
      BY <1>2, <1>3 DEF Dispatch!Requests
    <3> HIDE DEF q
    <3>2. DispatchSound(q, Dispatch!Rows') /\ DispatchThere(q.made)'
      BY <1>2, <1>3, <3>1 DEF DispatchSound
    <3> QED
      BY <1>1, <2>2, <3>1, <3>2, DispatchWireAdds DEF q
  <2>3. CASE wire' \subseteq wire \cup {[r EXCEPT !.seen = seen]}
    <3> DEFINE q == [r EXCEPT !.seen = seen]
    <3>1. /\ q \in Dispatch!Requests /\ q.kind = "beat" /\ q.phase = "run" /\ q.seen = seen /\ q.made = r.made
      BY <1>2, <1>3 DEF Dispatch!Requests
    <3> HIDE DEF q
    <3>2. DispatchSound(q, Dispatch!Rows') /\ DispatchThere(q.made)'
      BY <1>2, <1>3, <3>1 DEF DispatchSound
    <3> QED
      BY <1>1, <2>3, <3>1, <3>2, DispatchWireAdds DEF q
  <2> QED
    BY <1>4, <2>1, <2>2, <2>3
<1> QED
  BY <1>1, <1>5 DEF DispatchServed

LEMMA DispatchServedRecur ==
  ASSUME Dispatch!DispatchAssumption, db \in DispatchDbs, DispatchTableInv, hist \in DispatchHists,
             DispatchWireInv, NEW r \in wire, Dispatch!Recur(r) \/ Dispatch!BeatEnds(r)
  PROVE  DispatchServed
<1>1. r \in Dispatch!Requests /\ DispatchSound(r, Dispatch!Rows)
  BY DEF DispatchWireInv
<1>2. CASE Dispatch!BeatEnds(r)
  <2>1. wire' \subseteq wire /\ UNCHANGED <<db, shown, due, dialog, form, hist>>
    BY <1>2 DEF Dispatch!BeatEnds
  <2>2. db' \in DispatchDbs /\ DispatchTableInv' /\ DispatchFollows
    BY <2>1, DispatchUntouched
  <2> QED
    BY <2>1, <2>2, DispatchWireLoses DEF DispatchServed
<1>3. CASE Dispatch!Recur(r)
  <2> DEFINE q == [r EXCEPT !.phase = "run"]
  <2>1. db' \in DispatchDbs /\ DispatchTableInv' /\ DispatchFollows /\ UNCHANGED <<shown, due, dialog, form>>
    BY <1>1, <1>3, DispatchTableRecur DEF Dispatch!Recur
  <2>2. /\ q \in Dispatch!Requests /\ q.phase = "run" /\ q.kind = "beat" /\ r.kind = "beat" /\ q.seen = r.seen
               /\ q.made = r.made
    BY <1>1, <1>3 DEF Dispatch!Requests, Dispatch!Recur
  <2>3. wire' \subseteq wire \cup {q}
    BY <1>3 DEF Dispatch!Recur, Dispatch!Replace
  <2>4. hist' \in DispatchHists /\ hist'.made = hist.made
    <3>1. CASE UNCHANGED hist
      BY <3>1
    <3>2. ASSUME NEW i \in Dispatch!Fresh, hist' = [hist EXCEPT !.loose = @ \cup Dispatch!Loose(r, i, r.row)]
          PROVE  hist' \in DispatchHists /\ hist'.made = hist.made
      <4>1. Dispatch!Loose(r, i, r.row) \subseteq Dispatch!Ids
        BY DEF Dispatch!Loose, Dispatch!Fresh
      <4> QED
        BY <3>2, <4>1, DispatchHistKept
    <3> QED
      BY <1>3, <3>1, <3>2 DEF Dispatch!Recur
  <2> HIDE DEF q
  <2>5. DispatchSound(q, Dispatch!Rows') /\ DispatchThere(q.made)'
    BY <1>1, <2>1, <2>2, DispatchSoundFollows DEF DispatchSound, DispatchWireInv
  <2> QED
    BY <2>1, <2>2, <2>3, <2>4, <2>5, DispatchWireAdds DEF DispatchServed
<1> QED
  BY <1>2, <1>3
-----------------------------------------------------------------------------
\* ---- the page --------------------------------------------------------------------

\* A handler's step leaves the lists, and what was made is still there.
LEMMA DispatchPageServed ==
  ASSUME DispatchPageInv, DispatchWireInv, DispatchMadeInv, Dispatch!RestingListKnowsMade, DispatchServed
  PROVE  DispatchPageInv' /\ DispatchMadeInv' /\ Dispatch!RestingListKnowsMade'
<1>1. UNCHANGED <<shown, due, dialog, form>> /\ hist' \in DispatchHists /\ hist'.made = hist.made /\ DispatchFollows
  BY DEF DispatchServed
<1>2. DispatchPageInv'
  BY <1>1 DEF DispatchPageInv
<1>3. DispatchMadeInv'
  BY <1>1 DEF DispatchMadeInv, DispatchThere, DispatchFollows
<1>4. Dispatch!RestingListKnowsMade'
  <2> SUFFICES ASSUME "today" \notin due, NEW i \in hist.made \ hist'.deleted,
          Dispatch!Rows'[i].day = Dispatch!Today
               PROVE  i \in DOMAIN shown["today"]
    BY <1>1 DEF Dispatch!RestingListKnowsMade
  <2>1. i \in Dispatch!Ids /\ i \notin hist.deleted
    BY <1>1 DEF DispatchFollows, DispatchPageInv, DispatchHists
  <2>2. Dispatch!Rows[i].status # "none"
    BY <2>1 DEF DispatchMadeInv, DispatchThere, Dispatch!Kept, Dispatch!Live
  <2>3. Dispatch!Rows[i].day = Dispatch!Today
    BY <1>1, <2>1, <2>2 DEF DispatchFollows
  <2> QED
    BY <2>1, <2>3 DEF Dispatch!RestingListKnowsMade
<1> QED
  BY <1>2, <1>3, <1>4

\* What a gesture keeps that writes nothing on the server.
DispatchPageStep ==
    /\ UNCHANGED db /\ DispatchWireInv' /\ DispatchPageInv' /\ hist'.loose = hist.loose
           /\ hist'.deleted = hist.deleted
    /\ DispatchMadeInv' /\ Dispatch!RestingListKnowsMade'

\* A gesture that sends a request.
LEMMA DispatchSubmitted ==
  ASSUME Dispatch!DispatchAssumption, DispatchWireInv, DispatchPageInv, DispatchMadeInv,
             Dispatch!RestingListKnowsMade,
         NEW q \in Dispatch!Requests, q.phase = "sent", q.made = 0, q.seen = Dispatch!NoRows,
         q.kind \in {"copy", "breakdown", "remove", "end", "delete", "reassign", "update"} => q.id \in Dispatch!Ids,
         q.kind = "assign" => q.row.status \in Dispatch!Live, q.kind = "update" => q.put.status \in Dispatch!Kept,
         Dispatch!Submit(q)
  PROVE  DispatchPageStep
<1>1. Dispatch!Send(q) /\ UNCHANGED <<db, shown, due, dialog, form>> /\ hist \in DispatchHists
  BY DEF Dispatch!Submit, DispatchPageInv
<1>2. DispatchWireInv' /\ DispatchFollows
  BY <1>1, DispatchSent
<1>3. hist.sends < MaxSends /\ hist' = [hist EXCEPT !.sends = @ + 1]
  BY <1>1 DEF Dispatch!Send
<1>4. hist' \in DispatchHists /\ hist'.made = hist.made /\ hist'.loose = hist.loose /\ hist'.deleted = hist.deleted
  BY <1>1, <1>3 DEF DispatchHists, Dispatch!DispatchAssumption
<1>5. DispatchPageInv'
  BY <1>1, <1>4 DEF DispatchPageInv
<1>6. DispatchMadeInv' /\ Dispatch!RestingListKnowsMade'
  BY <1>1, <1>4 DEF DispatchMadeInv, DispatchThere, Dispatch!RestingListKnowsMade, Dispatch!Rows
<1> QED
  BY <1>1, <1>2, <1>4, <1>5, <1>6 DEF DispatchPageStep

\* A gesture that sends nothing, and what becomes of the requests anyway.
LEMMA DispatchLooked ==
  ASSUME DispatchWireInv, DispatchPageInv', hist'.made = hist.made, hist'.loose = hist.loose,
             hist'.deleted = hist.deleted,
         DispatchMadeInv, Dispatch!RestingListKnowsMade, UNCHANGED <<db, wire>>, shown' = shown, due \subseteq due'
  PROVE  DispatchPageStep
<1>1. Dispatch!Rows' = Dispatch!Rows
  BY DEF Dispatch!Rows
<1>2. DispatchFollows
  BY <1>1 DEF DispatchFollows
<1>3. DispatchWireInv'
  BY <1>2, DispatchWireLoses
<1> QED
  BY <1>1, <1>3 DEF DispatchPageStep, DispatchMadeInv, DispatchThere, Dispatch!RestingListKnowsMade

LEMMA DispatchPageLoads ==
  ASSUME db \in DispatchDbs, DispatchTableInv, DispatchWireInv, DispatchPageInv, DispatchMadeInv,
             Dispatch!RestingListKnowsMade, Dispatch!LoadToday \/ Dispatch!LoadFleet \/ Dispatch!Poll
  PROVE  DispatchPageStep
<1>1. UNCHANGED <<db, dialog, form, wire, hist>> /\ Dispatch!Rows' = Dispatch!Rows
  BY DEF Dispatch!LoadToday, Dispatch!LoadFleet, Dispatch!Poll, Dispatch!Arrive, Dispatch!Ask, Dispatch!Rows
<1>2. DispatchFollows
  BY <1>1, DispatchStaysSame
<1>3. DispatchWireInv' /\ DispatchMadeInv'
  BY <1>1, <1>2, DispatchWireLoses DEF DispatchMadeInv, DispatchThere
<1>4. CASE Dispatch!LoadToday
  <2>1. shown' = [shown EXCEPT !["today"] = Dispatch!On(Dispatch!Today)] /\ due' = due \ {"today"}
    BY <1>4 DEF Dispatch!LoadToday, Dispatch!Arrive
  <2>2. /\ DOMAIN Dispatch!On(Dispatch!Today)
               = {j \in Dispatch!Ids : Dispatch!Rows[j].status \in Dispatch!Kept
                   /\ Dispatch!Rows[j].day = Dispatch!Today}
        /\ \A i \in DOMAIN Dispatch!On(Dispatch!Today) : Dispatch!On(Dispatch!Today)[i] = Dispatch!Rows[i]
        /\ Dispatch!On(Dispatch!Today)
               = [i \in DOMAIN Dispatch!On(Dispatch!Today) |-> Dispatch!On(Dispatch!Today)[i]]
    BY DEF Dispatch!On
  <2>3. Dispatch!On(Dispatch!Today) \in [DOMAIN Dispatch!On(Dispatch!Today) -> Dispatch!RowType]
    BY <2>2 DEF DispatchTableInv
  <2>4. DispatchPageInv'
    BY <1>1, <2>1, <2>2, <2>3 DEF DispatchPageInv
  <2>5. shown'["today"] = Dispatch!On(Dispatch!Today)
    BY <2>1 DEF DispatchPageInv
  <2>6. Dispatch!RestingListKnowsMade'
    <3> SUFFICES ASSUME NEW i \in hist.made \ hist.deleted,
            Dispatch!Rows[i].day = Dispatch!Today PROVE i \in DOMAIN Dispatch!On(Dispatch!Today)
      BY <1>1, <2>5 DEF Dispatch!RestingListKnowsMade
    <3>1. i \in Dispatch!Ids
      BY DEF DispatchPageInv, DispatchHists
    <3> QED
      BY <2>2, <3>1 DEF DispatchMadeInv, DispatchThere
  <2> QED
    BY <1>1, <1>3, <2>4, <2>6 DEF DispatchPageStep
<1>5. CASE Dispatch!LoadFleet
  <2> DEFINE list == {v \in Buses : db.fleet[v] = "ACTIVE"}
  <2>1. shown' = [shown EXCEPT !["fleet"] = list] /\ due' = due \ {"fleet"} /\ list \subseteq Buses
    BY <1>5 DEF Dispatch!LoadFleet, Dispatch!Arrive
  <2> HIDE DEF list
  <2>2. shown'["today"] = shown["today"] /\ shown'["fleet"] = list
            /\ shown' = [k \in {"today", "fleet"} |-> shown'[k]]
    BY <2>1 DEF DispatchPageInv
  <2>3. DispatchPageInv'
    BY <1>1, <2>1, <2>2 DEF DispatchPageInv
  <2>4. Dispatch!RestingListKnowsMade'
    BY <1>1, <2>1, <2>2 DEF Dispatch!RestingListKnowsMade
  <2> QED
    BY <1>1, <1>3, <2>3, <2>4 DEF DispatchPageStep
<1>6. CASE Dispatch!Poll
  <2>1. shown' = shown /\ due' = due \cup {"today"}
    BY <1>6 DEF Dispatch!Poll, Dispatch!Ask
  <2>2. DispatchPageInv'
    BY <1>1, <2>1 DEF DispatchPageInv
  <2> QED
    BY <1>1, <2>1, <2>2, DispatchLooked
<1> QED
  BY <1>4, <1>5, <1>6

LEMMA DispatchPageGestures ==
  ASSUME Dispatch!DispatchAssumption, DispatchWireInv, DispatchPageInv, DispatchMadeInv,
             Dispatch!RestingListKnowsMade,
         \/ Dispatch!CloseDialog \/ \E i \in DOMAIN shown["today"] : Dispatch!RowButtons(i)
         \/ \E v \in Buses : Dispatch!ToggleVehicle(v)
         \/ \E i \in Dispatch!Ids : Dispatch!ToggleCopySelect(i)
  PROVE  DispatchPageStep
<1>1. CASE Dispatch!CloseDialog
  <2>1. UNCHANGED <<db, shown, due, form, wire, hist>> /\ dialog' = None
    BY <1>1 DEF Dispatch!CloseDialog
  <2>2. DispatchPageInv'
    BY <2>1 DEF DispatchPageInv
  <2> QED
    BY <2>1, <2>2, DispatchLooked
<1>2. ASSUME NEW i \in DOMAIN shown["today"], Dispatch!RowButtons(i) PROVE DispatchPageStep
  <2>1. PICK kind \in {"edit", "delete", "breakdown", "reassign", "remove", "end"} :
           Dispatch!Open([kind |-> kind, id |-> i, seen |-> shown["today"][i]])
    BY <1>2 DEF Dispatch!RowButtons
  <2>2. /\ dialog' = [kind |-> kind, id |-> i, seen |-> shown["today"][i]]
        /\ hist.opens < FewOpens /\ hist' = [hist EXCEPT !.opens = @ + 1]
        /\ UNCHANGED <<db, shown, due, form, wire>>
    BY <2>1 DEF Dispatch!Open
  <2>3. dialog' \in Dispatch!Dialogs /\ dialog'.seen.status \in Dispatch!Kept
    BY <2>2 DEF Dispatch!Dialogs, DispatchPageInv
  <2>4. hist' \in DispatchHists /\ hist'.made = hist.made /\ hist'.loose = hist.loose
            /\ hist'.deleted = hist.deleted
    BY <2>2 DEF DispatchPageInv, DispatchHists, Dispatch!DispatchAssumption
  <2>5. DispatchPageInv'
    BY <2>2, <2>3, <2>4 DEF DispatchPageInv
  <2> QED
    BY <2>2, <2>4, <2>5, DispatchLooked
<1>3. ASSUME NEW field, NEW x, Dispatch!Tick(field, x),
             \/ field = "selected" /\ x \in Buses
             \/ field = "picked" /\ x \in Dispatch!Ids
      PROVE  DispatchPageStep
  <2>1. /\ form' = [form EXCEPT ![field] = IF x \in @ THEN @ \ {x} ELSE @ \cup {x}]
        /\ hist.opens < FewOpens /\ hist' = [hist EXCEPT !.opens = @ + 1]
        /\ UNCHANGED <<db, shown, due, dialog, wire>>
    BY <1>3 DEF Dispatch!Tick
  <2>2. form' \in DispatchForms
    <3>1. CASE field = "selected" /\ x \in Buses
      BY <2>1, <3>1 DEF DispatchPageInv, DispatchForms
    <3>2. CASE field = "picked" /\ x \in Dispatch!Ids
      BY <2>1, <3>2 DEF DispatchPageInv, DispatchForms
    <3> QED
      BY <1>3, <3>1, <3>2
  <2>3. hist' \in DispatchHists /\ hist'.made = hist.made /\ hist'.loose = hist.loose
            /\ hist'.deleted = hist.deleted
    BY <2>1 DEF DispatchPageInv, DispatchHists, Dispatch!DispatchAssumption
  <2>4. DispatchPageInv'
    BY <2>1, <2>2, <2>3 DEF DispatchPageInv
  <2> QED
    BY <2>1, <2>3, <2>4, DispatchLooked
<1> QED
  BY <1>1, <1>2, <1>3 DEF Dispatch!ToggleVehicle, Dispatch!ToggleCopySelect
-----------------------------------------------------------------------------
LEMMA DispatchPageSubmits ==
  ASSUME Dispatch!DispatchAssumption, DispatchTableInv, DispatchWireInv, DispatchPageInv, DispatchMadeInv,
             Dispatch!RestingListKnowsMade,
         \/ Dispatch!SubmitAssign \/ Dispatch!SubmitGenerate \/ Dispatch!HandleCopySelected
                \/ Dispatch!HandleRepeatYesterday
         \/ Dispatch!SubmitBreakdown \/ Dispatch!SubmitRemove \/ Dispatch!SubmitEndShift \/ Dispatch!SubmitDelete
                \/ Dispatch!SubmitReassign \/ Dispatch!SubmitEdit
  PROVE  DispatchPageStep
<1>1. Dispatch!Available \subseteq Buses
  BY DEF Dispatch!Available, DispatchPageInv
<1>2. form.selected \subseteq Buses /\ form.picked \subseteq Dispatch!Ids
  BY DEF DispatchPageInv, DispatchForms
<1>3. dialog # None => dialog.id \in Dispatch!Ids /\ dialog.seen \in Dispatch!RowType
          /\ dialog.seen.status \in Dispatch!Kept
  BY DEF DispatchPageInv, Dispatch!Dialogs
<1>4. CASE Dispatch!SubmitAssign
  <2>1. PICK v \in Dispatch!Available,
            d \in Crew : Dispatch!Submit([Dispatch!Request("assign") EXCEPT !.row
                = Dispatch!Row(Dispatch!Today, v, d, "PENDING", FALSE)])
    BY <1>4 DEF Dispatch!SubmitAssign
  <2> DEFINE row == Dispatch!Row(Dispatch!Today, v, d, "PENDING", FALSE)
             q == [Dispatch!Request("assign") EXCEPT !.row = row]
  <2>2. row \in Dispatch!RowType /\ row.status \in Dispatch!Live
    BY <1>1 DEF Dispatch!Row, Dispatch!RowType, Dispatch!Kept, Dispatch!Live, Dispatch!Today
  <2>3. Dispatch!Submit(q)
    BY <2>1
  <2> HIDE DEF row
  <2>4. q \in Dispatch!Requests /\ q.kind = "assign" /\ q.phase = "sent" /\ q.made = 0 /\ q.seen = Dispatch!NoRows
            /\ q.row = row
    BY <2>2, DispatchBlankType DEF Dispatch!Requests, DispatchKinds
  <2> HIDE DEF q
  <2> QED
    BY <2>2, <2>3, <2>4, DispatchSubmitted
<1>5. CASE Dispatch!SubmitGenerate
  <2> DEFINE q == [Dispatch!Request("generate") EXCEPT !.buses = form.selected]
  <2>1. q \in Dispatch!Requests /\ q.kind = "generate" /\ q.phase = "sent" /\ q.made = 0 /\ q.seen = Dispatch!NoRows
    BY <1>2, DispatchBlankType DEF Dispatch!Requests, DispatchKinds
  <2>2. Dispatch!Submit(q)
    BY <1>5 DEF Dispatch!SubmitGenerate
  <2> HIDE DEF q
  <2> QED
    BY <2>1, <2>2, DispatchSubmitted
<1>6. ASSUME NEW i \in Dispatch!Ids, NEW kind \in {"copy", "breakdown", "remove", "end", "delete"},
             Dispatch!Submit([Dispatch!Request(kind) EXCEPT !.id = i])
      PROVE  DispatchPageStep
  <2> DEFINE q == [Dispatch!Request(kind) EXCEPT !.id = i]
  <2>1. q \in Dispatch!Requests /\ q.kind = kind /\ q.id = i /\ q.phase = "sent" /\ q.made = 0
            /\ q.seen = Dispatch!NoRows
    BY DispatchBlankType DEF Dispatch!Requests, DispatchKinds
  <2>2. Dispatch!Submit(q)
    BY <1>6
  <2> HIDE DEF q
  <2> QED
    BY <2>1, <2>2, DispatchSubmitted
<1>7. CASE Dispatch!HandleCopySelected
  BY <1>2, <1>6, <1>7 DEF Dispatch!HandleCopySelected
<1>8. CASE Dispatch!HandleRepeatYesterday
  <2>1. DOMAIN Dispatch!On(0) \subseteq Dispatch!Ids
    BY DEF Dispatch!On
  <2> QED
    BY <1>6, <1>8, <2>1 DEF Dispatch!HandleRepeatYesterday
<1>9. CASE Dispatch!SubmitBreakdown \/ Dispatch!SubmitRemove \/ Dispatch!SubmitEndShift \/ Dispatch!SubmitDelete
  BY <1>3, <1>6, <1>9 DEF Dispatch!SubmitBreakdown, Dispatch!SubmitRemove, Dispatch!SubmitEndShift,
     Dispatch!SubmitDelete, Dispatch!SubmitRow
<1>10. CASE Dispatch!SubmitReassign
  <2>1. PICK v \in Dispatch!Available :
            Dispatch!Submit([Dispatch!Request("reassign") EXCEPT !.id = dialog.id, !.row.bus = v])
    BY <1>10 DEF Dispatch!SubmitReassign
  <2>2. dialog.id \in Dispatch!Ids /\ v \in Buses
    BY <1>1, <1>3, <1>10 DEF Dispatch!SubmitReassign
  <2> DEFINE row == [Dispatch!NoRow EXCEPT !.bus = v]
             q == [Dispatch!Request("reassign") EXCEPT !.id = dialog.id, !.row = row]
  <2>3. row \in Dispatch!RowType
    BY <2>2, DispatchBlankType DEF Dispatch!RowType
  <2>4. Dispatch!Submit(q)
    BY <2>1 DEF Dispatch!Request
  <2> HIDE DEF row
  <2>5. /\ q \in Dispatch!Requests /\ q.kind = "reassign" /\ q.id = dialog.id /\ q.phase = "sent" /\ q.made = 0
        /\ q.seen = Dispatch!NoRows
    BY <2>2, <2>3, DispatchBlankType DEF Dispatch!Requests, DispatchKinds
  <2> HIDE DEF q
  <2> QED
    BY <2>2, <2>4, <2>5, DispatchSubmitted
<1>11. CASE Dispatch!SubmitEdit
  <2> DEFINE old == dialog.seen
  <2>1. old \in Dispatch!RowType /\ old.status \in Dispatch!Kept /\ dialog.id \in Dispatch!Ids
    BY <1>3, <1>11 DEF Dispatch!SubmitEdit
  <2>2. PICK new \in {old} \cup {[old EXCEPT !.bus = v] : v \in Dispatch!Available}
            \cup {[old EXCEPT !.driver = d] : d \in Crew}
                     \cup {[old EXCEPT !.status = s] : s \in {"ACTIVE", "CANCELLED"}} :
           Dispatch!Submit([Dispatch!Request("update") EXCEPT !.id = dialog.id, !.put = new])
    BY <1>11 DEF Dispatch!SubmitEdit
  <2>3. new \in Dispatch!RowType /\ new.status \in Dispatch!Kept
    <3> HIDE DEF old
    <3>1. CASE new = old
      BY <2>1, <3>1
    <3>2. ASSUME NEW v \in Dispatch!Available, new = [old EXCEPT !.bus = v] PROVE new \in Dispatch!RowType
                     /\ new.status \in Dispatch!Kept
      BY <1>1, <2>1, <3>2 DEF Dispatch!RowType
    <3>3. ASSUME NEW d \in Crew, new = [old EXCEPT !.driver = d] PROVE new \in Dispatch!RowType
                     /\ new.status \in Dispatch!Kept
      BY <2>1, <3>3 DEF Dispatch!RowType
    <3>4. ASSUME NEW s \in {"ACTIVE", "CANCELLED"}, new = [old EXCEPT !.status = s]
          PROVE  new \in Dispatch!RowType /\ new.status \in Dispatch!Kept
      BY <2>1, <3>4 DEF Dispatch!RowType, Dispatch!Kept, Dispatch!Live
    <3> QED
      BY <2>2, <3>1, <3>2, <3>3, <3>4
  <2> DEFINE q == [Dispatch!Request("update") EXCEPT !.id = dialog.id, !.put = new]
  <2>4. Dispatch!Submit(q)
    BY <2>2
  <2>5. /\ q \in Dispatch!Requests /\ q.kind = "update" /\ q.id = dialog.id /\ q.phase = "sent" /\ q.made = 0
        /\ q.seen = Dispatch!NoRows /\ q.put = new
    BY <2>1, <2>3, DispatchBlankType DEF Dispatch!Requests, DispatchKinds
  <2> HIDE DEF q
  <2> QED
    BY <2>1, <2>3, <2>4, <2>5, DispatchSubmitted
<1> QED
  BY <1>4, <1>5, <1>7, <1>8, <1>9, <1>10, <1>11

\* The page hears of an answer, or gives up waiting for one.
LEMMA DispatchPageHears ==
  ASSUME DispatchWireInv, DispatchPageInv, DispatchMadeInv, Dispatch!RestingListKnowsMade, Dispatch!GiveUp
             \/ \E r \in wire : Dispatch!Succeed(r) \/ Dispatch!Fail(r)
  PROVE  DispatchPageStep
<1>1. CASE Dispatch!GiveUp
  <2>1. UNCHANGED <<db, shown, due, dialog, form, hist>>
    BY <1>1 DEF Dispatch!GiveUp
  <2>2. DispatchFollows /\ Dispatch!Rows' = Dispatch!Rows
    BY <2>1, DispatchStaysSame DEF Dispatch!Rows
  <2>3. PICK r \in wire : \/ wire' = wire \ {r}
                          \/ wire' = (wire \ {r}) \cup {[r EXCEPT !.who = "gone"]}
    BY <1>1 DEF Dispatch!GiveUp, Dispatch!Replace
  <2> DEFINE q == [r EXCEPT !.who = "gone"]
  <2>4. r \in Dispatch!Requests /\ DispatchSound(r, Dispatch!Rows) /\ DispatchThere(r.made)
    BY DEF DispatchWireInv
  <2>5. /\ q \in Dispatch!Requests /\ q.kind = r.kind /\ q.phase = r.phase /\ q.id = r.id /\ q.made = r.made
               /\ q.free = r.free
        /\ q.row = r.row /\ q.put = r.put /\ q.seen = r.seen
    BY <2>4 DEF Dispatch!Requests
  <2>6. wire' \subseteq wire \cup {q}
    BY <2>3
  <2> HIDE DEF q
  <2>7. DispatchSound(q, Dispatch!Rows') /\ DispatchThere(q.made)'
    BY <2>1, <2>2, <2>4, <2>5 DEF DispatchSound, DispatchThere
  <2>8. DispatchWireInv'
    BY <2>2, <2>5, <2>6, <2>7, DispatchWireAdds
  <2> QED
    BY <2>1, <2>2, <2>8 DEF DispatchPageStep, DispatchPageInv, DispatchMadeInv, DispatchThere,
       Dispatch!RestingListKnowsMade
<1>2. ASSUME NEW r \in wire, Dispatch!Fail(r) PROVE DispatchPageStep
  <2>1. UNCHANGED <<db, shown, due, dialog, form, hist>> /\ wire' \subseteq wire
    BY <1>2 DEF Dispatch!Fail, Dispatch!Settle
  <2>2. DispatchFollows /\ Dispatch!Rows' = Dispatch!Rows
    BY <2>1, DispatchStaysSame DEF Dispatch!Rows
  <2> QED
    BY <2>1, <2>2, DispatchWireLoses DEF DispatchPageStep, DispatchPageInv, DispatchMadeInv, DispatchThere,
       Dispatch!RestingListKnowsMade
<1>3. ASSUME NEW r \in wire, Dispatch!Succeed(r) PROVE DispatchPageStep
  <2>1. UNCHANGED <<db, shown>> /\ wire' \subseteq wire /\ due' = due \cup {"today"}
            /\ Dispatch!Rows' = Dispatch!Rows
    BY <1>3 DEF Dispatch!Succeed, Dispatch!Settle, Dispatch!Invalidate, Dispatch!Rows
  <2>2. hist' = [hist EXCEPT !.made = @ \cup ({r.made} \ {0})]
    BY <1>3 DEF Dispatch!Succeed
  <2>3. r \in Dispatch!Requests /\ DispatchThere(r.made)
    BY DEF DispatchWireInv
  <2>4. /\ hist' \in DispatchHists /\ hist'.made = hist.made \cup ({r.made} \ {0})
        /\ hist'.loose = hist.loose /\ hist'.deleted = hist.deleted
    BY <2>2, <2>3 DEF DispatchPageInv, DispatchHists, Dispatch!Requests
  <2>5. DispatchFollows
    BY <2>1, <2>4 DEF DispatchFollows
  <2>6. DispatchWireInv'
    BY <2>1, <2>5, DispatchWireLoses
  <2>7. DispatchMadeInv'
    BY <2>1, <2>3, <2>4 DEF DispatchMadeInv, DispatchThere
  <2>8. DispatchPageInv'
    <3>1. form' \in DispatchForms /\ dialog' \in {dialog, None}
      BY <1>3 DEF Dispatch!Succeed, DispatchPageInv, DispatchForms
    <3> QED
      BY <2>1, <2>4, <3>1 DEF DispatchPageInv
  <2>9. Dispatch!RestingListKnowsMade'
    BY <2>1 DEF Dispatch!RestingListKnowsMade
  <2> QED
    BY <2>1, <2>4, <2>6, <2>7, <2>8, <2>9 DEF DispatchPageStep
<1> QED
  BY <1>1, <1>2, <1>3
-----------------------------------------------------------------------------
\* Every step is the page's or the server's.
LEMMA DispatchTwoKinds ==
  ASSUME Dispatch!DispatchAssumption, DispatchIInv, [Dispatch!Next]_deskVars
  PROVE  DispatchServed \/ DispatchPageStep \/ UNCHANGED deskVars
<1>1. db \in DispatchDbs /\ DispatchTableInv /\ DispatchWireInv /\ DispatchPageInv /\ DispatchMadeInv
          /\ Dispatch!RestingListKnowsMade /\ hist \in DispatchHists
  BY DEF DispatchIInv, DispatchTableInv, DispatchDbs, Dispatch!Rows, DispatchPageInv
<1>2. ASSUME NEW r \in wire,
             \/ Dispatch!CheckAssign(r) \/ Dispatch!CheckCopy(r) \/ Dispatch!CheckReassign(r)
                    \/ Dispatch!CheckUpdate(r) \/ Dispatch!CheckEndShift(r)
             \/ Dispatch!Insert(r) \/ Dispatch!SaveUpdate(r) \/ Dispatch!SaveEndShift(r) \/ Dispatch!ServeOff(r)
                    \/ Dispatch!ServeGenerate(r)
             \/ Dispatch!Recur(r) \/ Dispatch!BeatEnds(r) \/ \E i \in Dispatch!Ids : Dispatch!CompleteDue(r, i)
      PROVE  DispatchServed
  BY <1>1, <1>2, DispatchServedChecks, DispatchServedInsert, DispatchServedWrites, DispatchServedRecur,
     DispatchServedDue
<1>3. CASE Dispatch!BeatReads
  BY <1>1, <1>3, DispatchServedBeat
<1>4. CASE Dispatch!LoadToday \/ Dispatch!LoadFleet \/ Dispatch!Poll
  BY <1>1, <1>4, DispatchPageLoads
<1>5. CASE \/ Dispatch!CloseDialog \/ \E i \in DOMAIN shown["today"] : Dispatch!RowButtons(i)
           \/ \E v \in Buses : Dispatch!ToggleVehicle(v)
           \/ \E i \in Dispatch!Ids : Dispatch!ToggleCopySelect(i)
  BY <1>1, <1>5, DispatchPageGestures
<1>6. CASE \/ Dispatch!SubmitAssign \/ Dispatch!SubmitGenerate \/ Dispatch!HandleCopySelected
                  \/ Dispatch!HandleRepeatYesterday
           \/ Dispatch!SubmitBreakdown \/ Dispatch!SubmitRemove \/ Dispatch!SubmitEndShift
                  \/ Dispatch!SubmitDelete \/ Dispatch!SubmitReassign \/ Dispatch!SubmitEdit
  BY <1>1, <1>6, DispatchPageSubmits
<1>7. CASE Dispatch!GiveUp \/ \E r \in wire : Dispatch!Succeed(r) \/ Dispatch!Fail(r)
  BY <1>1, <1>7, DispatchPageHears
<1> QED
  BY <1>2, <1>3, <1>4, <1>5, <1>6, <1>7 DEF Dispatch!Next

\* A driver who ended his shift yesterday and one who is under way.
LEMMA DispatchInitIInv == ASSUME Dispatch!DispatchAssumption, Dispatch!Init PROVE DispatchIInv
<1>1. PICK b \in Buses, c \in Buses, d \in Crew, e \in Crew :
        db = [rows |-> [i \in Dispatch!Ids |-> CASE i = 1 -> Dispatch!Row(0, b, d, "COMPLETED", FALSE)
                                        [] i = 2 -> Dispatch!Row(1, c, e, "ACTIVE", TRUE)
                                        [] OTHER -> Dispatch!NoRow],
              fleet |-> [v \in Buses |-> IF v = c THEN "ASSIGNED" ELSE "ACTIVE"]]
  BY DEF Dispatch!Init
<1>2. /\ shown = [k \in {"today", "fleet"} |-> IF k = "fleet" THEN {} ELSE <<>>]
      /\ due = {"today", "fleet"} /\ dialog = None /\ form = [selected |-> {}, picked |-> {}] /\ wire = {}
      /\ hist = [opens |-> 0, sends |-> 0, loose |-> {}, made |-> {}, deleted |-> {}, ran |-> FALSE]
  BY DEF Dispatch!Init
<1>3. ASSUME NEW i \in Dispatch!Ids
      PROVE  /\ Dispatch!Rows[i] = IF i = 1 THEN Dispatch!Row(0, b, d, "COMPLETED", FALSE)
                          ELSE IF i = 2 THEN Dispatch!Row(1, c, e, "ACTIVE", TRUE) ELSE Dispatch!NoRow
             /\ Dispatch!Rows[i] \in Dispatch!RowType
  <2>1. Dispatch!Rows[i] = IF i = 1 THEN Dispatch!Row(0, b, d, "COMPLETED", FALSE)
                  ELSE IF i = 2 THEN Dispatch!Row(1, c, e, "ACTIVE", TRUE) ELSE Dispatch!NoRow
    <3> DEFINE first == Dispatch!Row(0, b, d, "COMPLETED", FALSE)
               second == Dispatch!Row(1, c, e, "ACTIVE", TRUE)
               row(x) == CASE x = 1 -> first [] x = 2 -> second [] OTHER -> Dispatch!NoRow
    <3>1. Dispatch!Rows = [x \in Dispatch!Ids |-> row(x)]
      BY <1>1 DEF Dispatch!Rows
    <3>2. row(i) = IF i = 1 THEN first ELSE IF i = 2 THEN second ELSE Dispatch!NoRow
      <4> HIDE DEF first, second
      <4>1. CASE i = 1
        BY <4>1
      <4>2. CASE i = 2
        BY <4>2
      <4>3. CASE i # 1 /\ i # 2
        BY <4>3
      <4> QED
        BY <4>1, <4>2, <4>3
    <3> HIDE DEF row
    <3> QED
      BY <3>1, <3>2
  <2>2. Dispatch!Row(0, b, d, "COMPLETED", FALSE) \in Dispatch!RowType
            /\ Dispatch!Row(1, c, e, "ACTIVE", TRUE) \in Dispatch!RowType /\ Dispatch!NoRow \in Dispatch!RowType
    BY DispatchBlankType DEF Dispatch!Row, Dispatch!RowType, Dispatch!Kept, Dispatch!Live
  <2> QED
    BY <2>1, <2>2
<1>4. db \in DispatchDbs
  <2>1. Dispatch!Rows \in [Dispatch!Ids -> Dispatch!RowType] /\ db.fleet \in [Buses -> DispatchStatuses]
    BY <1>1, <1>3 DEF Dispatch!Rows, DispatchStatuses
  <2> QED
    BY <1>1, <2>1 DEF DispatchDbs, Dispatch!Rows
<1>5. \A i \in Dispatch!Ids : /\ Dispatch!Rows[i].status \in Dispatch!Kept => i \in {1, 2}
                              /\ Dispatch!Rows[i].status \in Dispatch!Live => i = 2
                              /\ i = 1 => Dispatch!Rows[i].day = 0
                              /\ i = 2 => Dispatch!Rows[i].day = 1
  BY <1>3 DEF Dispatch!Row, Dispatch!NoRow, Dispatch!Kept, Dispatch!Live
<1>6. DispatchPageInv
  BY <1>2 DEF DispatchPageInv, DispatchForms, DispatchHists, Dispatch!DispatchAssumption
<1>7. DispatchOneRowPerBus /\ Dispatch!OneBusPerDay
  BY <1>5 DEF DispatchOneRowPerBus, Dispatch!OneBusPerDay
<1> QED
  BY <1>2, <1>4, <1>6, <1>7 DEF DispatchIInv, DispatchWireInv, DispatchMadeInv, Dispatch!RestingListKnowsMade

LEMMA DispatchInvariant == ASSUME Dispatch!DispatchAssumption PROVE Dispatch!Spec => []DispatchIInv
<1>1. Dispatch!Init => DispatchIInv
  BY DispatchInitIInv
<1>2. ASSUME DispatchIInv, [Dispatch!Next]_deskVars PROVE DispatchIInv'
  <2>1. CASE DispatchServed
    BY <1>2, <2>1, DispatchPageServed DEF DispatchIInv, DispatchServed, DispatchTableInv
  <2>2. CASE DispatchPageStep
    <3>1. Dispatch!Rows' = Dispatch!Rows /\ db' \in DispatchDbs
      BY <1>2, <2>2 DEF DispatchIInv, DispatchPageStep, Dispatch!Rows
    <3>2. DispatchOneRowPerBus' /\ Dispatch!OneBusPerDay'
      BY <1>2, <2>2, <3>1 DEF DispatchIInv, DispatchPageStep, DispatchOneRowPerBus, Dispatch!OneBusPerDay
    <3> QED
      BY <2>2, <3>1, <3>2 DEF DispatchIInv, DispatchPageStep
  <2>3. CASE UNCHANGED deskVars
    <3>1. Dispatch!Rows' = Dispatch!Rows
      BY <2>3 DEF deskVars, Dispatch!Rows
    <3> QED
      BY <1>2, <2>3, <3>1 DEF deskVars, DispatchIInv, DispatchPageInv, DispatchWireInv, DispatchMadeInv,
         DispatchThere, DispatchOneRowPerBus, Dispatch!OneBusPerDay,
                              Dispatch!RestingListKnowsMade
  <2> QED
    BY <1>2, <2>1, <2>2, <2>3, DispatchTwoKinds
<1> QED
  BY <1>1, <1>2, PTL DEF Dispatch!Spec, Dispatch!deskVars, deskVars

\* The table, the lists, the dialogs and the requests are what the page and the
\* API take them for, and the index on day and bus holds.
THEOREM DispatchTypeCorrect == ASSUME Dispatch!DispatchAssumption PROVE Dispatch!Spec => []Dispatch!TypeOK
<1>1. DispatchIInv => Dispatch!TypeOK
  <2> SUFFICES ASSUME DispatchIInv PROVE Dispatch!TypeOK
    OBVIOUS
  <2>1. DOMAIN db = {"rows", "fleet"} /\ Dispatch!Rows \in [Dispatch!Ids -> Dispatch!RowType]
            /\ db.fleet \in [Buses -> DispatchStatuses]
    BY DEF DispatchIInv, DispatchDbs, Dispatch!Rows
  <2>2. wire \subseteq Dispatch!Requests
    BY DEF DispatchIInv, DispatchWireInv
  <2>3. DOMAIN shown = {"today", "fleet"} /\ due \subseteq {"today", "fleet"}
    BY DEF DispatchIInv, DispatchPageInv
  <2> QED
    BY <2>1, <2>2, <2>3 DEF DispatchIInv, Dispatch!TypeOK, DispatchOneRowPerBus, DispatchPageInv, DispatchStatuses,
       DispatchForms, DispatchHists
<1> QED
  BY <1>1, DispatchInvariant, PTL

\* However the tests and writes of handlers and clock interleave, somebody is on
\* two buses of a day only where a handler found him free that no longer was,
\* or opened a row that was closed.
THEOREM DispatchOneBus == ASSUME Dispatch!DispatchAssumption PROVE Dispatch!Spec => []Dispatch!OneBusPerDay
<1>1. DispatchIInv => Dispatch!OneBusPerDay
  BY DEF DispatchIInv
<1> QED
  BY <1>1, DispatchInvariant, PTL

\* The list at rest has what the page heard was made, whatever is edited, ended
\* and generated meanwhile.
THEOREM DispatchMadeIsListed == ASSUME Dispatch!DispatchAssumption PROVE Dispatch!Spec
    => []Dispatch!RestingListKnowsMade
<1>1. DispatchIInv => Dispatch!RestingListKnowsMade
  BY DEF DispatchIInv
<1> QED
  BY <1>1, DispatchInvariant, PTL

\* No step opens or completes a cancelled allocation but an edit, a schedule,
\* or one that had read it before it was cancelled.
THEOREM DispatchCancelledForGood ==
    ASSUME Dispatch!DispatchAssumption PROVE Dispatch!Spec => [][Dispatch!CancelledStays]_deskVars
<1>1. ASSUME DispatchIInv, [Dispatch!Next]_deskVars PROVE Dispatch!CancelledStays
  <2> SUFFICES ASSUME NEW i \in Dispatch!Ids, Dispatch!Rows[i].status = "CANCELLED",
          Dispatch!Rows'[i].status \notin {"CANCELLED", "gone"}
               PROVE  \E r \in wire \ wire' : \/ r.kind \in {"update", "generate"}
                                              \/ r.kind = "end" /\ r.row.status \in Dispatch!Live
                                              \/ r.kind = "beat" /\ r.seen[i].status \in Dispatch!Live
    BY DEF Dispatch!CancelledStays
  <2>1. db \in DispatchDbs /\ Dispatch!Rows \in [Dispatch!Ids -> Dispatch!RowType]
            /\ \A r \in wire : r \in Dispatch!Requests /\ DispatchSound(r, Dispatch!Rows)
    BY <1>1 DEF DispatchIInv, DispatchDbs, Dispatch!Rows, DispatchWireInv
  <2>2. ~UNCHANGED db
    BY DEF Dispatch!Rows
  <2>3. ASSUME NEW r \in wire, Dispatch!SaveUpdate(r) \/ Dispatch!ServeGenerate(r) \/ Dispatch!SaveEndShift(r)
        PROVE  r \notin wire' /\ (r.kind \in {"update", "generate"}
                   \/ (r.kind = "end" /\ r.row.status \in Dispatch!Live))
    <3>1. PICK phase \in {"ok", "error"} : Dispatch!Answer(r, phase)
      BY <2>3 DEF Dispatch!SaveUpdate, Dispatch!ServeGenerate, Dispatch!SaveEndShift
    <3>2. r.phase \notin {"ok", "error"}
      BY <2>3 DEF Dispatch!SaveUpdate, Dispatch!ServeGenerate, Dispatch!SaveEndShift
    <3>3. [r EXCEPT !.phase = phase] # r
      BY <2>1, <3>2 DEF Dispatch!Requests
    <3>4. r \notin wire'
      BY <3>1, <3>3 DEF Dispatch!Answer
    <3> QED
      BY <2>1, <2>3, <3>4 DEF Dispatch!SaveUpdate, Dispatch!ServeGenerate, Dispatch!SaveEndShift, DispatchSound
  <2>4. ASSUME NEW r \in wire, Dispatch!ServeOff(r) PROVE FALSE
    <3>1. db' = [db EXCEPT !.rows[r.id].status = IF r.kind = "delete" THEN "gone" ELSE "CANCELLED",
                           !.fleet[Dispatch!Rows[r.id].bus] = IF r.kind = "breakdown" THEN "BREAKDOWN"
                               ELSE "ACTIVE"]
      BY <2>2, <2>4 DEF Dispatch!ServeOff
    <3>2. Dispatch!Rows' = [Dispatch!Rows EXCEPT ![r.id].status = IF r.kind = "delete" THEN "gone" ELSE "CANCELLED"]
      BY <2>1, <3>1 DEF Dispatch!Rows, DispatchDbs
    <3> QED
      BY <2>1, <3>2 DEF Dispatch!RowType
  <2>5. ASSUME NEW r \in wire, NEW j \in Dispatch!Fresh,
                   db' = [db EXCEPT !.rows[j] = r.row, !.fleet[r.row.bus] = "ASSIGNED"]
        PROVE  FALSE
    <3>1. Dispatch!Rows' = [Dispatch!Rows EXCEPT ![j] = r.row] /\ j # i
      BY <2>1, <2>5 DEF Dispatch!Rows, DispatchDbs, Dispatch!Fresh
    <3> QED
      BY <2>1, <3>1
  <2>6. ASSUME NEW r \in wire, Dispatch!Insert(r) \/ Dispatch!Recur(r) PROVE FALSE
    <3>1. \/ \E j \in Dispatch!Fresh : db' = [db EXCEPT !.rows[j] = r.row, !.fleet[r.row.bus] = "ASSIGNED"]
          \/ db' = [db EXCEPT !.fleet[r.row.bus] = "ASSIGNED"]
      BY <2>2, <2>6 DEF Dispatch!Insert, Dispatch!Recur
    <3>2. db' # [db EXCEPT !.fleet[r.row.bus] = "ASSIGNED"]
      BY <2>1 DEF Dispatch!Rows, DispatchDbs
    <3> QED
      BY <2>5, <3>1, <3>2
  <2>7. ASSUME NEW r \in wire, NEW j \in Dispatch!Ids, Dispatch!CompleteDue(r, j)
        PROVE  r \notin wire' /\ r.kind = "beat" /\ r.seen[i].status \in Dispatch!Live
    <3>1. r.kind = "beat" /\ r.phase = "run" /\ r.seen[j] # Dispatch!NoRow
              /\ r.seen \in [Dispatch!Ids -> Dispatch!RowType]
      BY <2>1, <2>7 DEF Dispatch!CompleteDue, Dispatch!Requests
    <3>2. j = i
      <4>1. CASE Dispatch!Rows[j].status \in Dispatch!Kept
        <5>1. db' = [db EXCEPT !.rows[j].status = "COMPLETED", !.fleet[r.seen[j].bus] = "ACTIVE"]
          BY <2>7, <4>1 DEF Dispatch!CompleteDue
        <5>2. Dispatch!Rows' = [Dispatch!Rows EXCEPT ![j].status = "COMPLETED"]
          BY <2>1, <5>1 DEF Dispatch!Rows, DispatchDbs
        <5> QED
          BY <2>1, <5>2
      <4>2. CASE Dispatch!Rows[j].status \notin Dispatch!Kept
        <5>1. db' = [db EXCEPT !.fleet[r.seen[j].bus] = "ACTIVE"]
          BY <2>7, <4>2 DEF Dispatch!CompleteDue
        <5> QED
          BY <2>1, <5>1 DEF Dispatch!Rows, DispatchDbs
      <4> QED
        BY <4>1, <4>2
    <3>3. r.seen[i].status \in Dispatch!Live
      BY <2>1, <3>1, <3>2 DEF DispatchSound
    <3> DEFINE rest == [r.seen EXCEPT ![j] = Dispatch!NoRow]
               next == Dispatch!Row(2, r.seen[j].bus, r.seen[j].driver, "PENDING", TRUE)
    <3>4. rest # r.seen
      BY <3>1
    <3>5. \/ wire' = wire \ {r}
          \/ wire' = (wire \ {r}) \cup {[r EXCEPT !.phase = "recur", !.seen = rest, !.row = next, !.free = TRUE]}
          \/ wire' = (wire \ {r}) \cup {[r EXCEPT !.seen = rest]}
      BY <2>7 DEF Dispatch!CompleteDue, Dispatch!Replace
    <3> HIDE DEF rest, next
    <3>6. r # [r EXCEPT !.phase = "recur", !.seen = rest, !.row = next, !.free = TRUE]
              /\ r # [r EXCEPT !.seen = rest]
      BY <2>1, <3>4 DEF Dispatch!Requests
    <3>7. r \notin wire'
      BY <3>5, <3>6
    <3> QED
      BY <3>1, <3>3, <3>7
  <2>8. ASSUME NEW r \in wire,
               \/ Dispatch!CheckAssign(r) \/ Dispatch!CheckCopy(r) \/ Dispatch!CheckReassign(r)
                      \/ Dispatch!CheckUpdate(r) \/ Dispatch!CheckEndShift(r)
               \/ Dispatch!BeatEnds(r) \/ Dispatch!Succeed(r) \/ Dispatch!Fail(r)
        PROVE  UNCHANGED db
    BY <2>8 DEF Dispatch!CheckAssign, Dispatch!CheckCopy, Dispatch!CheckReassign, Dispatch!CheckUpdate,
       Dispatch!CheckEndShift, Dispatch!GoOn, Dispatch!BeatEnds, Dispatch!Succeed, Dispatch!Fail
  <2>9. CASE \/ Dispatch!SubmitAssign \/ Dispatch!SubmitGenerate \/ Dispatch!HandleCopySelected
                    \/ Dispatch!HandleRepeatYesterday
             \/ Dispatch!SubmitBreakdown \/ Dispatch!SubmitRemove \/ Dispatch!SubmitEndShift
                    \/ Dispatch!SubmitDelete \/ Dispatch!SubmitReassign \/ Dispatch!SubmitEdit
    BY <2>2, <2>9 DEF Dispatch!SubmitAssign, Dispatch!SubmitGenerate, Dispatch!HandleCopySelected,
       Dispatch!HandleRepeatYesterday, Dispatch!SubmitBreakdown,
                      Dispatch!SubmitRemove, Dispatch!SubmitEndShift, Dispatch!SubmitDelete,
                          Dispatch!SubmitReassign, Dispatch!SubmitEdit, Dispatch!SubmitRow, Dispatch!Submit
  <2>10. CASE Dispatch!LoadToday \/ Dispatch!LoadFleet \/ Dispatch!Poll \/ Dispatch!CloseDialog \/ Dispatch!GiveUp
                  \/ Dispatch!BeatReads
    BY <2>2, <2>10 DEF Dispatch!LoadToday, Dispatch!LoadFleet, Dispatch!Poll, Dispatch!CloseDialog,
       Dispatch!GiveUp, Dispatch!BeatReads, Dispatch!Arrive, Dispatch!Ask
  <2>11. CASE \/ \E j \in DOMAIN shown["today"] : Dispatch!RowButtons(j)
              \/ \E v \in Buses : Dispatch!ToggleVehicle(v)
              \/ \E j \in Dispatch!Ids : Dispatch!ToggleCopySelect(j)
    BY <2>2, <2>11 DEF Dispatch!RowButtons, Dispatch!Open, Dispatch!ToggleVehicle, Dispatch!ToggleCopySelect,
       Dispatch!Tick
  <2>12. CASE UNCHANGED deskVars
    BY <2>2, <2>12 DEF deskVars
  <2>13. CASE \E r \in wire :
                 \/ Dispatch!CheckAssign(r) \/ Dispatch!CheckCopy(r) \/ Dispatch!CheckReassign(r)
                        \/ Dispatch!CheckUpdate(r) \/ Dispatch!CheckEndShift(r)
                 \/ Dispatch!Insert(r) \/ Dispatch!SaveUpdate(r) \/ Dispatch!SaveEndShift(r)
                        \/ Dispatch!ServeOff(r) \/ Dispatch!ServeGenerate(r)
                 \/ Dispatch!Recur(r) \/ Dispatch!BeatEnds(r) \/ Dispatch!Succeed(r) \/ Dispatch!Fail(r)
                 \/ \E j \in Dispatch!Ids : Dispatch!CompleteDue(r, j)
    BY <2>2, <2>3, <2>4, <2>6, <2>7, <2>8, <2>13
  <2> QED
    BY <1>1, <2>9, <2>10, <2>11, <2>12, <2>13 DEF Dispatch!Next
<1> QED
  BY <1>1, DispatchInvariant, PTL DEF Dispatch!Spec, Dispatch!deskVars, deskVars
=============================================================================

---------------------------- MODULE CollectorDesk ----------------------------
(***************************************************************************)
(* The collectors page (ConductorsPage.tsx) and the staff API behind it:   *)
(* an enrolment that goes on to create a login, hard deletion, employee    *)
(* numbers that are counted, logins by phone number, and the link of a     *)
(* login to a partner account.  The handlers it shares with the drivers    *)
(* page are those of StaffDesk.                                            *)
(***************************************************************************)
EXTENDS StaffDesk

CONSTANTS
    Phones,      \* phone numbers, one user account each at most
    Partners     \* accounts of the partner

\* NULL is no phone number, and the users are a table of their own.
CollectorAssumption ==
    /\ StaffAssumption /\ IsFiniteSet(Staff) /\ Enrolled \subseteq Staff
    /\ None \notin Phones /\ "users" \notin Staff

Users == db["users"]

NewUser == [owner |-> None, partner |-> None]

Row == [state: States, login: Phones \cup {None}, number: Nat, text: Texts, photo: Staff \cup {None}]
Listed == [state: States, login: Phones \cup {None}, number: Nat, text: Texts, photo: Staff \cup {None},
           linked: BOOLEAN]

\* An enrolment has the request that follows it in it.
EnrolmentsIn(phases, ids, row) ==
    [kind: {"create"}, who: Whos, id: ids, copy: 0..MaxSends, field: {None}, password: BOOLEAN, phone: Phones,
     row: row, phase: phases]
LoginsIn(phase, row) == [kind: {"login"}, who: Whos, id: Staff, phase: {phase}, phone: Phones, row: row]
Enrolments == EnrolmentsIn({"sent"}, {None}, {None}) \cup EnrolmentsIn({"created", "asked", "ok"}, Staff, {None})
                \cup EnrolmentsIn({"checked", "ok"}, Staff, Row)
Logins == LoginsIn("sent", {None}) \cup LoginsIn("read", Row)
Links == [kind: {"link"}, who: Whos, id: Staff, phase: {"sent"}, partner: Partners]
Unlinks == [kind: {"unlink"}, who: Whos, id: Staff, phase: {"sent"}]

Dialogs == DialogsOver(Listed) \cup [kind: {"login", "link"}, id: Staff]
Forms == [wizard: Wizards, file: Staff \cup {None}, checking: SUBSET Staff]
Requests == Enrolments \cup CreateAnswers(Staff \cup {None}, {None}) \cup Deletes \cup Updates(Row) \cup Logins
              \cup Links \cup Unlinks \cup Answers({"update", "delete", "login", "link", "unlink"})
Hists == [opens: Nat, sends: 0..MaxSends, stamp: 0..MaxStamp, removed: SUBSET Staff, stale: SUBSET Staff,
          strayed: BOOLEAN]

TypeOK ==
    /\ DOMAIN db = Staff \cup {"users"} /\ \A d \in Staff : db[d] \in Row
    /\ Users \in [Phones -> [owner: Staff \cup {None}, partner: Partners \cup {None}]]
    /\ shown \in [{"list"} -> [DOMAIN Rows -> Listed]]
    /\ dialog = None \/ dialog \in Dialogs
    /\ form \in Forms
    /\ wire \subseteq Requests
    /\ hist \in Hists
    /\ WellTyped

\* The numbered rows; one may have a login, linked to a partner.
FirstRows(number, owner, phone, y) ==
    [d \in Staff \cup {"users"} |->
        IF d = "users"
        THEN [p \in Phones |-> IF owner # None /\ p = phone THEN [owner |-> owner, partner |-> y] ELSE NewUser]
        ELSE [state |-> IF d \in Enrolled THEN "active" ELSE "none",
              login |-> IF d = owner THEN phone ELSE None,
              number |-> IF d \in Enrolled THEN number[d] ELSE 0,
              text |-> NewText, photo |-> None]]

\* Those enrolled have no login yet, or one of them has one that is linked.
Init ==
    /\ \E number \in [Enrolled -> 1..Cardinality(Enrolled)], owner \in Enrolled \cup {None}, phone \in Phones, y \in Partners :
        /\ \A c, d \in Enrolled : number[c] = number[d] => c = d
        /\ db = FirstRows(number, owner, phone, y)
    /\ shown = [k \in {"list"} |-> [d \in {} |-> None]]
    /\ due = {"list"}
    /\ dialog = None
    /\ form = NewForm
    /\ wire = {}
    /\ hist = NewHist

\* partner_linked is computed from the user a row points at.
Linked(d) == db[d].login # None /\ Users[db[d].login].partner # None

RefreshCollectors ==
    Arrive("list", [d \in Active |->
        [state |-> db[d].state, login |-> db[d].login, number |-> db[d].number, text |-> db[d].text,
         photo |-> db[d].photo, linked |-> Linked(d)]])

BrowseCollectors == Browse

\* The buttons of a row, as of the list on the page.
RowButtons(d) ==
    \/ OpenEditPicker(d)
    \/ OpenRemoval(d)
    \/ Rows[d].login = None /\ Open([kind |-> "login", id |-> d])
    \/ Rows[d].login # None /\ ~Rows[d].linked /\ Open([kind |-> "link", id |-> d])

\* No dialog, and nothing waits for the pending request.
Unlink(d) ==
    /\ Rows[d].linked
    /\ Send([kind |-> "unlink", who |-> "desk", id |-> d, phase |-> "sent"])
    /\ UNCHANGED <<db, shown, due, dialog, form>>

ChooseCollectorSection(s) == ChooseEditSection(s)
BackToCollectorPicker == BackToPicker
TypeIntoCollector == TypeText
PickCollectorPhoto == PickPhoto
UpdateCollector == HandleUpdate
FillCollectorStep == FillStep
NextCollectorStep == HandleNext
GoToCollectorStep(i) == GoToStep(i)
ConfirmRemoval == SubmitRemoval

\* A password on the last step asks for a login too.
PasswordTyped == BOOLEAN

SubmitCollector ==
    /\ \E password \in PasswordTyped, p \in Phones, copy \in FreshCopies :
          SubmitWizard([kind |-> "create", who |-> "desk", id |-> None, copy |-> copy, field |-> None,
                        password |-> password, phone |-> p, row |-> None, phase |-> "sent"])
    /\ UNCHANGED <<db, shown, due, dialog, form>>

SubmitLogin ==
    /\ DialogIs("login") /\ ~Pending("login")
    /\ \E p \in Phones :
          Send([kind |-> "login", who |-> "desk", id |-> dialog.id, phone |-> p, row |-> None, phase |-> "sent"])
    /\ UNCHANGED <<db, shown, due, dialog, form>>

SubmitLink ==
    /\ DialogIs("link") /\ ~Pending("link")
    /\ \E y \in Partners :
          Send([kind |-> "link", who |-> "desk", id |-> dialog.id, partner |-> y, phase |-> "sent"])
    /\ UNCHANGED <<db, shown, due, dialog, form>>

\* ---- the server -----------------------------------------------------------------

\* employee_id is unique, and is the number of rows plus one.
NextNumber == Cardinality(Active) + 1

Taken(n) == \E d \in Active : db[d].number = n

\* POST: any field may be refused; a number that is taken always is.
ServeEnrolment(r) ==
    /\ r.kind = "create" /\ r.phase = "sent"
    /\ \/ \E d \in Staff :
            /\ db[d].state = "none" /\ ~Taken(NextNumber)
            /\ db' = [db EXCEPT ![d].state = "active", ![d].number = NextNumber]
            /\ IF r.who = "desk" THEN Replace(r, [r EXCEPT !.id = d, !.phase = "created"])
                                 ELSE Reply(r, "ok")
       \/ UNCHANGED db /\ Reply(r, "error")
    /\ UNCHANGED <<shown, due, dialog, form, hist>>

\* The page, between the two requests of the enrolment.
AskForLogin(r) ==
    /\ r.kind = "create" /\ r.phase = "created"
    /\ Replace(r, [r EXCEPT !.phase = IF r.password THEN "asked" ELSE "ok"])
    /\ UNCHANGED <<db, shown, due, dialog, form, hist>>

\* create-login, for the list's button and for the wizard: user_id and the
\* phone number are tested here ...
MayHaveLogin(r) == db[r.id].state = "active" /\ db[r.id].login = None /\ Users[r.phone].owner = None

CheckLogin(r) ==
    /\ \/ r.kind = "login" /\ r.phase = "sent"
       \/ r.kind = "create" /\ r.phase = "asked"
    /\ IF MayHaveLogin(r)
       THEN Replace(r, [r EXCEPT !.row = db[r.id], !.phase = IF r.kind = "login" THEN "read" ELSE "checked"])
       ELSE Reply(r, IF r.kind = "login" THEN "error" ELSE "ok")
    /\ UNCHANGED <<db, shown, due, dialog, form, hist>>

Granting(r) == \/ r.kind = "login" /\ r.phase = "read"
               \/ r.kind = "create" /\ r.phase = "checked"

\* ... and here the user is inserted (its e-mail, made of the phone number, is
\* unique) and the row, if it is still there, pointed at it.  The wizard takes
\* a failure for a success with a toast.
GrantLogin(r) ==
    /\ Granting(r)
    /\ LET free == Users[r.phone].owner = None
           there == db[r.id].state = "active"
       IN /\ db' = IF ~free THEN db
                   ELSE [db EXCEPT !["users"][r.phone].owner = r.id,
                                   ![r.id].login = IF there THEN r.phone ELSE @]
          /\ Reply(r, IF r.kind = "create" \/ (free /\ there) THEN "ok" ELSE "error")
          /\ hist' = [hist EXCEPT !.stale = IF free THEN @ \cup StaleIds(r) ELSE @]
    /\ UNCHANGED <<shown, due, dialog, form>>

\* The second request of an enrolment times out: a toast, and the rest is as
\* after a success; the server may go on.
LoginTimesOut(r) ==
    /\ r.kind = "create" /\ r.phase \in {"asked", "checked"} /\ r.who = "desk"
    /\ \E late \in SUBSET {[r EXCEPT !.who = "gone"]} :
          wire' = (wire \ {r}) \cup {[r EXCEPT !.phase = "ok"]} \cup late
    /\ UNCHANGED <<db, shown, due, dialog, form, hist>>

\* One partner account, one login.
ServeLink(r) ==
    /\ r.kind = "link" /\ r.phase = "sent"
    /\ LET p == db[r.id].login
       IN IF /\ db[r.id].state = "active" /\ p # None
             /\ \A q \in Phones \ {p} : Users[q].partner # r.partner
          THEN db' = [db EXCEPT !["users"][p].partner = r.partner] /\ Reply(r, "ok")
          ELSE UNCHANGED db /\ Reply(r, "error")
    /\ UNCHANGED <<shown, due, dialog, form, hist>>

ServeUnlink(r) ==
    /\ r.kind = "unlink" /\ r.phase = "sent"
    /\ LET p == db[r.id].login
       IN IF db[r.id].state = "active" /\ p # None
          THEN db' = [db EXCEPT !["users"][p].partner = None] /\ Reply(r, "ok")
          ELSE UNCHANGED db /\ Reply(r, "error")
    /\ UNCHANGED <<shown, due, dialog, form, hist>>

ReadForUpdate(r) == r.kind = "update" /\ Read(r)

\* save() of a row that is gone inserts it again, unless its number was given
\* to another.
SaveCollector(r) ==
    /\ r.kind = "update" /\ r.phase = "read"
    /\ IF db[r.id].state = "gone" /\ Taken(r.row.number)
       THEN Reply(r, "error") /\ UNCHANGED <<db, shown, due, dialog, form, hist>>
       ELSE SaveUpdate(r)

\* No perform_destroy here: the row goes, its user stays.
RemoveCollector(r) ==
    ServeRemoval(r, [db[r.id] EXCEPT !.state = "gone"])

Next ==
    \/ RefreshCollectors \/ BrowseCollectors \/ OpenWizard \/ CloseDialog \/ GiveUp
    \/ BackToCollectorPicker \/ TypeIntoCollector \/ PickCollectorPhoto \/ UpdateCollector
    \/ FillCollectorStep \/ NextCollectorStep \/ ConfirmRemoval
    \/ SubmitCollector \/ SubmitLogin \/ SubmitLink
    \/ \E d \in DOMAIN Rows : RowButtons(d) \/ Unlink(d)
    \/ \E s \in Sections : ChooseCollectorSection(s)
    \/ \E i \in 0..LastStep : GoToCollectorStep(i)
    \/ \E d \in Staff : PhotoChecked(d)
    \/ \E r \in wire : \/ ReadForUpdate(r) \/ SaveCollector(r) \/ ServeEnrolment(r) \/ RemoveCollector(r)
                       \/ AskForLogin(r) \/ CheckLogin(r) \/ GrantLogin(r) \/ LoginTimesOut(r)
                       \/ ServeLink(r) \/ ServeUnlink(r) \/ Succeed(r) \/ Fail(r)

Spec == Init /\ [][Next]_deskVars

\* An account no row points at belongs to a collector who was removed, or to
\* one whose row was written between a test and a save of another request.
NoOrphanAccount ==
    \A p \in Phones : LET d == Users[p].owner
                      IN d = None \/ db[d].login = p \/ db[d].state = "gone" \/ d \in hist.stale
\* ---- why they hold: true of every state, and kept by every step -----------------------

\* Who is about to get a login had none when it was tested.
AccountInv ==
    /\ NoOrphanAccount
    /\ \A r \in wire : Granting(r) => r.row.login = None /\ r.row.state = "active"

IInv == TypeOK /\ RemovedInv /\ PhotoInv /\ AccountInv
=============================================================================

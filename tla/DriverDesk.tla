----------------------------- MODULE DriverDesk -----------------------------
(***************************************************************************)
(* The drivers page of the tenant portal (DriversPage.tsx) and the staff   *)
(* API behind it: the wizard and its server errors, soft deletion, and the *)
(* login an admin creates afterwards, while a colleague works on the same  *)
(* drivers.  A driver is identified by the licence number.                 *)
(***************************************************************************)
EXTENDS StaffDesk

Fields == {"ruled", "ruleless"}
Row == [state: States, login: BOOLEAN, text: Texts, photo: Staff \cup {None}]
Logins == [kind: {"login"}, who: Whos, id: Staff, phase: {"sent"}, row: {None}]
            \cup [kind: {"login"}, who: Whos, id: Staff, phase: {"read"}, row: Row]

Dialogs == DialogsOver(Row) \cup [kind: {"login"}, id: Staff]
Forms == [wizard: Wizards, file: Staff \cup {None}, checking: SUBSET Staff, errors: SUBSET Fields]
Requests == Creates(Staff, Fields) \cup CreateAnswers(Staff, Fields) \cup Deletes \cup Updates(Row) \cup Logins
              \cup Answers({"update", "delete", "login"})
Hists == [opens: Nat, sends: 0..MaxSends, stamp: 0..MaxStamp, removed: SUBSET Staff, stale: SUBSET Staff,
          strayed: BOOLEAN, accounts: [Staff -> Nat]]

TypeOK ==
    /\ db \in [Staff -> Row]
    /\ shown \in [{"list"} -> [DOMAIN Rows -> Row]]
    /\ dialog = None \/ dialog \in Dialogs
    /\ form \in Forms
    /\ wire \subseteq Requests
    /\ hist \in Hists
    /\ WellTyped

Init ==
    /\ db = [d \in Staff |-> [state |-> IF d \in Enrolled THEN "active" ELSE "none", login |-> FALSE,
                              text |-> NewText, photo |-> None]]
    /\ shown = [k \in {"list"} |-> [d \in {} |-> None]]
    /\ due = {"list"}
    /\ dialog = None
    /\ form = [wizard |-> NewWizard, file |-> None, checking |-> {}, errors |-> {}]
    /\ wire = {}
    /\ hist = [opens |-> 0, sends |-> 0, stamp |-> 0, removed |-> {}, stale |-> {}, strayed |-> FALSE,
               accounts |-> [d \in Staff |-> 0]]

\* The key button shows on rows without a login, as of the list on the page.
OpenLogin(d) ==
    /\ ~Rows[d].login
    /\ Open([kind |-> "login", id |-> d])

\* handleSubmit clears the errors of the fields that have rules, and stops at
\* the others.
SubmitDriver(d) ==
    /\ "ruleless" \notin form.errors
    /\ \E field \in Fields, copy \in FreshCopies :
          SubmitWizard([kind |-> "create", who |-> "desk", id |-> d, copy |-> copy, field |-> field, phase |-> "sent"])
    /\ form' = [form EXCEPT !.errors = {}]
    /\ UNCHANGED <<db, shown, due, dialog>>

SubmitLogin ==
    /\ DialogIs("login") /\ ~Pending("login")
    /\ Send([kind |-> "login", who |-> "desk", id |-> dialog.id, phase |-> "sent", row |-> None])
    /\ UNCHANGED <<db, shown, due, dialog, form>>

\* PATCH: the row is read here and saved in SaveUpdate.
ReadForUpdate(r) == r.kind = "update" /\ Read(r)

\* POST: the licence number is unique, removed rows included; any other field
\* may be refused too, the employee number of a concurrent enrolment for one.
ServeCreate(r) ==
    /\ r.kind = "create" /\ r.phase = "sent"
    /\ \/ /\ db[r.id].state = "none"
          /\ db' = [db EXCEPT ![r.id].state = "active"]
          /\ Reply(r, "ok")
       \/ UNCHANGED db /\ Reply(r, "error")
    /\ UNCHANGED <<shown, due, dialog, form, hist>>

\* perform_destroy is a soft delete.
RemoveDriver(r) == ServeRemoval(r, [db[r.id] EXCEPT !.state = "gone"])

\* A slip: user_id is not tested.
CheckLoginBlind(r) == r.kind = "login" /\ Read(r)

\* create-login: the row is read and user_id tested here ...
CheckLogin(r) ==
    /\ r.kind = "login" /\ r.phase = "sent"
    /\ IF db[r.id].login
       THEN Reply(r, "error") /\ UNCHANGED <<db, shown, due, dialog, form, hist>>
       ELSE Read(r)

\* ... and here the user is inserted and the row pointed at it.
GrantLogin(r) ==
    /\ r.kind = "login" /\ r.phase = "read"
    /\ db' = [db EXCEPT ![r.id].login = TRUE]
    /\ hist' = [hist EXCEPT !.accounts[r.id] = @ + 1, !.stale = @ \cup StaleIds(r)]
    /\ Reply(r, "ok")
    /\ UNCHANGED <<shown, due, dialog, form>>

\* A refused field is marked only if it has rules that will clear the mark.
Marked(field) == {field} \cap {"ruled"}

FailDriver(r) ==
    IF r.kind = "create"
    THEN /\ r.phase = "error" /\ Settle(r)
         /\ form' = [form EXCEPT !.errors = @ \cup Marked(r.field)]
         /\ UNCHANGED <<db, shown, due, dialog, hist>>
    ELSE Fail(r)

ColleagueEnrols(d) ==
    /\ db[d].state = "none" /\ hist.sends < MaxSends
    /\ db' = [db EXCEPT ![d].state = "active"]
    /\ hist' = [hist EXCEPT !.sends = @ + 1]
    /\ UNCHANGED <<shown, due, dialog, form, wire>>

ColleagueRequestsLogin(d) ==
    /\ \A r \in wire : r.who # "other"
    /\ Send([kind |-> "login", who |-> "other", id |-> d, phase |-> "sent", row |-> None])
    /\ UNCHANGED <<db, shown, due, dialog, form>>

Next ==
    \/ CommonStep \/ HandleUpdate \/ SubmitLogin
    \/ \E d \in DOMAIN Rows : OpenLogin(d)
    \/ \E d \in Staff : SubmitDriver(d) \/ ColleagueEnrols(d) \/ ColleagueRequestsLogin(d)
    \/ \E r \in wire : \/ ReadForUpdate(r) \/ SaveUpdate(r) \/ ServeCreate(r) \/ RemoveDriver(r)
                       \/ CheckLogin(r) \/ GrantLogin(r) \/ FailDriver(r)

Spec == Init /\ [][Next]_deskVars

\* A driver gets a second account only if some request wrote his row after
\* another had read it and before that other one wrote; lists that still
\* offer the button, retries and lost answers never suffice.
SecondAccountNeedsOverlap ==
    \A d \in Staff : hist.accounts[d] > 1 => d \in hist.stale
\* ---- why they hold: true of every state, and kept by every step -----------------------

\* A driver whose row was never written over has as many accounts as his row says.
LoginInv ==
    /\ \A d \in Staff : d \in hist.stale \/ hist.accounts[d] = IF db[d].login THEN 1 ELSE 0
    /\ \A r \in wire : r.kind = "login" /\ r.phase = "read" => ~r.row.login

\* Every text there is was typed by now.
Typed(text) == \A s \in Sections : text[s] <= hist.stamp

StampInv ==
    /\ \A d \in Staff : Typed(db[d].text)
    /\ \A d \in DOMAIN Rows : Typed(Rows[d].text)
    /\ DialogIs("picker") \/ DialogIs("edit") => Typed(dialog.seen.text)
    /\ DialogIs("edit") => Typed(dialog.text)
    /\ \A r \in wire :
          /\ r.kind = "update" /\ r.phase \in {"sent", "read"} => \A s \in DOMAIN r.payload : r.payload[s] <= hist.stamp
          /\ r.phase = "read" => Typed(r.row.text)

IInv == TypeOK /\ RemovedInv /\ PhotoInv /\ LoginInv /\ StampInv
=============================================================================

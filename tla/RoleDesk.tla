------------------------------ MODULE RoleDesk ------------------------------
(***************************************************************************)
(* The roles and permissions page (RolesPermissionsPage.tsx): the role     *)
(* cards, the four modals over them, the matrix that ticks what the        *)
(* selected role grants, and the views behind them (rbac/views.py), whose  *)
(* statements commit one by one.                                           *)
(*                                                                         *)
(* A row is what the cards show of a role.  A modal and a mounting of the  *)
(* matrix each have a mutation of their own: `busy` is the number of the   *)
(* request they sent last.                                                 *)
(***************************************************************************)
EXTENDS Desk

CONSTANTS
    Roles,     \* that can ever be
    Made,      \* those the server starts with
    System,    \* those of them that are the system's
    Grants     \* the permissions

Numbers == 0..MaxSends

SymDiff(s, t) == (s \ t) \cup (t \ s)

NotMade == [made |-> FALSE, active |-> FALSE, perms |-> {}]

Existing == {i \in Roles : db[i].made}
Rows == shown["roles"]

Row == [made: BOOLEAN, active: BOOLEAN, perms: SUBSET Grants]
Card == [active: BOOLEAN, perms: SUBSET Grants]

\* base and ticked are read by the properties only: what the page showed of
\* the role when it was selected, and what was ticked or unticked since.
Matrices == [id: Roles, set: SUBSET Grants, dirty: BOOLEAN, busy: Numbers \cup {None},
             base: SUBSET Grants, ticked: SUBSET Grants]

Dialogs == [kind: {"create"}, id: {None}, busy: Numbers \cup {None}]
             \cup [kind: {"edit", "clone", "delete"}, id: Roles, busy: Numbers \cup {None}]

Whos == {"desk", "other", "gone"}

\* The requests of the modals, of the cards and of the matrix.
Modals == [kind: {"create", "edit", "clone", "delete"}, who: Whos, id: Roles \cup {None}, no: Numbers,
           phase: {"sent", "read", "ok", "error"}, selected: Roles \cup {None}, row: Row \cup {None},
           new: Roles \cup {None}]
Toggles == [kind: {"toggle"}, who: Whos, id: Roles, no: Numbers, phase: {"sent", "ok", "error"}, to: BOOLEAN]
Saves == [kind: {"save"}, who: Whos, id: Roles, no: Numbers, phase: {"sent", "read", "ok", "error"},
          set: SUBSET Grants, old: (SUBSET Grants) \cup {None}, got: Card \cup {None}, new: Roles \cup {None},
          base: (SUBSET Grants) \cup {None}, ticked: SUBSET Grants]

\* The server starts with the system's roles; NULL is none of them, nor what one
\* grants, nor a matrix.
RoleAssumption ==
    /\ System \subseteq Made /\ Made \subseteq Roles /\ MaxSends \in Nat /\ MaxOpens \in Nat
    /\ None \notin Roles /\ (\A S \in SUBSET Grants : S # None) /\ \A m \in Matrices : m # None

TypeOK ==
    /\ db \in [Roles -> Row]
    /\ DOMAIN Rows \subseteq Roles /\ System \subseteq Existing
    /\ \A i \in DOMAIN Rows : Rows[i] \in Card
    /\ \A i \in Roles \ Existing : db[i] = NotMade
    /\ due \subseteq {"roles"} /\ (form.coming # None => due = {"roles"})
    /\ dialog = None \/ dialog \in Dialogs
    /\ form.tab \in {"roles", "audit"} /\ form.selected \in Roles \cup {None}
    /\ form.matrix \in Matrices \cup {None}
    /\ form.matrix # None <=> form.tab = "roles" /\ form.selected \in DOMAIN Rows
    /\ wire \subseteq Modals \cup Toggles \cup Saves
    /\ \A r \in wire : r.phase \in {"ok", "error"} => r.who = "desk"
    /\ hist \in [opens: Nat, sends: Numbers, born: SUBSET Roles, meant: [Roles -> SUBSET Grants], torn: SUBSET Roles]

Init ==
    /\ db = [i \in Roles |-> IF i \in Made THEN [made |-> TRUE, active |-> TRUE, perms |-> {}] ELSE NotMade]
    /\ shown = [k \in {"roles"} |-> [i \in {} |-> None]]
    /\ due = {"roles"}
    /\ dialog = None
    /\ form = [tab |-> "roles", selected |-> None, matrix |-> None, coming |-> None]
    /\ wire = {}
    /\ hist = [opens |-> 0, sends |-> 0, born |-> Made, meant |-> [i \in Roles |-> {}], torn |-> {}]

\* ---- what is mounted --------------------------------------------------------

\* A slip: no key, so the ticks of one role stay for the next.
MountedUnkeyed(i, rows) ==
    [id |-> i, set |-> IF form.matrix = None THEN rows[i].perms ELSE form.matrix.set,
     dirty |-> FALSE, busy |-> None, base |-> rows[i].perms, ticked |-> {}]

\* useState seeds the matrix once, when it is mounted ...
Mounted(i, rows) ==
    [id |-> i, set |-> rows[i].perms, dirty |-> FALSE, busy |-> None, base |-> rows[i].perms, ticked |-> {}]

\* ... which is when its key, the selected role, is another, or comes back.
Seat(f, rows) ==
    [f EXCEPT !.matrix =
        IF f.tab # "roles" \/ f.selected \notin DOMAIN rows THEN None
        ELSE IF f.matrix # None /\ f.matrix.id = f.selected THEN f.matrix
        ELSE Mounted(f.selected, rows)]

Under(no) == \E r \in wire : r.who = "desk" /\ r.no = no

\* ---- the list ---------------------------------------------------------------

\* The answer is read role by role well before it arrives: setQueryData may
\* come between.
ReadRoles ==
    /\ due = {"roles"} /\ form.coming = None
    /\ form' = [form EXCEPT !.coming = [i \in Existing |-> [active |-> db[i].active, perms |-> db[i].perms]]]
    /\ UNCHANGED <<db, shown, due, dialog, wire, hist>>

ShowRoles ==
    /\ form.coming # None
    /\ shown' = [shown EXCEPT !["roles"] = form.coming]
    /\ due' = {}
    /\ form' = Seat([form EXCEPT !.coming = None], form.coming)
    /\ UNCHANGED <<db, dialog, wire, hist>>

InvalidateRoles(f) ==
    /\ due' = {"roles"}
    /\ form' = [f EXCEPT !.coming = None]

\* ---- the page ---------------------------------------------------------------

Select(i) ==
    /\ dialog = None /\ form.tab = "roles"
    /\ form' = Seat([form EXCEPT !.selected = i], Rows)
    /\ UNCHANGED <<db, shown, due, dialog, wire, hist>>

\* The other tab unmounts the matrix, and its ticks go with it.
SwitchTab ==
    /\ dialog = None
    /\ form' = Seat([form EXCEPT !.tab = IF @ = "roles" THEN "audit" ELSE "roles"], Rows)
    /\ UNCHANGED <<db, shown, due, dialog, wire, hist>>

OpenCreate == Open([kind |-> "create", id |-> None, busy |-> None])

OpenCard(i) ==
    /\ form.tab = "roles"
    /\ \E kind \in {"edit", "clone"} \cup {k \in {"delete"} : i \notin System} :
          Open([kind |-> kind, id |-> i, busy |-> None])

\* Decided by the status the card shows; the button is never disabled.
ToggleActive(i) ==
    /\ dialog = None /\ form.tab = "roles"
    /\ Send([kind |-> "toggle", who |-> "desk", id |-> i, no |-> hist.sends, phase |-> "sent",
             to |-> ~Rows[i].active])
    /\ UNCHANGED <<db, shown, due, dialog, form>>

\* What handleDeleted will compare is what the last render of its modal saw.
CloseModal ==
    /\ dialog # None
    /\ dialog' = None
    /\ wire' = {IF r.kind = "delete" /\ r.no = dialog.busy THEN [r EXCEPT !.selected = form.selected] ELSE r :
                   r \in wire}
    /\ UNCHANGED <<db, shown, due, form, hist>>

SubmitModal ==
    /\ dialog # None /\ ~Under(dialog.busy)
    /\ Send([kind |-> dialog.kind, who |-> "desk", id |-> dialog.id, no |-> hist.sends, phase |-> "sent",
             selected |-> None, row |-> None, new |-> None])
    /\ dialog' = [dialog EXCEPT !.busy = hist.sends]
    /\ UNCHANGED <<db, shown, due, form>>

\* ---- the matrix -------------------------------------------------------------

Tick(set) ==
    /\ dialog = None /\ form.matrix # None
    /\ form' = [form EXCEPT !.matrix.set = set, !.matrix.dirty = TRUE,
                            !.matrix.ticked = SymDiff(@, SymDiff(form.matrix.set, set))]
    /\ UNCHANGED <<db, shown, due, dialog, wire, hist>>

\* One box, or the boxes of a module that the search leaves: off if any is on.
ToggleModule(all) ==
    Tick(IF all \cap form.matrix.set # {} THEN form.matrix.set \ all ELSE form.matrix.set \cup all)

SelectAll == Tick(Grants)
DeselectAll == Tick({})

ApplyChanges ==
    /\ dialog = None /\ form.matrix # None
    /\ form.matrix.dirty /\ ~Under(form.matrix.busy)
    /\ Send([kind |-> "save", who |-> "desk", id |-> form.matrix.id, no |-> hist.sends, phase |-> "sent",
             set |-> form.matrix.set, old |-> None, got |-> None, new |-> None,
             base |-> form.matrix.base, ticked |-> form.matrix.ticked])
    /\ form' = [form EXCEPT !.matrix.busy = hist.sends]
    /\ UNCHANGED <<db, shown, due, dialog>>

\* Another administrator at the same page.
Colleague(i) ==
    /\ \/ \E g \in Grants :
            Send([kind |-> "save", who |-> "other", id |-> i, no |-> hist.sends, phase |-> "sent",
                  set |-> {g}, old |-> None, got |-> None, new |-> None, base |-> None, ticked |-> {}])
       \/ Send([kind |-> "delete", who |-> "other", id |-> i, no |-> hist.sends, phase |-> "sent",
                selected |-> None, row |-> None, new |-> None])
    /\ UNCHANGED <<db, shown, due, dialog, form>>

\* ---- the server -------------------------------------------------------------

Refuse(r) ==
    /\ Answer(r, "error")
    /\ UNCHANGED <<db, hist, shown, due, dialog, form>>

\* A 404, a system role, a name that is taken.
ServeRefusal(r) ==
    /\ r.phase = "sent"
    /\ \/ r.kind \in {"create", "clone"}
       \/ r.kind # "create" /\ r.id \notin Existing
       \/ r.id \in System /\ (r.kind = "delete" \/ (r.kind = "toggle" /\ ~r.to))
    /\ Refuse(r)

\* The sender hears s of its request, if it is still there.
Reply(r, s) == wire' = (wire \ {r}) \cup {q \in {s} : r.who = "desk"}

\* An id is never given twice.
New == Roles \ hist.born

ServeCreate(r) ==
    /\ r.kind = "create" /\ r.phase = "sent"
    /\ \E i \in New : /\ db' = [db EXCEPT ![i] = [made |-> TRUE, active |-> TRUE, perms |-> {}]]
                      /\ hist' = [hist EXCEPT !.born = @ \cup {i}]
                      /\ Reply(r, [r EXCEPT !.phase = "ok", !.id = i])
    /\ UNCHANGED <<shown, due, dialog, form>>

ReadRole(r) ==
    /\ r.kind = "edit" /\ r.phase = "sent" /\ r.id \in Existing
    /\ Replace(r, [r EXCEPT !.phase = "read", !.row = db[r.id]])
    /\ UNCHANGED <<db, shown, due, dialog, form, hist>>

\* Every column as it was read, in a row that is inserted again if it was
\* deleted since; what the role grants are rows of their own.
SaveRole(r) ==
    /\ r.kind = "edit" /\ r.phase = "read"
    /\ \/ /\ db' = [db EXCEPT ![r.id] = [made |-> TRUE, active |-> r.row.active, perms |-> @.perms]]
          /\ Answer(r, "ok")
       \/ UNCHANGED db /\ Answer(r, "error")
    /\ UNCHANGED <<shown, due, dialog, form, hist>>

\* What it grants goes with it.
ServeDelete(r) ==
    /\ r.kind = "delete" /\ r.phase = "sent" /\ r.id \in Existing \ System
    /\ db' = [db EXCEPT ![r.id] = NotMade]
    /\ Answer(r, "ok")
    /\ hist' = [hist EXCEPT !.meant[r.id] = {}]
    /\ UNCHANGED <<shown, due, dialog, form>>

\* update_fields: the one column.
ServeToggle(r) ==
    /\ r.kind = "toggle" /\ r.phase = "sent" /\ r.id \in Existing
    /\ r.to \/ r.id \notin System
    /\ db' = [db EXCEPT ![r.id].active = r.to]
    /\ Answer(r, "ok")
    /\ UNCHANGED <<shown, due, dialog, form, hist>>

\* The requests that have emptied role i, or just made it, and not filled it yet.
Filling(i) == {q \in wire : q.phase = "read" /\ q.kind \in {"save", "clone"} /\ q.new = i}
BeingFilled(i, r) == Filling(i) \ {r} # {}

\* update_permissions deletes what the role grants ...
ClearGrants(r) ==
    /\ r.kind = "save" /\ r.phase = "sent" /\ r.id \in Existing
    /\ db' = [db EXCEPT ![r.id].perms = {}]
    /\ Replace(r, [r EXCEPT !.phase = "read", !.old = db[r.id].perms, !.new = r.id])
    /\ hist' = [hist EXCEPT !.torn = @ \cup {i \in {r.id} : BeingFilled(i, r)}]
    /\ UNCHANGED <<shown, due, dialog, form>>

\* What the admin who saves means the role to grant: what it granted with what
\* was ticked or unticked, or all that is ticked if the page was out of date.
Meant(r) == IF r.base = r.old THEN SymDiff(r.old, r.ticked) ELSE r.set

\* ... and inserts what is ticked: all or, where a pair is there already or the
\* role is gone, nothing.
InsertGrants(r) ==
    /\ r.kind = "save" /\ r.phase = "read"
    /\ IF db[r.id].made /\ r.set \cap db[r.id].perms = {}
       THEN LET perms == db[r.id].perms \cup r.set IN
            /\ db' = [db EXCEPT ![r.id].perms = perms]
            /\ Reply(r, [r EXCEPT !.phase = "ok", !.got = [active |-> db[r.id].active, perms |-> perms]])
            /\ hist' = [hist EXCEPT !.meant[r.id] = Meant(r)]
       ELSE /\ Answer(r, "error")
            /\ hist' = [hist EXCEPT !.torn = @ \cup {i \in {r.id} : db[i].made}]
            /\ UNCHANGED db
    /\ UNCHANGED <<shown, due, dialog, form>>

\* clone makes the role ...
MakeClone(r) ==
    /\ r.kind = "clone" /\ r.phase = "sent" /\ r.id \in Existing
    /\ \E i \in New : /\ db' = [db EXCEPT ![i] = [made |-> TRUE, active |-> TRUE, perms |-> {}]]
                      /\ hist' = [hist EXCEPT !.born = @ \cup {i}]
                      /\ Replace(r, [r EXCEPT !.phase = "read", !.new = i])
    /\ UNCHANGED <<shown, due, dialog, form>>

\* ... and copies what the source grants by then.
CopyGrants(r) ==
    /\ r.kind = "clone" /\ r.phase = "read"
    /\ IF db[r.new].made /\ db[r.id].perms \cap db[r.new].perms = {}
       THEN /\ db' = [db EXCEPT ![r.new].perms = @ \cup db[r.id].perms]
            /\ Reply(r, [r EXCEPT !.phase = "ok", !.id = r.new])
            /\ hist' = [hist EXCEPT !.meant[r.new] = hist.meant[r.id],
                                    !.torn = @ \cup {i \in {r.new} : r.id \in hist.torn \/ BeingFilled(r.id, r)}]
       ELSE /\ Answer(r, "error")
            /\ hist' = [hist EXCEPT !.torn = @ \cup {i \in {r.new} : db[i].made}]
            /\ UNCHANGED db
    /\ UNCHANGED <<shown, due, dialog, form>>

\* The worker dies between the two statements: what the first did stays done.
Break(r) ==
    /\ r.kind \in {"save", "clone"} /\ r.phase = "read"
    /\ Answer(r, "error")
    /\ hist' = [hist EXCEPT !.torn = @ \cup {r.new}]
    /\ UNCHANGED <<db, shown, due, dialog, form>>

\* ---- the page hears ---------------------------------------------------------

Here(kinds) == dialog # None /\ dialog.kind \in kinds

\* handleRoleSaved, handleCloned: the modal of that kind is closed, whoever
\* opened it since, and the role of the answer selected.
RoleSaved(r, kinds) ==
    /\ r.phase = "ok" /\ Settle(r)
    /\ dialog' = IF Here(kinds) THEN None ELSE dialog
    /\ InvalidateRoles(Seat([form EXCEPT !.selected = r.id], Rows))
    /\ UNCHANGED <<db, shown, hist>>

HandleRoleSaved(r) == r.kind \in {"create", "edit"} /\ RoleSaved(r, {"create", "edit"})

HandleCloned(r) == r.kind = "clone" /\ RoleSaved(r, {"clone"})

\* handleDeleted, of a modal still there or closed since.
HandleDeleted(r) ==
    /\ r.kind = "delete" /\ r.phase = "ok" /\ Settle(r)
    /\ LET selected == IF dialog # None /\ dialog.busy = r.no THEN form.selected ELSE r.selected IN
       InvalidateRoles(Seat([form EXCEPT !.selected = IF selected = r.id THEN None ELSE @], Rows))
    /\ dialog' = IF Here({"delete"}) THEN None ELSE dialog
    /\ UNCHANGED <<db, shown, hist>>

HandleToggled(r) ==
    /\ r.kind = "toggle" /\ r.phase = "ok" /\ Settle(r)
    /\ InvalidateRoles(form)
    /\ UNCHANGED <<db, shown, dialog, hist>>

\* handlePermissionsSaved: the role of the answer replaces the row, and the
\* list is not asked again; the matrix that sent it says that it is up to date.
HandlePermissionsSaved(r) ==
    /\ r.kind = "save" /\ r.phase = "ok" /\ Settle(r)
    /\ shown' = IF r.id \in DOMAIN Rows THEN [shown EXCEPT !["roles"][r.id] = r.got] ELSE shown
    /\ form' = IF form.matrix # None /\ form.matrix.busy = r.no
               THEN [form EXCEPT !.matrix.dirty = FALSE, !.matrix.base = r.got.perms,
                                 !.matrix.ticked = SymDiff(form.matrix.set, r.got.perms)]
               ELSE form
    /\ UNCHANGED <<db, due, dialog, hist>>

HearError(r) ==
    /\ r.phase = "error" /\ Settle(r)
    /\ UNCHANGED <<db, shown, due, dialog, form, hist>>

Next ==
    \/ ReadRoles \/ ShowRoles \/ GiveUp
    \/ SwitchTab \/ OpenCreate \/ CloseModal \/ SubmitModal
    \/ SelectAll \/ DeselectAll \/ ApplyChanges
    \/ \E i \in DOMAIN Rows : Select(i) \/ OpenCard(i) \/ ToggleActive(i)
    \/ \E all \in (SUBSET Grants) \ {{}} : ToggleModule(all)
    \/ \E i \in Existing : Colleague(i)
    \/ \E r \in wire : \/ ServeRefusal(r) \/ ServeCreate(r) \/ ReadRole(r) \/ SaveRole(r) \/ ServeDelete(r)
                       \/ ServeToggle(r) \/ ClearGrants(r) \/ InsertGrants(r) \/ MakeClone(r) \/ CopyGrants(r)
                       \/ Break(r) \/ HandleRoleSaved(r) \/ HandleCloned(r) \/ HandleDeleted(r)
                       \/ HandleToggled(r) \/ HandlePermissionsSaved(r) \/ HearError(r)

Spec == Init /\ [][Next]_deskVars

\* A role grants what it was last meant to: what it granted with what the admin
\* ticked and unticked since selecting it.  Not while the server is at it, and
\* not for a role two requests filled at once or one broke off at.
RolesAreAsTicked ==
    \A i \in Existing \ hist.torn : Filling(i) # {} \/ db[i].perms = hist.meant[i]

\* ---- why it keeps it --------------------------------------------------------

\* What is ticked is what the page showed with what was ticked and unticked since.
TicksInv ==
    form.matrix # None => form.matrix.set = SymDiff(form.matrix.base, form.matrix.ticked)

\* A role nothing tore is filled by one request at a time, and empty until then.
GrantsInv(i) ==
    /\ ~db[i].made => hist.meant[i] = {}
    /\ db[i].made => i \in hist.born
    /\ i \notin hist.torn =>
          /\ \A q, r \in Filling(i) : q = r
          /\ Filling(i) # {} => db[i].perms = {}
          /\ Filling(i) = {} => db[i].perms = hist.meant[i]

\* What a request holds by its phase.
Holds(r) ==
    /\ r.kind \in {"edit", "clone", "delete"} => r.id \in Roles
    /\ r.kind = "edit" /\ r.phase = "read" => r.row \in Row /\ r.id \in hist.born
    /\ r.kind = "save" /\ r.phase = "ok" => r.got \in Card
    /\ r.kind = "save" /\ r.base # None => r.set = SymDiff(r.base, r.ticked)
    /\ r.kind \in {"save", "clone"} /\ r.phase = "read" => r.new \in hist.born
    /\ r.kind = "save" /\ r.phase = "read" => r.new = r.id /\ r.old \in SUBSET Grants
    /\ r.kind = "clone" /\ r.phase = "read" => r.new # r.id

PageInv ==
    /\ form = [tab |-> form.tab, selected |-> form.selected, matrix |-> form.matrix, coming |-> form.coming]
    /\ form.coming # None => DOMAIN form.coming \subseteq Roles /\ \A i \in DOMAIN form.coming : form.coming[i] \in Card
    /\ shown = [k \in {"roles"} |-> shown[k]]

IInv ==
    /\ TypeOK /\ PageInv /\ TicksInv
    /\ \A i \in Roles : GrantsInv(i)
    /\ \A r \in wire : Holds(r)
=============================================================================

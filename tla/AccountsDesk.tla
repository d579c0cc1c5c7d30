---------------------------- MODULE AccountsDesk ----------------------------
(***************************************************************************)
(* The chart of accounts: the tree with its form, its move dialog and its  *)
(* drag and drop (ChartOfAccountsPanel.tsx), and the account API           *)
(* (accounting/views.py, serializers.py and the save of models.py).        *)
(*                                                                         *)
(* Each handler of the API tests first and writes later, in steps of its   *)
(* own; the last one looks whether the parent left behind has any child.   *)
(***************************************************************************)
EXTENDS Desk

CONSTANTS
    Accounts,
    System       \* those the program books to itself

\* NULL is no account, and the program books to accounts of its own.
AccountsAssumption == None \notin Accounts /\ System \subseteq Accounts /\ MaxOpens \in Nat /\ MaxSends \in Nat

Row == [parent: Accounts \cup {None}, group: BOOLEAN, state: {"none", "active", "retired"}]

Rows == db.rows
Tree == shown["tree"]

ActiveIn(rows) == {a \in Accounts : rows[a].state = "active"}

Children(rows, p) == {a \in ActiveIn(rows) : rows[a].parent = p}

\* b is a or above it: in every set that holds a and is closed under parents.
Above(rows, a, b) ==
    \A S \in SUBSET Accounts :
        a \in S /\ (\A x \in S : rows[x].parent \in S \cup {None}) => b \in S

\* The walk up from a never ends.
Endless(rows, a) == \A b \in Accounts : Above(rows, a, b) => rows[b].parent # None

\* What the tree endpoint finds, going down from the roots.
InTree(rows) ==
    LET active == ActiveIn(rows) IN
    {a \in active : \A S \in SUBSET Accounts :
        (\A x \in active : rows[x].parent \in S \cup {None} => x \in S) => a \in S}

BlankForm == [parent |-> None, group |-> FALSE, state |-> "active"]

NoForm == [mode |-> "none", selected |-> None, account |-> None, row |-> BlankForm]

NoAccount == [BlankForm EXCEPT !.state = "none"]

Dbs == [rows: [Accounts -> Row], lines: SUBSET Accounts]

\* `seen` is what the handler has read; `old` the parent it left behind.
Request(kind) ==
    [kind |-> kind, who |-> "desk", phase |-> "sent", id |-> None, to |-> None, row |-> BlankForm,
     seen |-> [rows |-> [x \in Accounts |-> NoAccount], lines |-> {}], old |-> None, made |-> None]

Requests ==
    [kind: {"create", "update", "delete", "move"}, who: {"desk", "gone"},
     phase: {"sent", "read", "saved", "bare", "ok", "error"},
     id: Accounts \cup {None}, to: Accounts \cup {None}, row: Row,
     seen: Dbs, old: Accounts \cup {None}, made: Accounts \cup {None}]

TypeOK ==
    /\ db \in Dbs
    /\ DOMAIN shown = {"tree"} /\ DOMAIN Tree \subseteq Accounts /\ due \subseteq {"tree"}
    /\ dialog \in [kind: {"move"}, id: Accounts] \cup {None}
    /\ form.mode \in {"none", "create", "edit"} /\ form.selected \in Accounts \cup {None}
    /\ form.account \in Accounts \cup {None} /\ form.row \in Row
    /\ wire \subseteq Requests
    /\ hist.crossed \in BOOLEAN /\ hist.switched \subseteq Accounts

\* A group that the program books under, one account of it, the rest unused.
Init ==
    /\ \E g \in System, a \in Accounts \ System :
        db = [rows |-> [x \in Accounts |-> IF x = g THEN [BlankForm EXCEPT !.group = TRUE]
                                           ELSE IF x = a THEN [BlankForm EXCEPT !.parent = g]
                                           ELSE NoAccount],
              lines |-> {}]
    /\ shown = [query \in {"tree"} |-> [x \in {} |-> BlankForm]] /\ due = {"tree"}
    /\ dialog = None /\ form = NoForm /\ wire = {}
    /\ hist = [opens |-> 0, sends |-> 0, crossed |-> FALSE, switched |-> {}]

\* ---- the panel ----------------------------------------------------------------

LoadTree == Arrive("tree", [a \in InTree(Rows) |-> Rows[a]])

\* Leaving the tab and coming back.
Mount == Ask("tree")

Turn(f) ==
    /\ hist.opens < MaxOpens
    /\ form' = f
    /\ hist' = [hist EXCEPT !.opens = @ + 1]
    /\ UNCHANGED <<db, shown, due, dialog, wire>>

HandleSelect(a) == dialog = None /\ Turn([form EXCEPT !.selected = a, !.mode = "none"])

OpenCreate(p) ==
    dialog = None /\ Turn([mode |-> "create", selected |-> None, account |-> None,
                           row |-> [BlankForm EXCEPT !.parent = p]])

\* The rows of the tree come without their parent: the form opens with none,
\* and saving it as it is moves the account to the root.
OpenEdit(a) ==
    dialog = None /\ Turn([mode |-> "edit", selected |-> a, account |-> a,
                           row |-> [BlankForm EXCEPT !.group = Tree[a].group]])

\* The form's fields as they were filled, or with one of them changed; what is
\* edited is the account selected now.
HandleSave ==
    /\ dialog = None /\ form.mode # "none" /\ ~Pending("create") /\ ~Pending("update")
    /\ \E row \in {form.row, [form.row EXCEPT !.group = ~@], [form.row EXCEPT !.state = "retired"]}
              \cup {[form.row EXCEPT !.parent = p] : p \in DOMAIN Tree \ {form.selected}} :
          IF form.mode = "create"
          THEN row.state = "active" /\ Send([Request("create") EXCEPT !.row = row])
          ELSE Send([Request("update") EXCEPT !.id = form.selected, !.row = row])
    /\ UNCHANGED <<db, shown, due, dialog, form>>

\* As far as the tree on the page knows.
Childless(a) == \A x \in DOMAIN Tree : Tree[x].parent # a

\* From the panel or the menu of a row, which hide the button for a system
\* account; the panel's button alone waits for the pending request.
HandleDelete(a) ==
    /\ dialog = None /\ a \notin System /\ Childless(a)
    /\ Send([Request("delete") EXCEPT !.id = a])
    /\ UNCHANGED <<db, shown, due, dialog, form>>

OpenMoveDialog(a) == a \notin System /\ Open([kind |-> "move", id |-> a])

CloseMoveDialog ==
    /\ dialog # None
    /\ dialog' = None
    /\ UNCHANGED <<db, shown, due, form, wire, hist>>

SendMove(a, p) == Send([Request("move") EXCEPT !.id = a, !.to = p])

\* The dialog closes before the answer.
MoveHere(p) ==
    /\ dialog # None /\ p # dialog.id
    /\ SendMove(dialog.id, p)
    /\ dialog' = None
    /\ UNCHANGED <<db, shown, due, form>>

HandleDrop(a, p) ==
    /\ dialog = None /\ a \notin System /\ a # p
    /\ SendMove(a, p)
    /\ UNCHANGED <<db, shown, due, dialog, form>>

\* ---- the server: tests -----------------------------------------------------------

GoOn(r, ok) ==
    /\ IF ok THEN Replace(r, [r EXCEPT !.phase = "read", !.seen = db]) ELSE Answer(r, "error")
    /\ UNCHANGED <<db, shown, due, dialog, form, hist>>

\* A slip: no walk up from the new parent.
CheckMoveBlind(r) ==
    /\ r.kind = "move" /\ r.phase = "sent"
    /\ GoOn(r, Rows[r.id].state = "active" /\ (r.to # None => Rows[r.to].state = "active"))

\* The circular reference guard: a walk up from the new parent, which does not
\* end once there is a cycle.
CheckMove(r) ==
    /\ r.kind = "move" /\ r.phase = "sent" /\ (r.to # None => ~Endless(Rows, r.to))
    /\ GoOn(r, /\ Rows[r.id].state = "active"
               /\ r.to # None => Rows[r.to].state = "active" /\ ~Above(Rows, r.to, r.id))

CheckUpdate(r) ==
    /\ r.kind = "update" /\ r.phase = "sent" /\ (r.row.parent # None => ~Endless(Rows, r.row.parent))
    /\ GoOn(r, /\ Rows[r.id].state = "active"
               /\ r.row.parent # None => ~Above(Rows, r.row.parent, r.id))

\* A slip: bookings are not looked for.
CheckDeleteBlind(r) ==
    /\ r.kind = "delete" /\ r.phase = "sent"
    /\ GoOn(r, Rows[r.id].state = "active" /\ Children(Rows, r.id) = {})

CheckDelete(r) ==
    /\ r.kind = "delete" /\ r.phase = "sent"
    /\ GoOn(r, Rows[r.id].state = "active" /\ Children(Rows, r.id) = {} /\ r.id \notin db.lines)

\* ---- the server: writes -------------------------------------------------------------

\* save(): the row, and its parent becomes a group.
Saved(rows, a, row) ==
    [x \in Accounts |-> IF x = a THEN row
                        ELSE IF x = row.parent THEN [rows[x] EXCEPT !.group = TRUE]
                        ELSE rows[x]]

\* Somebody wrote since the tests.
Crossed(r) == [hist EXCEPT !.crossed = @ \/ r.seen # db]

\* The list of parents is as old as the tree on the page: it may offer accounts
\* that were removed, and neither creating nor editing refuses them.
Removed(p) == IF p # None /\ Rows[p].state = "retired" THEN {p} ELSE {}

ServeCreate(r) ==
    /\ r.kind = "create" /\ r.phase = "sent"
    /\ \E a \in {x \in Accounts : Rows[x].state = "none"} :
        /\ db' = [db EXCEPT !.rows = Saved(Rows, a, r.row)]
        /\ IF r.who = "desk" THEN Replace(r, [r EXCEPT !.phase = "ok", !.made = a]) ELSE Answer(r, "ok")
        /\ hist' = [hist EXCEPT !.switched = @ \cup Removed(r.row.parent)]
    /\ UNCHANGED <<shown, due, dialog, form>>

\* move() saves the whole account as it was read, its other columns included.
SaveMove(r) ==
    /\ r.kind = "move" /\ r.phase = "read"
    /\ db' = [db EXCEPT !.rows = Saved(Rows, r.id, [r.seen.rows[r.id] EXCEPT !.parent = r.to])]
    /\ hist' = Crossed(r)
    /\ Replace(r, [r EXCEPT !.phase = "saved", !.old = r.seen.rows[r.id].parent])
    /\ UNCHANGED <<shown, due, dialog, form>>

\* An edit may switch the account off, or say that it is no group, whatever is
\* below it; system accounts keep their state.  The old parent stays a group.
SaveUpdate(r) ==
    /\ r.kind = "update" /\ r.phase = "read"
    /\ LET row == [r.row EXCEPT !.state = IF r.id \in System THEN "active" ELSE @]
       IN /\ db' = [db EXCEPT !.rows = Saved(Rows, r.id, row)]
          /\ hist' = [Crossed(r) EXCEPT !.switched = @ \cup (IF row.state = "retired" \/ ~row.group THEN {r.id} ELSE {})
                                                     \cup Removed(row.parent)]
    /\ Answer(r, "ok")
    /\ UNCHANGED <<shown, due, dialog, form>>

SaveDelete(r) ==
    /\ r.kind = "delete" /\ r.phase = "read"
    /\ db' = [db EXCEPT !.rows[r.id].state = "retired"]
    /\ hist' = Crossed(r)
    /\ Replace(r, [r EXCEPT !.phase = "saved", !.old = r.seen.rows[r.id].parent])
    /\ UNCHANGED <<shown, due, dialog, form>>

\* The parent that was left is looked at, with no child it will be no group:
\* also the one moved to, as the code compares its id with a text.
LookBack(r) ==
    /\ r.phase = "saved"
    /\ IF r.old # None /\ Children(Rows, r.old) = {}
       THEN Replace(r, [r EXCEPT !.phase = "bare", !.seen = db])
       ELSE Answer(r, "ok")
    /\ UNCHANGED <<db, shown, due, dialog, form, hist>>

Ungroup(r) ==
    /\ r.phase = "bare"
    /\ db' = [db EXCEPT !.rows[r.old].group = FALSE]
    /\ hist' = Crossed(r)
    /\ Answer(r, "ok")
    /\ UNCHANGED <<shown, due, dialog, form>>

\* Journals take any account that is no group on their form.
Book(a) ==
    /\ Rows[a].state = "active" /\ ~Rows[a].group /\ a \notin db.lines
    /\ db' = [db EXCEPT !.lines = @ \cup {a}]
    /\ UNCHANGED <<shown, due, dialog, form, wire, hist>>

\* ---- the panel hears of it ------------------------------------------------------------

\* Each success puts the form away, whatever it is open for by then.
SucceedCreate(r) ==
    /\ r.kind = "create"
    /\ form' = [form EXCEPT !.mode = "none", !.selected = r.made]

SucceedOther(r) ==
    /\ r.kind # "create"
    /\ form' = [form EXCEPT !.mode = IF r.kind \in {"update", "delete"} THEN "none" ELSE @,
                            !.selected = IF r.kind = "delete" THEN None ELSE @]

Succeed(r) ==
    /\ r.phase = "ok" /\ Settle(r)
    /\ SucceedCreate(r) \/ SucceedOther(r)
    /\ Invalidate({"tree"})
    /\ UNCHANGED <<db, shown, dialog, hist>>

Fail(r) ==
    /\ r.phase = "error" /\ Settle(r)
    /\ UNCHANGED <<db, shown, due, dialog, form, hist>>

Next ==
    \/ LoadTree \/ Mount \/ HandleSave \/ CloseMoveDialog \/ GiveUp
    \/ \E a \in DOMAIN Tree : \/ HandleSelect(a) \/ OpenEdit(a) \/ HandleDelete(a) \/ OpenMoveDialog(a)
                              \/ \E p \in DOMAIN Tree : HandleDrop(a, p)
    \/ \E p \in DOMAIN Tree \cup {None} : OpenCreate(p) \/ MoveHere(p)
    \/ \E a \in Accounts : Book(a)
    \/ \E r \in wire : \/ CheckMove(r) \/ CheckUpdate(r) \/ CheckDelete(r)
                       \/ ServeCreate(r) \/ SaveMove(r) \/ SaveUpdate(r) \/ SaveDelete(r) \/ LookBack(r) \/ Ungroup(r)
                       \/ Succeed(r) \/ Fail(r)

Spec == Init /\ [][Next]_deskVars

\* ---- what it promises --------------------------------------------------------------------

\* No active account drops out of the tree (under a removed account, or into a
\* cycle of parents), and none with a child takes bookings of its own, unless
\* two handlers crossed or an edit switched off the account, or one above it, or
\* put it under a removed one.
TreeIsSound ==
    hist.crossed \/ \A a \in ActiveIn(Rows) :
        /\ a \in InTree(Rows) \/ \E b \in hist.switched : Above(Rows, a, b)
        /\ Children(Rows, a) # {} => Rows[a].group \/ a \in hist.switched

\* A removed account has no bookings, unless one was made while it was removed
\* or an edit switched it off.
RetiredAreEmpty ==
    hist.crossed \/ \A a \in db.lines : Rows[a].state = "active" \/ a \in hist.switched
=============================================================================

----------------------------- MODULE LedgerDesk -----------------------------
(***************************************************************************)
(* The accounting page's journal and payroll (AccountingPage.tsx), the     *)
(* journal and salary API (accounting/views.py, serializers.py) and the    *)
(* signal that books a salary (accounting/signals.py).                     *)
(*                                                                         *)
(* An entry is known by its number of the day; all amounts are one, so the *)
(* cached balance of an account is a count.  A handler's commits are steps *)
(* of their own: nothing makes a transaction of them.                      *)
(***************************************************************************)
EXTENDS Desk, Integers, FiniteSetsExt

CONSTANTS
    Salaries,
    MaxEntries   \* bound on the entries of a day

Numbers == 1..MaxEntries

NoEntry == [status |-> "none", reverses |-> 0, pays |-> None]
NoSalary == [status |-> "none", entry |-> 0]

\* A request, from whichever handler: the modal it is sent from, the row it is
\* about, the entry to insert, the number found for it, the sum of the lines.
Request(kind) ==
    [kind |-> kind, who |-> "desk", phase |-> "sent", no |-> 0, id |-> None, entry |-> NoEntry, number |-> 0, sum |-> 0]

Entries == db.entries

Posted == {n \in Numbers : Entries[n].status = "POSTED"}

\* _update_balances sums the lines of POSTED entries: a reversal has them swapped.
Sum == Cardinality({n \in Posted : Entries[n].reverses = 0}) - Cardinality({n \in Posted : Entries[n].reverses # 0})

EntryRows == [status: {"none", "DRAFT", "POSTED", "REVERSED"}, reverses: 0..MaxEntries, pays: Salaries \cup {None}]
SalaryRows == [status: {"none", "DRAFT", "PAID"}, entry: 0..MaxEntries]
Sums == -MaxEntries..MaxEntries

Phases == {"sent", "read", "paid", "numbered", "reversing", "booked", "summed", "linking", "ok", "error"}

Requests ==
    [kind: {"entry", "salary", "post", "reverse", "pay", "sale"}, who: {"desk", "other", "gone"}, phase: Phases,
     no: 0..MaxOpens, id: Numbers \cup Salaries \cup {None}, entry: EntryRows, number: 0..MaxEntries, sum: Sums]

TypeOK ==
    /\ DOMAIN db = {"entries", "salaries", "balance"}
    /\ Entries \in [Numbers -> EntryRows] /\ db.salaries \in [Salaries -> SalaryRows] /\ db.balance \in Sums
    /\ DOMAIN shown = {"entries", "salaries"} /\ due \subseteq DOMAIN shown
    /\ DOMAIN shown["entries"] \subseteq Numbers /\ DOMAIN shown["salaries"] \subseteq Salaries
    /\ dialog \in [kind: {"entry", "salary"}, no: 1..MaxOpens, filled: BOOLEAN, now: BOOLEAN] \cup {None}
    /\ form = None
    /\ wire \subseteq Requests
    /\ hist.opens \in 0..MaxOpens /\ hist.sends \in 0..MaxSends
    /\ hist.crossed \in BOOLEAN /\ hist.twice \subseteq Salaries /\ hist.refused \subseteq Salaries

\* The day starts with an entry, a draft or posted, and a salary to pay.
Init ==
    /\ \E s \in Salaries, status \in {"DRAFT", "POSTED"} :
        db = [entries |-> [n \in Numbers |-> IF n = 1 THEN [NoEntry EXCEPT !.status = status] ELSE NoEntry],
              salaries |-> [x \in Salaries |-> IF x = s THEN [NoSalary EXCEPT !.status = "DRAFT"] ELSE NoSalary],
              balance |-> IF status = "POSTED" THEN 1 ELSE 0]
    /\ shown = [k \in {"entries", "salaries"} |-> <<>>]
    /\ due = {"entries", "salaries"} /\ dialog = None /\ form = None /\ wire = {}
    /\ hist = [opens |-> 0, sends |-> 0, crossed |-> FALSE, twice |-> {}, refused |-> {}]

\* ---- the page -------------------------------------------------------------------

LoadEntries == Arrive("entries", [n \in {m \in Numbers : Entries[m].status # "none"} |-> Entries[n].status])

LoadSalaries ==
    Arrive("salaries", [s \in {x \in Salaries : db.salaries[x].status # "none"} |-> db.salaries[s].status])

\* Another search, another filter; nothing but a payment asks for the salaries
\* again while the page stays.
Browse == Ask("entries")

OpenModal(kind) == Open([kind |-> kind, no |-> hist.opens + 1, filled |-> FALSE, now |-> FALSE])

\* Lines that balance and a description; the switch posts the entry at once.
FillEntry ==
    /\ dialog # None /\ dialog.kind = "entry"
    /\ \E now \in BOOLEAN : dialog' = [dialog EXCEPT !.filled = TRUE, !.now = now]
    /\ dialog' # dialog
    /\ UNCHANGED <<db, shown, due, form, wire, hist>>

\* An employee, a period and a salary.
FillSalary ==
    /\ dialog # None /\ dialog.kind = "salary" /\ ~dialog.filled
    /\ dialog' = [dialog EXCEPT !.filled = TRUE]
    /\ UNCHANGED <<db, shown, due, form, wire, hist>>

CloseModal ==
    /\ dialog # None
    /\ dialog' = None
    /\ UNCHANGED <<db, shown, due, form, wire, hist>>

\* A modal that was closed takes its pending flag with it.
SubmitEntry ==
    /\ dialog # None /\ dialog.kind = "entry" /\ dialog.filled
    /\ \A r \in wire : r.who = "desk" /\ r.kind = "entry" => r.no # dialog.no
    /\ Send([Request("entry") EXCEPT !.no = dialog.no, !.entry.status = IF dialog.now THEN "POSTED" ELSE "DRAFT"])
    /\ UNCHANGED <<db, shown, due, dialog, form>>

SubmitSalary ==
    /\ dialog # None /\ dialog.kind = "salary" /\ dialog.filled
    /\ \A r \in wire : r.who = "desk" /\ r.kind = "salary" => r.no # dialog.no
    /\ Send([Request("salary") EXCEPT !.no = dialog.no])
    /\ UNCHANGED <<db, shown, due, dialog, form>>

\* The buttons of a row: Post and Reverse do not wait for one another.
PostEntry(n) ==
    /\ dialog = None /\ shown["entries"][n] = "DRAFT"
    /\ Send([Request("post") EXCEPT !.id = n])
    /\ UNCHANGED <<db, shown, due, dialog, form>>

ReverseEntry(n) ==
    /\ dialog = None /\ shown["entries"][n] = "POSTED"
    /\ Send([Request("reverse") EXCEPT !.id = n])
    /\ UNCHANGED <<db, shown, due, dialog, form>>

MarkPaid(s) ==
    /\ dialog = None /\ shown["salaries"][s] = "DRAFT" /\ ~Pending("pay")
    /\ Send([Request("pay") EXCEPT !.id = s])
    /\ UNCHANGED <<db, shown, due, dialog, form>>

\* A ticket is sold somewhere, and the signal books it.
SellTicket ==
    /\ Send([Request("sale") EXCEPT !.who = "other", !.entry.status = "POSTED"])
    /\ UNCHANGED <<db, shown, due, dialog, form>>

\* ---- the server: the status is read ... -------------------------------------------

ServeSalary(r) ==
    /\ r.kind = "salary" /\ r.phase = "sent"
    /\ \E s \in {x \in Salaries : db.salaries[x].status = "none"} :
          db' = [db EXCEPT !.salaries[s].status = "DRAFT"]
    /\ Answer(r, "ok")
    /\ UNCHANGED <<shown, due, dialog, form, hist>>

CheckStatus(r, ok) ==
    /\ r.phase = "sent"
    /\ IF ok THEN Replace(r, [r EXCEPT !.phase = "read"]) ELSE Answer(r, "error")
    /\ UNCHANGED <<db, shown, due, dialog, form, hist>>

CheckPost(r) == r.kind = "post" /\ CheckStatus(r, Entries[r.id].status = "DRAFT")
CheckReverse(r) == r.kind = "reverse" /\ CheckStatus(r, Entries[r.id].status = "POSTED")
CheckPay(r) == r.kind = "pay" /\ CheckStatus(r, db.salaries[r.id].status # "PAID")

\* ---- ... and written -----------------------------------------------------------------

SavePost(r) ==
    /\ r.kind = "post" /\ r.phase = "read"
    /\ db' = [db EXCEPT !.entries[r.id].status = "POSTED"]
    /\ Replace(r, [r EXCEPT !.phase = "booked"])
    /\ UNCHANGED <<shown, due, dialog, form, hist>>

\* A slip: the status is left out of what is saved.
SavePayUnmarked(r) ==
    /\ r.kind = "pay" /\ r.phase = "read"
    /\ Replace(r, [r EXCEPT !.phase = "paid"])
    /\ UNCHANGED <<db, shown, due, dialog, form, hist>>

\* Every column is saved as it was read: no entry is linked.  The signal goes on.
SavePay(r) ==
    /\ r.kind = "pay" /\ r.phase = "read"
    /\ hist' = [hist EXCEPT !.twice = @ \cup IF db.salaries[r.id].status = "PAID" THEN {r.id} ELSE {}]
    /\ db' = [db EXCEPT !.salaries[r.id] = [status |-> "PAID", entry |-> 0]]
    /\ Replace(r, [r EXCEPT !.phase = "paid"])
    /\ UNCHANGED <<shown, due, dialog, form>>

Booking(r) ==
    CASE r.kind = "pay" -> [status |-> "POSTED", reverses |-> 0, pays |-> r.id]
      [] r.kind = "reverse" -> [status |-> "POSTED", reverses |-> r.id, pays |-> None]
      [] OTHER -> r.entry

\* generate_entry_no: one more than the last of the day.
GenerateEntryNo(r) ==
    /\ \/ r.kind \in {"entry", "sale"} /\ r.phase = "sent"
       \/ r.kind = "reverse" /\ r.phase = "read"
       \/ r.kind = "pay" /\ r.phase = "paid"
    /\ LET n == 1 + Max({m \in Numbers : Entries[m].status # "none"}) IN
       /\ n \in Numbers
       /\ Replace(r, [r EXCEPT !.phase = "numbered", !.number = n])
    /\ UNCHANGED <<db, shown, due, dialog, form, hist>>

\* A slip: an entry may be reversed by several.
ClashesByNumber(r) == Entries[r.number].status # "none"

\* The number is unique, and an entry is reversed by one other at most.
Clashes(r) ==
    \/ Entries[r.number].status # "none"
    \/ r.kind = "reverse" /\ \E n \in Numbers : Entries[n].reverses = r.id

InsertEntry(r) ==
    /\ r.phase = "numbered"
    /\ IF Clashes(r)
       THEN /\ Answer(r, "error") /\ UNCHANGED db
            /\ hist' = IF r.kind = "pay" THEN [hist EXCEPT !.refused = @ \cup {r.id}] ELSE hist
       ELSE /\ db' = [db EXCEPT !.entries[r.number] = Booking(r)]
            /\ IF Booking(r).status = "DRAFT" THEN Answer(r, "ok")
               ELSE Replace(r, [r EXCEPT !.phase = IF r.kind = "reverse" THEN "reversing" ELSE "booked"])
            /\ UNCHANGED hist
    /\ UNCHANGED <<shown, due, dialog, form>>

\* A slip: the balances are left as they are.
MarkReversedOnly(r) ==
    /\ r.phase = "reversing"
    /\ db' = [db EXCEPT !.entries[r.id].status = "REVERSED"]
    /\ Answer(r, "ok")
    /\ UNCHANGED <<shown, due, dialog, form, hist>>

MarkReversed(r) ==
    /\ r.phase = "reversing"
    /\ db' = [db EXCEPT !.entries[r.id].status = "REVERSED"]
    /\ Replace(r, [r EXCEPT !.phase = "booked"])
    /\ UNCHANGED <<shown, due, dialog, form, hist>>

\* _update_balances ...
SumLines(r) ==
    /\ r.phase = "booked"
    /\ Replace(r, [r EXCEPT !.phase = "summed", !.sum = Sum])
    /\ UNCHANGED <<db, shown, due, dialog, form, hist>>

\* ... and for a salary the link to its entry.
SaveBalance(r) ==
    /\ r.phase = "summed"
    /\ db' = [db EXCEPT !.balance = r.sum]
    /\ hist' = [hist EXCEPT !.crossed = r.sum # Sum]
    /\ IF r.kind = "pay" THEN Replace(r, [r EXCEPT !.phase = "linking"]) ELSE Answer(r, "ok")
    /\ UNCHANGED <<shown, due, dialog, form>>

LinkEntry(r) ==
    /\ r.phase = "linking"
    /\ db' = [db EXCEPT !.salaries[r.id].entry = r.number]
    /\ Answer(r, "ok")
    /\ UNCHANGED <<shown, due, dialog, form, hist>>

\* The connection breaks, or 30 s are over, wherever the server is.
GiveUpAnywhere ==
    \E r \in wire :
        /\ r.who = "desk" /\ r.phase \notin {"ok", "error"}
        /\ \/ wire' = wire \ {r} /\ r.phase = "sent"
           \/ Replace(r, [r EXCEPT !.who = "gone"])
        /\ UNCHANGED <<db, shown, due, dialog, form, hist>>

\* ---- the page hears of it ----------------------------------------------------------------

\* A reversal asks for the entries only, a salary for the salaries; onClose
\* closes whichever modal of the kind is open.
Succeed(r) ==
    /\ r.phase = "ok" /\ Settle(r)
    /\ dialog' = IF dialog # None /\ dialog.kind = r.kind THEN None ELSE dialog
    /\ Invalidate(IF r.kind \in {"salary", "pay"} THEN {"salaries"} ELSE {"entries"})
    /\ UNCHANGED <<db, shown, form, hist>>

Fail(r) ==
    /\ r.phase = "error" /\ Settle(r)
    /\ UNCHANGED <<db, shown, due, dialog, form, hist>>

Next ==
    \/ LoadEntries \/ LoadSalaries \/ Browse \/ FillEntry \/ FillSalary \/ CloseModal \/ SubmitEntry \/ SubmitSalary
    \/ SellTicket \/ GiveUpAnywhere
    \/ \E kind \in {"entry", "salary"} : OpenModal(kind)
    \/ \E n \in DOMAIN shown["entries"] : PostEntry(n) \/ ReverseEntry(n)
    \/ \E s \in DOMAIN shown["salaries"] : MarkPaid(s)
    \/ \E r \in wire : \/ ServeSalary(r) \/ CheckPost(r) \/ CheckReverse(r) \/ CheckPay(r)
                       \/ SavePost(r) \/ SavePay(r) \/ GenerateEntryNo(r) \/ InsertEntry(r) \/ MarkReversed(r)
                       \/ SumLines(r) \/ SaveBalance(r) \/ LinkEntry(r) \/ Succeed(r) \/ Fail(r)

Spec == Init /\ [][Next]_deskVars

\* ---- what it promises -----------------------------------------------------------------------

Busy == {r \in wire : r.phase \notin {"sent", "ok", "error"}}

\* When no handler is under way the cached balance is the sum of the posted
\* lines, unless the last to write it had summed before another posted.
BalanceIsSum == Busy = {} => db.balance = Sum \/ hist.crossed

Payments(s) == {n \in Posted : Entries[n].pays = s}

\* Once its handler is done a paid salary has an entry of its own, unless that
\* entry was refused as its number was taken meanwhile; and it has a second one
\* only by a handler that read it unpaid before the first one marked it.
SalariesAreBooked ==
    \A s \in Salaries :
        /\ db.salaries[s].status = "PAID" /\ (\A r \in Busy : r.kind = "pay" => r.id # s) =>
            \/ db.salaries[s].entry # 0 /\ Entries[db.salaries[s].entry].pays = s
            \/ s \in hist.refused
        /\ Cardinality(Payments(s)) > 1 => s \in hist.twice

\* An entry and its reversal: a reversed entry has exactly one, posted, and an
\* entry whose reversal is posted is not reversed again.
ReversalsPair ==
    \A n \in Numbers :
        LET by == {m \in Numbers : Entries[m].reverses = n}
        IN /\ Cardinality(by) <= 1
           /\ Entries[n].status = "REVERSED" => by # {}
=============================================================================

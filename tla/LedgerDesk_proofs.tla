-------------------------- MODULE LedgerDesk_proofs --------------------------
(***************************************************************************)
(* Theorems about LedgerDesk, for any salaries and any number of entries:  *)
(* what is paired, booked and summed however the handlers' commits         *)
(* interleave.                                                             *)
(***************************************************************************)
EXTENDS LedgerDesk, FiniteSetTheorems, TLAPS

LedgerAssumption ==
    MaxEntries \in Nat \ {0} /\ MaxOpens \in Nat /\ MaxSends \in Nat /\ None \notin Salaries

\* ---- the inductive invariant -------------------------------------------------

Dbs == [entries: [Numbers -> EntryRows], salaries: [Salaries -> SalaryRows], balance: Sums]
Dialogs == [kind: {"entry", "salary"}, no: 1..MaxOpens, filled: BOOLEAN, now: BOOLEAN] \cup {None}
Hists == [opens: 0..MaxOpens, sends: 0..MaxSends, crossed: BOOLEAN, twice: SUBSET Salaries, refused: SUBSET Salaries]

\* What the page shows are lists of entries and of salaries.
Listed(lists) ==
    /\ lists = [k \in {"entries", "salaries"} |-> lists[k]]
    /\ DOMAIN lists["entries"] \subseteq Numbers /\ DOMAIN lists["salaries"] \subseteq Salaries

PageShape ==
    /\ Listed(shown) /\ due \subseteq {"entries", "salaries"}
    /\ dialog \in Dialogs /\ form = None /\ hist \in Hists

\* What a request is about, and what is there at the phase it has reached: the
\* entry it was given a number for, once it is inserted, is its own.
Sound(r, entries) ==
    /\ r.kind \in {"post", "reverse"} => r.id \in Numbers
    /\ r.kind = "pay" => r.id \in Salaries
    /\ r.kind \in {"entry", "sale"} =>
           r.entry.status \in {"DRAFT", "POSTED"} /\ r.entry.reverses = 0 /\ r.entry.pays = None
    /\ r.phase = "numbered" => r.number \in Numbers /\ r.kind \in {"entry", "sale", "reverse", "pay"}
    /\ r.phase = "paid" => r.kind = "pay"
    /\ r.phase = "read" => r.kind \in {"post", "reverse", "pay"}
    /\ r.phase = "reversing" => r.kind = "reverse" /\ r.number \in Numbers /\ entries[r.number].reverses = r.id
    /\ r.phase = "linking" => r.kind = "pay"
    /\ r.kind = "pay" /\ r.phase \in {"booked", "summed", "linking"} =>
           r.number \in Numbers /\ entries[r.number].pays = r.id

WireInv == \A r \in wire : r \in Requests /\ Sound(r, Entries)

\* A number that is not taken is blank; an entry is reversed by one other, and
\* by one at least when it is marked.
PairInv ==
    /\ \A n \in Numbers : Entries[n].status = "none" => Entries[n].reverses = 0 /\ Entries[n].pays = None
    /\ \A m, n \in Numbers : Entries[m].reverses = Entries[n].reverses /\ Entries[m].reverses # 0 => m = n
    /\ \A n \in Numbers : Entries[n].status = "REVERSED" => \E m \in Numbers : Entries[m].reverses = n

\* Whoever changed the posted lines has still to write their sum.
Owes(r) == r.phase \in {"reversing", "booked", "summed"}

Owing == {r \in wire : Owes(r)}

SumInv == db.balance = Sum \/ hist.crossed \/ Owing # {}

\* Handlers that have marked s paid and not linked an entry to it yet, and
\* those of them that have not inserted it.
Pays(r) == r.kind = "pay" /\ r.phase \in {"paid", "numbered", "booked", "summed", "linking"}
Books(r) == r.kind = "pay" /\ r.phase \in {"paid", "numbered"}

Paying(s) == {r \in wire : Pays(r) /\ r.id = s}
Unbooked(s) == {r \in wire : Books(r) /\ r.id = s}

Paid(s) == db.salaries[s].status = "PAID"

Linked(s) == db.salaries[s].entry \in Numbers /\ Entries[db.salaries[s].entry].pays = s

\* A salary marked once is booked once: by the handler that marked it.
Once(s) ==
    /\ \A m, n \in Numbers : Entries[m].pays = s /\ Entries[n].pays = s => m = n
    /\ \A q, r \in Unbooked(s) : q = r
    /\ Unbooked(s) # {} => Paid(s) /\ \A n \in Numbers : Entries[n].pays # s
    /\ \A n \in Numbers : Entries[n].pays = s => Paid(s)

PayInv ==
    \A s \in Salaries :
        /\ Paid(s) => Linked(s) \/ s \in hist.refused \/ Paying(s) # {}
        /\ s \notin hist.twice => Once(s)

IInv == db \in Dbs /\ PageShape /\ WireInv /\ PairInv /\ SumInv /\ PayInv
-----------------------------------------------------------------------------
\* The sum of the lines is between all entries reversed and none.
LEMMA SumType ==
  ASSUME LedgerAssumption
  PROVE  Sum \in Sums
<1> DEFINE plus == {n \in Posted : Entries[n].reverses = 0}
           minus == {n \in Posted : Entries[n].reverses # 0}
<1>1. IsFiniteSet(Numbers) /\ Cardinality(Numbers) = MaxEntries
  <2>1. 1 \in Int /\ MaxEntries \in Int /\ 1 <= MaxEntries
    BY DEF LedgerAssumption
  <2>2. IsFiniteSet(1..MaxEntries) /\ Cardinality(1..MaxEntries) = MaxEntries - 1 + 1
    BY <2>1, FS_Interval
  <2> QED
    BY <2>1, <2>2 DEF Numbers
<1>2. plus \subseteq Numbers /\ minus \subseteq Numbers
  BY DEF Posted
<1> HIDE DEF plus, minus
<1>3. /\ IsFiniteSet(plus) /\ Cardinality(plus) <= MaxEntries
      /\ IsFiniteSet(minus) /\ Cardinality(minus) <= MaxEntries
  BY <1>1, <1>2, FS_Subset
<1>4. Cardinality(plus) \in Nat /\ Cardinality(minus) \in Nat
  BY <1>3, FS_CardinalityType
<1>5. Sum = Cardinality(plus) - Cardinality(minus)
  BY DEF Sum, plus, minus
<1> QED
  BY <1>3, <1>4, <1>5 DEF Sums, LedgerAssumption

\* Entries keep what they reverse and pay once they have a number.
Grows(old, new) ==
    \A n \in Numbers : old[n].status # "none" =>
        new[n].status # "none" /\ new[n].reverses = old[n].reverses /\ new[n].pays = old[n].pays

LEMMA SoundKept ==
  ASSUME LedgerAssumption, PairInv, NEW entries, Grows(Entries, entries), NEW r \in wire, r \in Requests,
         Sound(r, Entries)
  PROVE  Sound(r, entries)
<1>1. r.number \in Numbers /\ r.phase = "reversing" => entries[r.number].reverses = r.id
  <2> SUFFICES ASSUME r.number \in Numbers, r.phase = "reversing"
               PROVE  entries[r.number].reverses = r.id
    OBVIOUS
  <2>1. r.id \in Numbers /\ Entries[r.number].reverses = r.id
    BY DEF Sound
  <2>2. r.id # 0
    BY <2>1 DEF Numbers
  <2>3. Entries[r.number].status # "none"
    BY <2>1, <2>2 DEF PairInv
  <2> QED
    BY <2>1, <2>3 DEF Grows
<1>2. r.kind = "pay" /\ r.phase \in {"booked", "summed", "linking"} => entries[r.number].pays = r.id
  <2> SUFFICES ASSUME r.kind = "pay", r.phase \in {"booked", "summed", "linking"}
               PROVE  entries[r.number].pays = r.id
    OBVIOUS
  <2>1. r.id \in Salaries /\ r.number \in Numbers /\ Entries[r.number].pays = r.id
    BY DEF Sound
  <2>2. Entries[r.number].status # "none"
    BY <2>1 DEF PairInv, LedgerAssumption
  <2> QED
    BY <2>1, <2>2 DEF Grows
<1> QED
  BY <1>1, <1>2 DEF Sound
-----------------------------------------------------------------------------
\* Requests that owe, pay and book the same.
Alike(q, r) ==
    /\ q.kind = r.kind /\ q.id = r.id
    /\ Owes(q) <=> Owes(r)
    /\ Pays(q) <=> Pays(r)
    /\ Books(q) <=> Books(r)

Idle(r) == r.phase \in {"sent", "ok", "error"}

\* A step that writes nothing: a request is sent, is over, or is held by the
\* server or the page a step further, owing what it owed.
Quiet ==
    /\ UNCHANGED <<db, hist.crossed, hist.twice, hist.refused>>
    /\ \/ UNCHANGED wire
       \/ \E r \in wire : Idle(r) /\ wire' = wire \ {r}
       \/ \E r \in wire, q \in Requests : Alike(q, r) /\ Sound(q, Entries) /\ wire' = (wire \ {r}) \cup {q}
       \/ \E q \in Requests : Idle(q) /\ Sound(q, Entries) /\ wire' = wire \cup {q}

LEMMA IdleDoes ==
  ASSUME NEW r, Idle(r)
  PROVE  ~ Owes(r) /\ ~ Pays(r) /\ ~ Books(r)
  BY DEF Idle, Owes, Pays, Books

\* The three sets the invariant is about, however small the step.
LEMMA QuietSets ==
  ASSUME Quiet
  PROVE  /\ Owing # {} => Owing' # {}
         /\ \A s : Paying(s) # {} => Paying(s)' # {}
         /\ \A s : Unbooked(s) = {} => Unbooked(s)' = {}
         /\ \A s : (\A q, r \in Unbooked(s) : q = r) => \A q, r \in Unbooked(s)' : q = r
<1>1. CASE UNCHANGED wire
  BY <1>1 DEF Owing, Paying, Unbooked
<1>2. ASSUME NEW r \in wire, Idle(r), wire' = wire \ {r}
      PROVE  /\ Owing' = Owing /\ \A s : Paying(s)' = Paying(s) /\ Unbooked(s)' = Unbooked(s)
  BY <1>2, IdleDoes DEF Owing, Paying, Unbooked
<1>3. ASSUME NEW r \in wire, NEW q \in Requests, Alike(q, r), wire' = (wire \ {r}) \cup {q}
      PROVE  /\ Owing # {} => Owing' # {}
             /\ \A s : Paying(s) # {} => Paying(s)' # {}
             /\ \A s : Unbooked(s) = {} => Unbooked(s)' = {}
             /\ \A s : (\A x, y \in Unbooked(s) : x = y) => \A x, y \in Unbooked(s)' : x = y
  <2>1. Owing # {} => Owing' # {}
    BY <1>3 DEF Owing, Alike
  <2>2. \A s : Paying(s) # {} => Paying(s)' # {}
    BY <1>3 DEF Paying, Alike
  <2>3. \A s : Unbooked(s) = {} => Unbooked(s)' = {}
    BY <1>3 DEF Unbooked, Alike
  <2>4. \A s : (\A x, y \in Unbooked(s) : x = y) => \A x, y \in Unbooked(s)' : x = y
    <3> SUFFICES ASSUME NEW s, \A x, y \in Unbooked(s) : x = y, NEW x \in Unbooked(s)', NEW y \in Unbooked(s)'
                 PROVE  x = y
      OBVIOUS
    <3> QED
      BY <1>3 DEF Unbooked, Alike
  <2> QED
    BY <2>1, <2>2, <2>3, <2>4
<1>4. ASSUME NEW q \in Requests, Idle(q), wire' = wire \cup {q}
      PROVE  /\ Owing' = Owing /\ \A s : Paying(s)' = Paying(s) /\ Unbooked(s)' = Unbooked(s)
  BY <1>4, IdleDoes DEF Owing, Paying, Unbooked
<1> QED
  BY <1>1, <1>2, <1>3, <1>4 DEF Quiet

LEMMA QuietKept ==
  ASSUME LedgerAssumption, db \in Dbs, WireInv, PairInv, SumInv, PayInv, Quiet
  PROVE  db' \in Dbs /\ WireInv' /\ PairInv' /\ SumInv' /\ PayInv'
<1>1. db' = db
  BY DEF Quiet
<1>2. UNCHANGED <<Entries, Sum>>
  BY <1>1 DEF Entries, Sum, Posted
<1>3. WireInv'
  BY <1>2 DEF Quiet, WireInv
<1>4. PairInv'
  BY <1>2 DEF PairInv
<1>5. SumInv'
  BY <1>1, <1>2, QuietSets DEF Quiet, SumInv
<1>6. \A s : (Paid(s)' <=> Paid(s)) /\ (Linked(s)' <=> Linked(s))
  BY <1>1, <1>2 DEF Paid, Linked
<1>7. \A s \in Salaries : Once(s) => Once(s)'
  BY <1>2, <1>6, QuietSets DEF Once
<1>8. PayInv'
  BY <1>6, <1>7, QuietSets DEF PayInv, Quiet
<1> QED
  BY <1>1, <1>3, <1>4, <1>5, <1>8
-----------------------------------------------------------------------------
\* What is sent is a request, and nothing to be wrong about yet.
LEMMA NewRequest ==
  ASSUME LedgerAssumption, NEW q \in Requests, Idle(q), NEW who \in {"desk", "other"}, Sound(q, Entries),
         Send(q), UNCHANGED db, hist \in Hists
  PROVE  Quiet
  BY DEF Quiet, Send, Hists

LEMMA BlankType ==
  ASSUME LedgerAssumption
  PROVE  /\ NoEntry \in EntryRows
         /\ \A kind \in {"entry", "salary", "post", "reverse", "pay", "sale"} : Request(kind) \in Requests
<1>1. NoEntry \in EntryRows
  BY DEF NoEntry, EntryRows, LedgerAssumption
<1> QED
  BY <1>1 DEF Request, Requests, Phases, Sums, LedgerAssumption

\* An answer, or a phase more, of a request that owes nothing.
LEMMA Told ==
  ASSUME NEW r \in wire, r \in Requests, Idle(r), Sound(r, Entries),
         NEW phase \in {"ok", "error"}, Answer(r, phase),
         UNCHANGED <<db, hist.crossed, hist.twice, hist.refused>>
  PROVE  Quiet
<1> DEFINE q == [r EXCEPT !.phase = phase]
<1>1. q \in Requests /\ q.kind = r.kind /\ q.id = r.id /\ q.phase = phase /\ q.entry = r.entry /\ q.number = r.number
  BY DEF Requests, Phases
<1>2. wire' = wire \ {r} \/ wire' = (wire \ {r}) \cup {q}
  BY DEF Answer
<1> HIDE DEF q
<1>3. Alike(q, r)
  BY <1>1 DEF Alike, Idle, Owes, Pays, Books
<1>4. Sound(q, Entries)
  BY <1>1 DEF Sound
<1> QED
  BY <1>1, <1>2, <1>3, <1>4 DEF Quiet

\* The gestures of the page, and what it hears, write nothing.
LEMMA PageQuiet ==
  ASSUME LedgerAssumption, PageShape, WireInv,
         \/ LoadEntries \/ LoadSalaries \/ Browse \/ FillEntry \/ FillSalary \/ CloseModal \/ SubmitEntry
         \/ SubmitSalary \/ SellTicket \/ GiveUpAnywhere
         \/ \E kind \in {"entry", "salary"} : OpenModal(kind)
         \/ \E n \in DOMAIN shown["entries"] : PostEntry(n) \/ ReverseEntry(n)
         \/ \E s \in DOMAIN shown["salaries"] : MarkPaid(s)
         \/ \E r \in wire : Succeed(r) \/ Fail(r)
  PROVE  Quiet
<1>1. hist \in Hists /\ DOMAIN shown["entries"] \subseteq Numbers /\ DOMAIN shown["salaries"] \subseteq Salaries
  BY DEF PageShape, Listed
<1>2. CASE LoadEntries \/ LoadSalaries \/ Browse
  BY <1>2 DEF LoadEntries, LoadSalaries, Browse, Arrive, Ask, Quiet
<1>3. CASE FillEntry \/ FillSalary \/ CloseModal
  BY <1>3 DEF FillEntry, FillSalary, CloseModal, Quiet
<1>4. ASSUME NEW kind, OpenModal(kind) PROVE Quiet
  BY <1>1, <1>4 DEF OpenModal, Open, Quiet, Hists
<1>5. CASE SubmitEntry
  <2> DEFINE q == [Request("entry") EXCEPT !.no = dialog.no, !.entry.status = IF dialog.now THEN "POSTED" ELSE "DRAFT"]
  <2>1. dialog.no \in 1..MaxOpens
    BY <1>5 DEF SubmitEntry, PageShape, Dialogs
  <2>2. /\ q \in Requests /\ q.kind = "entry" /\ q.phase = "sent" /\ q.entry.reverses = 0 /\ q.entry.pays = None
        /\ q.entry.status \in {"POSTED", "DRAFT"}
    <3> DEFINE status == IF dialog.now THEN "POSTED" ELSE "DRAFT"
               e == [NoEntry EXCEPT !.status = status]
    <3>1. status \in {"POSTED", "DRAFT"}
      OBVIOUS
    <3>2. q = [Request("entry") EXCEPT !.no = dialog.no, !.entry = e]
      BY DEF Request
    <3> HIDE DEF status, q
    <3>3. e \in EntryRows /\ e.reverses = 0 /\ e.pays = None /\ e.status = status
      BY <3>1, BlankType DEF NoEntry, EntryRows
    <3>4. dialog.no \in 0..MaxOpens
      BY <2>1
    <3>5. /\ Request("entry") \in Requests /\ Request("entry").kind = "entry" /\ Request("entry").phase = "sent"
      BY BlankType DEF Request
    <3> HIDE DEF e
    <3> QED
      BY <3>1, <3>2, <3>3, <3>4, <3>5 DEF Requests
  <2>3. Send(q) /\ UNCHANGED db
    BY <1>5 DEF SubmitEntry
  <2> HIDE DEF q
  <2> QED
    BY <1>1, <2>2, <2>3, NewRequest DEF Sound, Idle
<1>6. CASE SubmitSalary
  <2> DEFINE q == [Request("salary") EXCEPT !.no = dialog.no]
  <2>1. dialog.no \in 1..MaxOpens
    BY <1>6 DEF SubmitSalary, PageShape, Dialogs
  <2>2. q \in Requests /\ q.kind = "salary" /\ q.phase = "sent"
    BY <2>1, BlankType DEF Request, Requests, LedgerAssumption
  <2>3. Send(q) /\ UNCHANGED db
    BY <1>6 DEF SubmitSalary
  <2> HIDE DEF q
  <2> QED
    BY <1>1, <2>2, <2>3, NewRequest DEF Sound, Idle
<1>7. CASE SellTicket
  <2> DEFINE q == [Request("sale") EXCEPT !.who = "other", !.entry.status = "POSTED"]
  <2>1. /\ q \in Requests /\ q.kind = "sale" /\ q.phase = "sent" /\ q.entry.reverses = 0 /\ q.entry.pays = None
        /\ q.entry.status = "POSTED"
    BY BlankType DEF Request, Requests, NoEntry, EntryRows
  <2>2. Send(q) /\ UNCHANGED db
    BY <1>7 DEF SellTicket
  <2> HIDE DEF q
  <2> QED
    BY <1>1, <2>1, <2>2, NewRequest DEF Sound, Idle
<1>8. ASSUME NEW n \in DOMAIN shown["entries"], NEW kind \in {"post", "reverse"},
             Send([Request(kind) EXCEPT !.id = n]), UNCHANGED db
      PROVE  Quiet
  <2> DEFINE q == [Request(kind) EXCEPT !.id = n]
  <2>1. n \in Numbers
    BY <1>1
  <2>2. q \in Requests /\ q.kind = kind /\ q.phase = "sent" /\ q.id = n
    BY <2>1, BlankType DEF Request, Requests
  <2>3. Send(q)
    BY <1>8
  <2> HIDE DEF q
  <2> QED
    BY <1>1, <1>8, <2>1, <2>2, <2>3, NewRequest DEF Sound, Idle
<1>9. ASSUME NEW s \in DOMAIN shown["salaries"], MarkPaid(s) PROVE Quiet
  <2> DEFINE q == [Request("pay") EXCEPT !.id = s]
  <2>1. s \in Salaries
    BY <1>1
  <2>2. q \in Requests /\ q.kind = "pay" /\ q.phase = "sent" /\ q.id = s
    BY <2>1, BlankType DEF Request, Requests
  <2>3. Send(q) /\ UNCHANGED db
    BY <1>9 DEF MarkPaid
  <2> HIDE DEF q
  <2> QED
    BY <1>1, <2>1, <2>2, <2>3, NewRequest DEF Sound, Idle
<1>10. ASSUME NEW r \in wire, Succeed(r) \/ Fail(r) PROVE Quiet
  BY <1>10 DEF Succeed, Fail, Settle, Quiet, Idle
<1>11. CASE GiveUpAnywhere
  <2>1. PICK r \in wire : \/ wire' = wire \ {r} /\ r.phase = "sent"
                          \/ Replace(r, [r EXCEPT !.who = "gone"])
    BY <1>11 DEF GiveUpAnywhere
  <2>2. UNCHANGED <<db, hist>>
    BY <1>11 DEF GiveUpAnywhere
  <2>3. r \in Requests /\ Sound(r, Entries)
    BY DEF WireInv
  <2>4. CASE wire' = wire \ {r} /\ r.phase = "sent"
    BY <2>2, <2>4 DEF Quiet, Idle
  <2>5. CASE Replace(r, [r EXCEPT !.who = "gone"])
    <3> DEFINE q == [r EXCEPT !.who = "gone"]
    <3>1. q \in Requests /\ q.kind = r.kind /\ q.id = r.id /\ q.phase = r.phase /\ q.entry = r.entry /\ q.number = r.number
      BY <2>3 DEF Requests
    <3>2. wire' = (wire \ {r}) \cup {q}
      BY <2>5 DEF Replace
    <3> HIDE DEF q
    <3>3. Sound(q, Entries) /\ Alike(q, r)
      BY <2>3, <3>1 DEF Sound, Alike, Owes, Pays, Books
    <3> QED
      BY <2>2, <3>1, <3>2, <3>3 DEF Quiet
  <2> QED
    BY <2>1, <2>4, <2>5
<1>12. ASSUME NEW n \in DOMAIN shown["entries"], PostEntry(n) \/ ReverseEntry(n) PROVE Quiet
  BY <1>8, <1>12 DEF PostEntry, ReverseEntry
<1> QED
  BY <1>2, <1>3, <1>4, <1>5, <1>6, <1>7, <1>9, <1>10, <1>11, <1>12

\* So do the tests of the handlers, the number looked up, the sum taken.
LEMMA ServerQuiet ==
  ASSUME LedgerAssumption, db \in Dbs, WireInv, NEW r \in wire,
         CheckPost(r) \/ CheckReverse(r) \/ CheckPay(r) \/ GenerateEntryNo(r) \/ SumLines(r)
  PROVE  Quiet
<1>1. r \in Requests /\ Sound(r, Entries)
  BY DEF WireInv
<1>2. CASE CheckPost(r) \/ CheckReverse(r) \/ CheckPay(r)
  <2> DEFINE q == [r EXCEPT !.phase = "read"]
  <2>1. r.kind \in {"post", "reverse", "pay"} /\ r.phase = "sent" /\ UNCHANGED <<db, hist>>
    BY <1>2 DEF CheckPost, CheckReverse, CheckPay, CheckStatus
  <2>2. Answer(r, "error") \/ wire' = (wire \ {r}) \cup {q}
    BY <1>2 DEF CheckPost, CheckReverse, CheckPay, CheckStatus, Replace
  <2>3. q \in Requests /\ q.kind = r.kind /\ q.id = r.id /\ q.phase = "read" /\ q.entry = r.entry /\ q.number = r.number
    BY <1>1 DEF Requests, Phases
  <2> HIDE DEF q
  <2>4. Sound(q, Entries) /\ Alike(q, r)
    BY <1>1, <2>1, <2>3 DEF Sound, Alike, Owes, Pays, Books
  <2>5. CASE Answer(r, "error")
    BY <1>1, <2>1, <2>5, Told DEF Idle
  <2> QED
    BY <2>1, <2>2, <2>3, <2>4, <2>5 DEF Quiet
<1>3. CASE GenerateEntryNo(r)
  <2>1. PICK n \in Numbers : Replace(r, [r EXCEPT !.phase = "numbered", !.number = n])
    BY <1>3 DEF GenerateEntryNo
  <2> DEFINE q == [r EXCEPT !.phase = "numbered", !.number = n]
  <2>2. /\ \/ r.kind \in {"entry", "sale"} /\ r.phase = "sent"
           \/ r.kind = "reverse" /\ r.phase = "read"
           \/ r.kind = "pay" /\ r.phase = "paid"
        /\ UNCHANGED <<db, hist>>
    BY <1>3 DEF GenerateEntryNo
  <2>3. q \in Requests /\ q.kind = r.kind /\ q.id = r.id /\ q.phase = "numbered" /\ q.entry = r.entry /\ q.number = n
    <3>1. n \in 0..MaxEntries
      BY DEF Numbers
    <3> QED
      BY <1>1, <3>1 DEF Requests, Phases
  <2>4. wire' = (wire \ {r}) \cup {q}
    BY <2>1 DEF Replace
  <2> HIDE DEF q
  <2>5. Sound(q, Entries) /\ Alike(q, r)
    BY <1>1, <2>2, <2>3 DEF Sound, Alike, Owes, Pays, Books
  <2> QED
    BY <2>2, <2>3, <2>4, <2>5 DEF Quiet
<1>4. CASE SumLines(r)
  <2> DEFINE q == [r EXCEPT !.phase = "summed", !.sum = Sum]
  <2>1. r.phase = "booked" /\ UNCHANGED <<db, hist>> /\ wire' = (wire \ {r}) \cup {q}
    BY <1>4 DEF SumLines, Replace
  <2>2. q \in Requests /\ q.kind = r.kind /\ q.id = r.id /\ q.phase = "summed" /\ q.entry = r.entry /\ q.number = r.number
    BY <1>1, SumType DEF Requests, Phases
  <2> HIDE DEF q
  <2>3. Sound(q, Entries) /\ Alike(q, r)
    BY <1>1, <2>1, <2>2 DEF Sound, Alike, Owes, Pays, Books
  <2> QED
    BY <2>1, <2>2, <2>3 DEF Quiet
<1> QED
  BY <1>2, <1>3, <1>4
-----------------------------------------------------------------------------
\* ---- the handlers that write ---------------------------------------------------

\* A request that moves on beside entries that only grew; the others are what
\* they were.
LEMMA WireMoved ==
  ASSUME LedgerAssumption, WireInv, PairInv, Grows(Entries, Entries'),
         NEW r \in wire, NEW q \in Requests, Sound(q, Entries'),
         wire' = wire \ {r} \/ wire' = (wire \ {r}) \cup {q}
  PROVE  WireInv'
<1>1. \A x \in wire : x \in Requests /\ Sound(x, Entries')
  BY SoundKept DEF WireInv
<1> QED
  BY <1>1 DEF WireInv

\* An entry written to one number.
LEMMA EntryWritten ==
  ASSUME LedgerAssumption, db \in Dbs, NEW n \in Numbers, NEW e \in EntryRows, db' = [db EXCEPT !.entries[n] = e]
  PROVE  /\ db' \in Dbs /\ Entries'[n] = e /\ \A m \in Numbers \ {n} : Entries'[m] = Entries[m]
         /\ db'.salaries = db.salaries /\ db'.balance = db.balance
  BY DEF Dbs, Entries

LEMMA ServedSalary ==
  ASSUME LedgerAssumption, db \in Dbs, PageShape, WireInv, PairInv, SumInv, PayInv, NEW r \in wire, ServeSalary(r)
  PROVE  db' \in Dbs /\ WireInv' /\ PairInv' /\ SumInv' /\ PayInv'
<1>1. PICK s \in Salaries : db.salaries[s].status = "none" /\ db' = [db EXCEPT !.salaries[s].status = "DRAFT"]
  BY DEF ServeSalary
<1>2. r.phase = "sent" /\ r.kind = "salary" /\ Answer(r, "ok") /\ UNCHANGED <<shown, due, dialog, form, hist>>
  BY DEF ServeSalary
<1>3. /\ db' \in Dbs /\ db'.entries = db.entries /\ db'.balance = db.balance
      /\ \A t \in Salaries : Paid(t)' <=> Paid(t)
      /\ \A t \in Salaries : db'.salaries[t].entry = db.salaries[t].entry
  BY <1>1 DEF Dbs, SalaryRows, Paid
<1>4. UNCHANGED <<Entries, Sum>>
  BY <1>3 DEF Entries, Sum, Posted
<1>5. \A t \in Salaries : Linked(t)' <=> Linked(t)
  BY <1>3, <1>4 DEF Linked
<1>6. r \in Requests /\ Sound(r, Entries)
  BY DEF WireInv
<1> DEFINE q == [r EXCEPT !.phase = "ok"]
<1>7. q \in Requests /\ q.kind = r.kind /\ q.id = r.id /\ q.phase = "ok"
  BY <1>6 DEF Requests, Phases
<1>8. wire' = wire \ {r} \/ wire' = (wire \ {r}) \cup {q}
  BY <1>2 DEF Answer
<1> HIDE DEF q
<1>9. Sound(q, Entries') /\ Grows(Entries, Entries')
  BY <1>2, <1>4, <1>7 DEF Sound, Grows
<1>10. Owing' = Owing /\ \A t : Paying(t)' = Paying(t) /\ Unbooked(t)' = Unbooked(t)
  BY <1>2, <1>7, <1>8 DEF Owing, Paying, Unbooked, Owes, Pays, Books
<1>11. WireInv'
  BY <1>7, <1>8, <1>9, WireMoved
<1>12. PairInv' /\ SumInv'
  BY <1>2, <1>3, <1>4, <1>10 DEF PairInv, SumInv
<1>13. \A t \in Salaries : Once(t) => Once(t)'
  BY <1>3, <1>4, <1>10 DEF Once
<1>14. PayInv'
  BY <1>2, <1>3, <1>5, <1>10, <1>13 DEF PayInv
<1> QED
  BY <1>3, <1>11, <1>12, <1>14

\* An entry's status changes, by a request that has the sum to write.
LEMMA StatusSaved ==
  ASSUME LedgerAssumption, db \in Dbs, WireInv, PairInv, SumInv, PayInv,
         NEW r \in wire, r.kind \in {"post", "reverse"}, NEW status \in {"POSTED", "REVERSED"},
         db' = [db EXCEPT !.entries[r.id].status = status], UNCHANGED hist,
         Replace(r, [r EXCEPT !.phase = "booked"]),
         status = "REVERSED" => r.phase = "reversing"
  PROVE  db' \in Dbs /\ WireInv' /\ PairInv' /\ SumInv' /\ PayInv'
<1>1. r \in Requests /\ Sound(r, Entries) /\ r.id \in Numbers
  BY DEF WireInv, Sound
<1> DEFINE e == [Entries[r.id] EXCEPT !.status = status]
           q == [r EXCEPT !.phase = "booked"]
<1>2. e \in EntryRows /\ e.status = status /\ e.reverses = Entries[r.id].reverses /\ e.pays = Entries[r.id].pays
  BY <1>1 DEF Dbs, EntryRows, Entries
<1>3. db' = [db EXCEPT !.entries[r.id] = e]
  BY <1>1 DEF Entries, Dbs
<1>4. q \in Requests /\ q.kind = r.kind /\ q.id = r.id /\ q.phase = "booked"
  BY <1>1 DEF Requests, Phases
<1>5. wire' = (wire \ {r}) \cup {q}
  BY DEF Replace
<1> HIDE DEF e, q
<1>6. /\ db' \in Dbs /\ Entries'[r.id] = e /\ \A m \in Numbers \ {r.id} : Entries'[m] = Entries[m]
      /\ db'.salaries = db.salaries
  BY <1>1, <1>2, <1>3, EntryWritten
<1>7. \A m \in Numbers : Entries'[m].reverses = Entries[m].reverses /\ Entries'[m].pays = Entries[m].pays
  BY <1>2, <1>6
<1>8. Grows(Entries, Entries')
  BY <1>2, <1>6 DEF Grows
<1>9. WireInv'
  BY <1>1, <1>4, <1>5, <1>8, WireMoved DEF Sound
<1>10. PairInv'
  <2>1. \A n \in Numbers : Entries'[n].status = "none" => Entries'[n].reverses = 0 /\ Entries'[n].pays = None
    BY <1>2, <1>6 DEF PairInv
  <2>2. \A m, n \in Numbers : Entries'[m].reverses = Entries'[n].reverses /\ Entries'[m].reverses # 0 => m = n
    BY <1>7 DEF PairInv
  <2>3. ASSUME NEW n \in Numbers, Entries'[n].status = "REVERSED"
        PROVE  \E m \in Numbers : Entries'[m].reverses = n
    <3>1. CASE n = r.id
      <4>1. r.phase = "reversing"
        BY <1>2, <1>6, <2>3, <3>1
      <4>2. r.number \in Numbers /\ Entries[r.number].reverses = r.id
        BY <1>1, <4>1 DEF Sound
      <4> QED
        BY <1>7, <3>1, <4>2
    <3>2. CASE n # r.id
      BY <1>6, <1>7, <2>3, <3>2 DEF PairInv
    <3> QED
      BY <3>1, <3>2
  <2> QED
    BY <2>1, <2>2, <2>3 DEF PairInv
<1>11. SumInv'
  BY <1>4, <1>5 DEF SumInv, Owing, Owes
<1>12. \A t : Paying(t)' = Paying(t) /\ Unbooked(t)' = Unbooked(t)
  BY <1>4, <1>5 DEF Paying, Unbooked, Pays, Books
<1>13. \A t \in Salaries : (Paid(t)' <=> Paid(t)) /\ (Linked(t)' <=> Linked(t))
  BY <1>6, <1>7 DEF Paid, Linked
<1>14. \A t \in Salaries : Once(t) => Once(t)'
  BY <1>7, <1>12, <1>13 DEF Once
<1>15. PayInv'
  BY <1>12, <1>13, <1>14 DEF PayInv
<1> QED
  BY <1>6, <1>9, <1>10, <1>11, <1>15

\* A sum taken is written: it is the sum, or the history tells.
LEMMA SavedBalance ==
  ASSUME LedgerAssumption, db \in Dbs, PageShape, WireInv, PairInv, SumInv, PayInv, NEW r \in wire, SaveBalance(r)
  PROVE  db' \in Dbs /\ WireInv' /\ PairInv' /\ SumInv' /\ PayInv'
<1>1. r \in Requests /\ Sound(r, Entries) /\ r.phase = "summed" /\ r.sum \in Sums
  BY DEF WireInv, SaveBalance, Requests
<1>2. db' = [db EXCEPT !.balance = r.sum] /\ hist' = [hist EXCEPT !.crossed = r.sum # Sum] /\ hist \in Hists
  BY DEF SaveBalance, PageShape
<1>3. /\ db' \in Dbs /\ db'.entries = db.entries /\ db'.salaries = db.salaries /\ db'.balance = r.sum
      /\ (hist'.crossed <=> r.sum # Sum) /\ hist'.twice = hist.twice /\ hist'.refused = hist.refused
  BY <1>1, <1>2 DEF Dbs, Hists
<1>4. UNCHANGED <<Entries, Sum>>
  BY <1>3 DEF Entries, Sum, Posted
<1>5. PICK phase \in {"ok", "error", "linking"} :
         /\ phase = "linking" <=> r.kind = "pay"
         /\ (wire' = wire \ {r} /\ phase # "linking") \/ wire' = (wire \ {r}) \cup {[r EXCEPT !.phase = phase]}
  BY DEF SaveBalance, Answer, Replace
<1> DEFINE q == [r EXCEPT !.phase = phase]
<1>6. q \in Requests /\ q.kind = r.kind /\ q.id = r.id /\ q.phase = phase /\ q.number = r.number /\ q.entry = r.entry
  BY <1>1 DEF Requests, Phases
<1>7. (wire' = wire \ {r} /\ r.kind # "pay") \/ wire' = (wire \ {r}) \cup {q}
  BY <1>5
<1> HIDE DEF q
<1>8. Sound(q, Entries') /\ Grows(Entries, Entries')
  BY <1>1, <1>4, <1>5, <1>6 DEF Sound, Grows
<1>9. WireInv'
  BY <1>6, <1>7, <1>8, WireMoved
<1>10. PairInv'
  BY <1>4 DEF PairInv
<1>11. SumInv'
  BY <1>3, <1>4 DEF SumInv
<1>12. \A t : (Paying(t) # {} => Paying(t)' # {}) /\ Unbooked(t)' = Unbooked(t)
  BY <1>1, <1>5, <1>6, <1>7 DEF Paying, Unbooked, Pays, Books
<1>13. \A t \in Salaries : (Paid(t)' <=> Paid(t)) /\ (Linked(t)' <=> Linked(t))
  BY <1>3, <1>4 DEF Paid, Linked
<1>14. \A t \in Salaries : Once(t) => Once(t)'
  BY <1>4, <1>12, <1>13 DEF Once
<1>15. PayInv'
  BY <1>3, <1>12, <1>13, <1>14 DEF PayInv
<1> QED
  BY <1>3, <1>9, <1>10, <1>11, <1>15
\* A salary marked paid: its handler has still to book it.
LEMMA SavedPay ==
  ASSUME LedgerAssumption, db \in Dbs, PageShape, WireInv, PairInv, SumInv, PayInv, NEW r \in wire, SavePay(r)
  PROVE  db' \in Dbs /\ WireInv' /\ PairInv' /\ SumInv' /\ PayInv'
<1> DEFINE s == r.id
           q == [r EXCEPT !.phase = "paid"]
           row == [status |-> "PAID", entry |-> 0]
<1>1. r \in Requests /\ Sound(r, Entries) /\ r.kind = "pay" /\ r.phase = "read" /\ s \in Salaries
  BY DEF WireInv, SavePay, Sound
<1>2. q \in Requests /\ q.kind = "pay" /\ q.id = s /\ q.phase = "paid" /\ q.number = r.number /\ q.entry = r.entry
  BY <1>1 DEF Requests, Phases
<1>3. row \in SalaryRows /\ row.status = "PAID"
  BY DEF SalaryRows, LedgerAssumption
<1>4. /\ db' = [db EXCEPT !.salaries[s] = row] /\ wire' = (wire \ {r}) \cup {q}
      /\ hist' = [hist EXCEPT !.twice = @ \cup IF Paid(s) THEN {s} ELSE {}]
  BY DEF SavePay, Replace, Paid
<1> HIDE DEF q, row
<1>5. /\ db' \in Dbs /\ db'.entries = db.entries /\ db'.balance = db.balance /\ db'.salaries[s] = row
      /\ \A t \in Salaries \ {s} : db'.salaries[t] = db.salaries[t]
  BY <1>1, <1>3, <1>4 DEF Dbs
<1>6. /\ hist'.twice = hist.twice \cup (IF Paid(s) THEN {s} ELSE {})
      /\ hist'.crossed = hist.crossed /\ hist'.refused = hist.refused
  BY <1>4 DEF PageShape, Hists
<1>7. UNCHANGED <<Entries, Sum>>
  BY <1>5 DEF Entries, Sum, Posted
<1>8. WireInv'
  <2>1. Sound(q, Entries') /\ Grows(Entries, Entries')
    BY <1>1, <1>2, <1>7 DEF Sound, Grows
  <2> QED
    BY <1>2, <1>4, <2>1, WireMoved
<1>9. PairInv'
  BY <1>7 DEF PairInv
<1>10. SumInv'
  <2>1. Owing' = Owing
    BY <1>1, <1>2, <1>4 DEF Owing, Owes
  <2> QED
    BY <1>5, <1>6, <1>7, <2>1 DEF SumInv
<1>11. ASSUME NEW t \in Salaries, t # s
       PROVE  /\ Paid(t)' => Linked(t)' \/ t \in hist'.refused \/ Paying(t)' # {}
              /\ t \notin hist'.twice => Once(t)'
  <2>1. Paying(t)' = Paying(t) /\ Unbooked(t)' = Unbooked(t)
    BY <1>1, <1>2, <1>4, <1>11 DEF Paying, Unbooked
  <2>2. (Paid(t)' <=> Paid(t)) /\ (Linked(t)' <=> Linked(t))
    BY <1>5, <1>7, <1>11 DEF Paid, Linked
  <2>3. Once(t) => Once(t)'
    BY <1>7, <2>1, <2>2 DEF Once
  <2> QED
    BY <1>6, <2>1, <2>2, <2>3 DEF PayInv
<1>12. /\ Paid(s)' /\ Paying(s)' # {}
       /\ s \notin hist'.twice => Once(s)'
  <2>1. Paid(s)'
    BY <1>3, <1>5 DEF Paid
  <2>2. Paying(s)' # {}
    BY <1>2, <1>4 DEF Paying, Pays
  <2>3. ASSUME s \notin hist'.twice PROVE Once(s)'
    <3>1. ~Paid(s) /\ Once(s)
      BY <1>1, <1>6, <2>3 DEF PayInv
    <3>2. Unbooked(s) = {} /\ \A n \in Numbers : Entries[n].pays # s
      BY <3>1 DEF Once
    <3>3. Unbooked(s)' = {q}
      BY <1>1, <1>2, <1>4, <3>2 DEF Unbooked, Books
    <3> QED
      BY <1>7, <2>1, <3>2, <3>3 DEF Once
  <2> QED
    BY <2>1, <2>2, <2>3
<1>13. PayInv'
  BY <1>11, <1>12 DEF PayInv
<1> QED
  BY <1>5, <1>8, <1>9, <1>10, <1>13

\* A salary linked to the entry its handler inserted.
LEMMA LinkedEntry ==
  ASSUME LedgerAssumption, db \in Dbs, PageShape, WireInv, PairInv, SumInv, PayInv, NEW r \in wire, LinkEntry(r)
  PROVE  db' \in Dbs /\ WireInv' /\ PairInv' /\ SumInv' /\ PayInv'
<1> DEFINE s == r.id
           q == [r EXCEPT !.phase = "ok"]
<1>1. r \in Requests /\ Sound(r, Entries) /\ r.phase = "linking"
  BY DEF WireInv, LinkEntry
<1>2. r.kind = "pay" /\ s \in Salaries /\ r.number \in Numbers /\ Entries[r.number].pays = s
  BY <1>1 DEF Sound
<1>3. q \in Requests /\ q.kind = "pay" /\ q.id = s /\ q.phase = "ok" /\ q.number = r.number /\ q.entry = r.entry
  BY <1>1, <1>2 DEF Requests, Phases
<1>4. /\ db' = [db EXCEPT !.salaries[s].entry = r.number] /\ UNCHANGED hist
      /\ wire' = wire \ {r} \/ wire' = (wire \ {r}) \cup {q}
  BY DEF LinkEntry, Answer
<1> HIDE DEF q
<1>5. r.number \in 0..MaxEntries
  BY <1>1 DEF Requests
<1>6. /\ db' \in Dbs /\ db'.entries = db.entries /\ db'.balance = db.balance /\ db'.salaries[s].entry = r.number
      /\ \A t \in Salaries : db'.salaries[t].status = db.salaries[t].status
      /\ \A t \in Salaries \ {s} : db'.salaries[t] = db.salaries[t]
  BY <1>2, <1>4, <1>5 DEF Dbs, SalaryRows
<1>7. UNCHANGED <<Entries, Sum>>
  BY <1>6 DEF Entries, Sum, Posted
<1>8. WireInv'
  <2>1. Sound(q, Entries') /\ Grows(Entries, Entries')
    BY <1>2, <1>3, <1>7 DEF Sound, Grows
  <2> QED
    BY <1>3, <1>4, <2>1, WireMoved
<1>9. PairInv'
  BY <1>7 DEF PairInv
<1>10. SumInv'
  <2>1. Owing' = Owing
    BY <1>1, <1>3, <1>4 DEF Owing, Owes
  <2> QED
    BY <1>4, <1>6, <1>7, <2>1 DEF SumInv
<1>11. \A t \in Salaries : (Paid(t)' <=> Paid(t)) /\ Unbooked(t)' = Unbooked(t)
  BY <1>1, <1>3, <1>4, <1>6 DEF Paid, Unbooked, Books
<1>12. \A t \in Salaries : Once(t) => Once(t)'
  BY <1>7, <1>11 DEF Once
<1>13. ASSUME NEW t \in Salaries
       PROVE  Paid(t)' => Linked(t)' \/ t \in hist'.refused \/ Paying(t)' # {}
  <2>1. CASE t = s
    BY <1>2, <1>6, <1>7, <2>1 DEF Linked
  <2>2. CASE t # s
    <3>1. Paying(t)' = Paying(t)
      BY <1>2, <1>3, <1>4, <2>2 DEF Paying
    <3>2. Linked(t)' <=> Linked(t)
      BY <1>6, <1>7, <2>2 DEF Linked
    <3> QED
      BY <1>4, <1>11, <3>1, <3>2 DEF PayInv
  <2> QED
    BY <2>1, <2>2
<1>14. PayInv'
  BY <1>4, <1>12, <1>13 DEF PayInv
<1> QED
  BY <1>6, <1>8, <1>9, <1>10, <1>14

\* An entry refused: nothing is written, and a salary's refusal is on record.
LEMMA RefusedEntry ==
  ASSUME LedgerAssumption, db \in Dbs, PageShape, WireInv, PairInv, SumInv, PayInv,
         NEW r \in wire, InsertEntry(r), Clashes(r)
  PROVE  db' \in Dbs /\ WireInv' /\ PairInv' /\ SumInv' /\ PayInv'
<1> DEFINE q == [r EXCEPT !.phase = "error"]
<1>1. r \in Requests /\ Sound(r, Entries) /\ r.phase = "numbered"
  BY DEF WireInv, InsertEntry
<1>2. q \in Requests /\ q.kind = r.kind /\ q.id = r.id /\ q.phase = "error" /\ q.number = r.number /\ q.entry = r.entry
  BY <1>1 DEF Requests, Phases
<1>3. /\ wire' = wire \ {r} \/ wire' = (wire \ {r}) \cup {q}
      /\ UNCHANGED db
      /\ hist' = IF r.kind = "pay" THEN [hist EXCEPT !.refused = @ \cup {r.id}] ELSE hist
  BY DEF InsertEntry, Answer
<1> HIDE DEF q
<1>4. /\ hist'.crossed = hist.crossed /\ hist'.twice = hist.twice
      /\ hist'.refused = hist.refused \cup (IF r.kind = "pay" THEN {r.id} ELSE {})
  BY <1>3 DEF PageShape, Hists
<1>5. UNCHANGED <<Entries, Sum>>
  BY <1>3 DEF Entries, Sum, Posted
<1>6. WireInv'
  <2>1. Sound(q, Entries') /\ Grows(Entries, Entries')
    BY <1>1, <1>2, <1>5 DEF Sound, Grows
  <2> QED
    BY <1>2, <1>3, <2>1, WireMoved
<1>7. PairInv'
  BY <1>5 DEF PairInv
<1>8. SumInv'
  <2>1. Owing' = Owing
    BY <1>1, <1>2, <1>3 DEF Owing, Owes
  <2> QED
    BY <1>3, <1>4, <1>5, <2>1 DEF SumInv
<1>9. \A t \in Salaries : /\ Paid(t)' <=> Paid(t)
                          /\ Linked(t)' <=> Linked(t)
                          /\ Unbooked(t)' \subseteq Unbooked(t)
  BY <1>2, <1>3, <1>5 DEF Paid, Linked, Unbooked, Books
<1>10. \A t \in Salaries : Once(t) => Once(t)'
  <2> SUFFICES ASSUME NEW t \in Salaries, Once(t) PROVE Once(t)'
    OBVIOUS
  <2> QED
    BY <1>5, <1>9 DEF Once
<1>11. ASSUME NEW t \in Salaries
       PROVE  Paid(t)' => Linked(t)' \/ t \in hist'.refused \/ Paying(t)' # {}
  <2>1. CASE r.kind = "pay" /\ r.id = t
    BY <1>4, <2>1
  <2>2. CASE ~(r.kind = "pay" /\ r.id = t)
    <3>1. Paying(t)' = Paying(t)
      BY <1>2, <1>3, <2>2 DEF Paying, Pays
    <3> QED
      BY <1>4, <1>9, <3>1 DEF PayInv
  <2> QED
    BY <2>1, <2>2
<1>12. PayInv'
  BY <1>4, <1>10, <1>11 DEF PayInv
<1> QED
  BY <1>3, <1>6, <1>7, <1>8, <1>12
\* An entry inserted under a number that was free, of a payment that had none.
LEMMA InsertedEntry ==
  ASSUME LedgerAssumption, db \in Dbs, PageShape, WireInv, PairInv, SumInv, PayInv,
         NEW r \in wire, InsertEntry(r), ~Clashes(r)
  PROVE  db' \in Dbs /\ WireInv' /\ PairInv' /\ SumInv' /\ PayInv'
<1> DEFINE n == r.number
           e == Booking(r)
           draft == e.status = "DRAFT"
           phase == IF draft THEN "ok" ELSE IF r.kind = "reverse" THEN "reversing" ELSE "booked"
           q == [r EXCEPT !.phase = phase]
<1>1. /\ r \in Requests /\ Sound(r, Entries) /\ r.phase = "numbered" /\ n \in Numbers
      /\ r.kind \in {"entry", "sale", "reverse", "pay"}
  BY DEF WireInv, InsertEntry, Sound
<1>2. Entries[n].status = "none" /\ (r.kind = "reverse" => \A m \in Numbers : Entries[m].reverses # r.id)
  BY <1>1 DEF Clashes
<1>3. Entries[n].reverses = 0 /\ Entries[n].pays = None
  BY <1>1, <1>2 DEF PairInv
<1>4. /\ e \in EntryRows /\ e.status \in {"DRAFT", "POSTED"}
      /\ e.reverses = (IF r.kind = "reverse" THEN r.id ELSE 0)
      /\ e.pays = (IF r.kind = "pay" THEN r.id ELSE None)
      /\ r.kind = "reverse" => r.id \in Numbers /\ e.status = "POSTED"
      /\ r.kind = "pay" => r.id \in Salaries /\ e.status = "POSTED"
  <2>1. CASE r.kind = "pay"
    <3>1. e = [status |-> "POSTED", reverses |-> 0, pays |-> r.id] /\ r.id \in Salaries
      BY <1>1, <2>1 DEF Booking, Sound
    <3> HIDE DEF e
    <3> QED
      BY <2>1, <3>1 DEF EntryRows, LedgerAssumption
  <2>2. CASE r.kind = "reverse"
    <3>1. e = [status |-> "POSTED", reverses |-> r.id, pays |-> None] /\ r.id \in Numbers
      BY <1>1, <2>2 DEF Booking, Sound
    <3>2. r.id \in 0..MaxEntries
      BY <3>1 DEF Numbers
    <3> HIDE DEF e
    <3> QED
      BY <2>2, <3>1, <3>2 DEF EntryRows
  <2>3. CASE r.kind \in {"entry", "sale"}
    <3>1. e = r.entry /\ r.entry.status \in {"DRAFT", "POSTED"} /\ r.entry.reverses = 0 /\ r.entry.pays = None
      BY <1>1, <2>3 DEF Booking, Sound
    <3> HIDE DEF e
    <3> QED
      BY <1>1, <2>3, <3>1 DEF Requests, EntryRows
  <2> QED
    BY <1>1, <2>1, <2>2, <2>3
<1>5. /\ db' = [db EXCEPT !.entries[n] = e] /\ UNCHANGED hist
      /\ wire' = (wire \ {r}) \cup {q} \/ (draft /\ wire' = wire \ {r})
  BY <1>2 DEF InsertEntry, Answer, Replace
<1>6. q \in Requests /\ q.kind = r.kind /\ q.id = r.id /\ q.phase = phase /\ q.number = n /\ q.entry = r.entry
  BY <1>1 DEF Requests, Phases
<1> HIDE DEF e, q
<1>7. /\ db' \in Dbs /\ Entries'[n] = e /\ \A m \in Numbers \ {n} : Entries'[m] = Entries[m]
      /\ db'.salaries = db.salaries /\ db'.balance = db.balance
  BY <1>1, <1>4, <1>5, EntryWritten
<1>8. Grows(Entries, Entries')
  BY <1>2, <1>7 DEF Grows
<1>9. WireInv'
  <2>1. Sound(q, Entries')
    BY <1>1, <1>4, <1>6, <1>7 DEF Sound
  <2> QED
    BY <1>5, <1>6, <1>8, <2>1, WireMoved
<1>10. PairInv'
  <2>1. \A m \in Numbers : Entries'[m].status = "none" => Entries'[m].reverses = 0 /\ Entries'[m].pays = None
    BY <1>4, <1>7 DEF PairInv
  <2>2. ASSUME NEW k \in Numbers, NEW m \in Numbers, Entries'[k].reverses = Entries'[m].reverses, Entries'[k].reverses # 0
        PROVE  k = m
    BY <1>2, <1>4, <1>7, <2>2 DEF PairInv
  <2>3. ASSUME NEW k \in Numbers, Entries'[k].status = "REVERSED"
        PROVE  \E m \in Numbers : Entries'[m].reverses = k
    <3>1. k # n
      BY <1>4, <1>7, <2>3
    <3>2. PICK m \in Numbers : Entries[m].reverses = k
      BY <1>7, <2>3, <3>1 DEF PairInv
    <3>3. m # n
      BY <1>3, <3>2 DEF Numbers
    <3> QED
      BY <1>7, <3>2, <3>3
  <2> QED
    BY <2>1, <2>2, <2>3 DEF PairInv
<1>11. SumInv'
  <2>1. CASE draft
    <3>1. UNCHANGED Posted
      BY <1>1, <1>2, <1>7, <2>1 DEF Posted
    <3>2. n \notin Posted
      BY <1>2 DEF Posted
    <3>3. UNCHANGED Sum
      BY <1>7, <3>1, <3>2 DEF Sum, Posted
    <3>4. Owing' = Owing
      BY <1>1, <1>5, <1>6, <2>1 DEF Owing, Owes
    <3> QED
      BY <1>5, <1>7, <3>3, <3>4 DEF SumInv
  <2>2. CASE ~draft
    BY <1>5, <1>6, <2>2 DEF SumInv, Owing, Owes
  <2> QED
    BY <2>1, <2>2
<1>12. ASSUME NEW t \in Salaries
       PROVE  /\ Paid(t)' <=> Paid(t)
              /\ Linked(t) => Linked(t)'
              /\ Paying(t) # {} => Paying(t)' # {}
  <2>1. Paid(t)' <=> Paid(t)
    BY <1>7 DEF Paid
  <2>2. Linked(t) => Linked(t)'
    <3> SUFFICES ASSUME Linked(t) PROVE Linked(t)'
      OBVIOUS
    <3>1. db.salaries[t].entry # n
      BY <1>3 DEF Linked, LedgerAssumption
    <3> QED
      BY <1>7, <3>1 DEF Linked
  <2>3. Paying(t) # {} => Paying(t)' # {}
    BY <1>4, <1>5, <1>6 DEF Paying, Pays
  <2> QED
    BY <2>1, <2>2, <2>3
<1>13. ASSUME NEW t \in Salaries, Once(t)
       PROVE  Once(t)'
  <2>1. CASE r.kind = "pay" /\ r.id = t
    <3>1. r \in Unbooked(t)
      BY <1>1, <2>1 DEF Unbooked, Books
    <3>2. Paid(t) /\ \A m \in Numbers : Entries[m].pays # t
      BY <1>13, <3>1 DEF Once
    <3>3. Unbooked(t)' = {}
      BY <1>4, <1>5, <1>6, <1>13, <2>1, <3>1 DEF Once, Unbooked, Books
    <3> QED
      BY <1>7, <1>12, <3>2, <3>3 DEF Once
  <2>2. CASE ~(r.kind = "pay" /\ r.id = t)
    <3>1. Unbooked(t)' = Unbooked(t)
      BY <1>5, <1>6, <2>2 DEF Unbooked, Books
    <3>2. \A m \in Numbers : Entries'[m].pays = t => Entries[m].pays = t
      BY <1>4, <1>7, <2>2 DEF LedgerAssumption
    <3>3. \A k, m \in Numbers : Entries'[k].pays = t /\ Entries'[m].pays = t => k = m
      BY <1>13, <3>2 DEF Once
    <3>4. Unbooked(t)' # {} => Paid(t)' /\ \A m \in Numbers : Entries'[m].pays # t
      BY <1>12, <1>13, <3>1, <3>2 DEF Once
    <3>5. \A m \in Numbers : Entries'[m].pays = t => Paid(t)'
      BY <1>12, <1>13, <3>2 DEF Once
    <3>6. \A x, y \in Unbooked(t)' : x = y
      BY <1>13, <3>1 DEF Once
    <3> QED
      BY <3>3, <3>4, <3>5, <3>6 DEF Once
  <2> QED
    BY <2>1, <2>2
<1>14. PayInv'
  BY <1>5, <1>12, <1>13 DEF PayInv
<1> QED
  BY <1>7, <1>9, <1>10, <1>11, <1>14
-----------------------------------------------------------------------------
\* ---- the page --------------------------------------------------------------------

\* Every step keeps the lists, the modal and the history what they are.
LEMMA PageKept ==
  ASSUME LedgerAssumption, PageShape, WireInv, [Next]_deskVars
  PROVE  PageShape'
<1>1. /\ shown = [k \in {"entries", "salaries"} |-> shown[k]]
      /\ DOMAIN shown["entries"] \subseteq Numbers /\ DOMAIN shown["salaries"] \subseteq Salaries
      /\ due \subseteq {"entries", "salaries"} /\ dialog \in Dialogs /\ form = None /\ hist \in Hists
  BY DEF PageShape, Listed
<1>2. \A r \in wire : r \in Requests /\ Sound(r, Entries)
  BY DEF WireInv
<1> USE DEF PageShape, Listed, Hists
<1>3. CASE LoadEntries
  <2> DEFINE list == [n \in {m \in Numbers : Entries[m].status # "none"} |-> Entries[n].status]
  <2>1. DOMAIN list \subseteq Numbers
    OBVIOUS
  <2>2. shown' = [shown EXCEPT !["entries"] = list] /\ due' = due \ {"entries"} /\ UNCHANGED <<dialog, form, hist>>
    BY <1>3 DEF LoadEntries, Arrive
  <2> HIDE DEF list
  <2> QED
    BY <1>1, <2>1, <2>2
<1>4. CASE LoadSalaries
  <2> DEFINE list == [s \in {x \in Salaries : db.salaries[x].status # "none"} |-> db.salaries[s].status]
  <2>1. DOMAIN list \subseteq Salaries
    OBVIOUS
  <2>2. shown' = [shown EXCEPT !["salaries"] = list] /\ due' = due \ {"salaries"} /\ UNCHANGED <<dialog, form, hist>>
    BY <1>4 DEF LoadSalaries, Arrive
  <2> HIDE DEF list
  <2> QED
    BY <1>1, <2>1, <2>2
<1>5. CASE Browse
  BY <1>1, <1>5 DEF Browse, Ask
<1>6. CASE FillEntry
  <2>1. dialog \in [kind: {"entry", "salary"}, no: 1..MaxOpens, filled: BOOLEAN, now: BOOLEAN]
    BY <1>1, <1>6 DEF FillEntry, Dialogs
  <2>2. \E now \in BOOLEAN : dialog' = [dialog EXCEPT !.filled = TRUE, !.now = now]
    BY <1>6 DEF FillEntry
  <2>3. dialog' \in Dialogs
    BY <2>1, <2>2 DEF Dialogs
  <2> QED
    BY <1>1, <1>6, <2>3 DEF FillEntry
<1>7. CASE FillSalary
  <2>1. dialog \in [kind: {"entry", "salary"}, no: 1..MaxOpens, filled: BOOLEAN, now: BOOLEAN]
    BY <1>1, <1>7 DEF FillSalary, Dialogs
  <2>2. dialog' \in Dialogs
    BY <1>7, <2>1 DEF FillSalary, Dialogs
  <2> QED
    BY <1>1, <1>7, <2>2 DEF FillSalary
<1>8. CASE CloseModal
  BY <1>1, <1>8 DEF CloseModal, Dialogs
<1>9. ASSUME NEW kind \in {"entry", "salary"}, OpenModal(kind) PROVE PageShape'
  <2>1. hist.opens < MaxOpens /\ hist' = [hist EXCEPT !.opens = @ + 1] /\ UNCHANGED <<shown, due, form>>
    BY <1>9 DEF OpenModal, Open
  <2>2. hist.opens + 1 \in 1..MaxOpens /\ hist' \in Hists
    BY <1>1, <2>1 DEF LedgerAssumption
  <2>3. dialog' = [kind |-> kind, no |-> hist.opens + 1, filled |-> FALSE, now |-> FALSE]
    BY <1>9 DEF OpenModal, Open
  <2>4. dialog' \in Dialogs
    BY <2>2, <2>3 DEF Dialogs
  <2> QED
    BY <1>1, <2>1, <2>2, <2>4
<1>10. ASSUME NEW q, Send(q), UNCHANGED <<shown, due, dialog, form>> PROVE PageShape'
  <2>1. hist' \in Hists
    BY <1>1, <1>10 DEF Send, LedgerAssumption
  <2> QED
    BY <1>1, <1>10, <2>1
<1>11. CASE UNCHANGED <<shown, due, dialog, form, hist>>
  BY <1>1, <1>11
<1>12. ASSUME NEW r \in wire, SavePay(r) PROVE PageShape'
  <2>1. r.id \in Salaries
    BY <1>2, <1>12 DEF SavePay, Sound
  <2> QED
    BY <1>1, <1>12, <2>1 DEF SavePay
<1>13. ASSUME NEW r \in wire, InsertEntry(r) PROVE PageShape'
  <2>1. r.kind = "pay" => r.id \in Salaries
    BY <1>2 DEF Sound
  <2>2. hist' = hist \/ (r.kind = "pay" /\ hist' = [hist EXCEPT !.refused = @ \cup {r.id}])
    BY <1>13 DEF InsertEntry
  <2>3. UNCHANGED <<shown, due, dialog, form>>
    BY <1>13 DEF InsertEntry
  <2> QED
    BY <1>1, <2>1, <2>2, <2>3
<1>14. ASSUME NEW r \in wire, SaveBalance(r) PROVE PageShape'
  BY <1>1, <1>14 DEF SaveBalance
<1>15. ASSUME NEW r \in wire, Succeed(r) PROVE PageShape'
  BY <1>1, <1>15 DEF Succeed, Invalidate, Dialogs
<1>16. \/ LoadEntries \/ LoadSalaries \/ Browse \/ FillEntry \/ FillSalary \/ CloseModal
       \/ \E kind \in {"entry", "salary"} : OpenModal(kind)
       \/ (\E q : Send(q)) /\ UNCHANGED <<shown, due, dialog, form>>
       \/ UNCHANGED <<shown, due, dialog, form, hist>>
       \/ \E r \in wire : SavePay(r) \/ InsertEntry(r) \/ SaveBalance(r) \/ Succeed(r)
  <2>1. CASE SubmitEntry \/ SubmitSalary \/ SellTicket
    BY <2>1 DEF SubmitEntry, SubmitSalary, SellTicket
  <2>2. CASE \/ \E n \in DOMAIN shown["entries"] : PostEntry(n) \/ ReverseEntry(n)
             \/ \E s \in DOMAIN shown["salaries"] : MarkPaid(s)
    BY <2>2 DEF PostEntry, ReverseEntry, MarkPaid
  <2>3. CASE GiveUpAnywhere
    BY <2>3 DEF GiveUpAnywhere
  <2>4. CASE \E r \in wire : ServeSalary(r) \/ CheckPost(r) \/ CheckReverse(r) \/ CheckPay(r) \/ Fail(r)
    BY <2>4 DEF ServeSalary, CheckPost, CheckReverse, CheckPay, CheckStatus, Fail
  <2>5. CASE \E r \in wire : SavePost(r) \/ GenerateEntryNo(r) \/ MarkReversed(r) \/ SumLines(r) \/ LinkEntry(r)
    BY <2>5 DEF SavePost, GenerateEntryNo, MarkReversed, SumLines, LinkEntry
  <2>6. CASE UNCHANGED deskVars
    BY <2>6 DEF deskVars
  <2> QED
    BY <2>1, <2>2, <2>3, <2>4, <2>5, <2>6 DEF Next
<1> QED
  BY <1>3, <1>4, <1>5, <1>6, <1>7, <1>8, <1>9, <1>10, <1>11, <1>12, <1>13, <1>14, <1>15, <1>16
-----------------------------------------------------------------------------
\* One entry, a draft or posted and summed, and a salary that is not paid.
LEMMA InitIInv == ASSUME LedgerAssumption, Init PROVE IInv
<1>1. PICK s \in Salaries, status \in {"DRAFT", "POSTED"} :
        db = [entries |-> [n \in Numbers |-> IF n = 1 THEN [NoEntry EXCEPT !.status = status] ELSE NoEntry],
              salaries |-> [x \in Salaries |-> IF x = s THEN [NoSalary EXCEPT !.status = "DRAFT"] ELSE NoSalary],
              balance |-> IF status = "POSTED" THEN 1 ELSE 0]
  BY DEF Init
<1>2. /\ \A n \in Numbers : Entries[n] = IF n = 1 THEN [NoEntry EXCEPT !.status = status] ELSE NoEntry
      /\ \A x \in Salaries : db.salaries[x] = IF x = s THEN [NoSalary EXCEPT !.status = "DRAFT"] ELSE NoSalary
      /\ db.balance = IF status = "POSTED" THEN 1 ELSE 0
  BY <1>1 DEF Entries
<1>3. /\ shown = [k \in {"entries", "salaries"} |-> <<>>] /\ due = {"entries", "salaries"}
      /\ dialog = None /\ form = None /\ wire = {}
      /\ hist = [opens |-> 0, sends |-> 0, crossed |-> FALSE, twice |-> {}, refused |-> {}]
  BY DEF Init
<1>4. 1 \in Numbers
  BY DEF Numbers, LedgerAssumption
<1>5. /\ \A n \in Numbers : Entries[n].reverses = 0 /\ Entries[n].pays = None
      /\ \A n \in Numbers : Entries[n].status = IF n = 1 THEN status ELSE "none"
  BY <1>2 DEF NoEntry
<1>6. db \in Dbs
  <2>1. NoEntry \in EntryRows /\ [NoEntry EXCEPT !.status = status] \in EntryRows
    BY DEF NoEntry, EntryRows, LedgerAssumption
  <2>2. NoSalary \in SalaryRows /\ [NoSalary EXCEPT !.status = "DRAFT"] \in SalaryRows
    BY DEF NoSalary, SalaryRows, LedgerAssumption
  <2>3. 0 \in Sums /\ 1 \in Sums
    BY DEF Sums, LedgerAssumption
  <2> QED
    BY <1>1, <2>1, <2>2, <2>3 DEF Dbs
<1>7. PageShape
  BY <1>3 DEF PageShape, Listed, Dialogs, Hists, LedgerAssumption
<1>8. WireInv
  BY <1>3 DEF WireInv
<1>9. PairInv
  BY <1>5 DEF PairInv
<1>10. SumInv
  <2> DEFINE own == {n \in Posted : Entries[n].reverses = 0}
             counter == {n \in Posted : Entries[n].reverses # 0}
  <2>1. counter = {}
    BY <1>5 DEF Posted
  <2>2. own = IF status = "POSTED" THEN {1} ELSE {}
    BY <1>4, <1>5 DEF Posted
  <2>3. Cardinality({}) = 0 /\ Cardinality({1}) = 1
    BY FS_EmptySet, FS_Singleton
  <2>5. Sum = Cardinality(own) - Cardinality(counter)
    BY DEF Sum
  <2>6. Cardinality(counter) = 0 /\ Cardinality(own) = IF status = "POSTED" THEN 1 ELSE 0
    <3> HIDE DEF own, counter
    <3>1. CASE status = "POSTED"
      BY <2>1, <2>2, <2>3, <3>1
    <3>2. CASE status # "POSTED"
      BY <2>1, <2>2, <2>3, <3>2
    <3> QED
      BY <3>1, <3>2
  <2> HIDE DEF own, counter
  <2>4. Sum = db.balance
    BY <1>2, <2>5, <2>6
  <2> QED
    BY <2>4 DEF SumInv
<1>11. PayInv
  <2>1. \A x \in Salaries : ~Paid(x)
    BY <1>2 DEF Paid, NoSalary
  <2>2. \A x \in Salaries : Unbooked(x) = {} /\ \A n \in Numbers : Entries[n].pays # x
    BY <1>3, <1>5 DEF Unbooked, LedgerAssumption
  <2> QED
    BY <2>1, <2>2 DEF PayInv, Once
<1> QED
  BY <1>6, <1>7, <1>8, <1>9, <1>10, <1>11 DEF IInv

\* The invariant is inductive.
LEMMA NextIInv == ASSUME LedgerAssumption, IInv, [Next]_deskVars PROVE IInv'
<1> DEFINE Kept == db' \in Dbs /\ WireInv' /\ PairInv' /\ SumInv' /\ PayInv'
<1>1. db \in Dbs /\ PageShape /\ WireInv /\ PairInv /\ SumInv /\ PayInv
  BY DEF IInv
<1>2. ASSUME Quiet PROVE Kept
  BY <1>1, <1>2, QuietKept
<1>3. ASSUME NEW r \in wire, ServeSalary(r) PROVE Kept
  BY <1>1, <1>3, ServedSalary
<1>4. ASSUME NEW r \in wire, SavePost(r) PROVE Kept
  BY <1>1, <1>4, StatusSaved DEF SavePost
<1>5. ASSUME NEW r \in wire, MarkReversed(r) PROVE Kept
  <2>1. r.phase = "reversing" /\ r.kind = "reverse"
    BY <1>1, <1>5 DEF MarkReversed, WireInv, Sound
  <2> QED
    BY <1>1, <1>5, <2>1, StatusSaved DEF MarkReversed
<1>6. ASSUME NEW r \in wire, SavePay(r) PROVE Kept
  BY <1>1, <1>6, SavedPay
<1>7. ASSUME NEW r \in wire, InsertEntry(r) PROVE Kept
  BY <1>1, <1>7, RefusedEntry, InsertedEntry
<1>8. ASSUME NEW r \in wire, SaveBalance(r) PROVE Kept
  BY <1>1, <1>8, SavedBalance
<1>9. ASSUME NEW r \in wire, LinkEntry(r) PROVE Kept
  BY <1>1, <1>9, LinkedEntry
<1>10. ASSUME UNCHANGED deskVars PROVE Quiet
  BY <1>10 DEF deskVars, Quiet
<1>11. \/ Quiet
       \/ \E r \in wire : ServeSalary(r) \/ SavePost(r) \/ MarkReversed(r) \/ SavePay(r) \/ InsertEntry(r)
                          \/ SaveBalance(r) \/ LinkEntry(r)
  BY <1>1, <1>10, PageQuiet, ServerQuiet DEF Next
<1> HIDE DEF Kept
<1>12. Kept
  BY <1>2, <1>3, <1>4, <1>5, <1>6, <1>7, <1>8, <1>9, <1>11
<1> QED
  BY <1>1, <1>12, PageKept DEF IInv, Kept

LEMMA Invariant == ASSUME LedgerAssumption PROVE Spec => []IInv
<1>1. Init => IInv
  BY InitIInv
<1>2. IInv /\ [Next]_deskVars => IInv'
  BY NextIInv
<1> QED
  BY <1>1, <1>2, PTL DEF Spec

\* The tables, the lists, the modal and the requests are what the page and the
\* API take them for.
THEOREM LedgerTypeCorrect == ASSUME LedgerAssumption PROVE Spec => []TypeOK
<1>1. ASSUME IInv PROVE TypeOK
  <2>1. DOMAIN db = {"entries", "salaries"} \cup {"balance"}
    BY <1>1 DEF IInv, Dbs
  <2>2. Entries \in [Numbers -> EntryRows] /\ db.salaries \in [Salaries -> SalaryRows] /\ db.balance \in Sums
    BY <1>1 DEF IInv, Dbs, Entries
  <2>3. /\ DOMAIN shown = {"entries", "salaries"} /\ due \subseteq DOMAIN shown
        /\ DOMAIN shown["entries"] \subseteq Numbers /\ DOMAIN shown["salaries"] \subseteq Salaries
    BY <1>1 DEF IInv, PageShape, Listed
  <2>4. wire \subseteq Requests
    BY <1>1 DEF IInv, WireInv
  <2>5. /\ hist.opens \in 0..MaxOpens /\ hist.sends \in 0..MaxSends
        /\ hist.crossed \in BOOLEAN /\ hist.twice \subseteq Salaries /\ hist.refused \subseteq Salaries
    BY <1>1 DEF IInv, PageShape, Hists
  <2>6. dialog \in Dialogs /\ form = None
    BY <1>1 DEF IInv, PageShape
  <2> QED
    BY <2>1, <2>2, <2>3, <2>4, <2>5, <2>6 DEF TypeOK, Dialogs
<1> QED
  BY <1>1, Invariant, PTL

\* However the commits of the handlers interleave, once all of them are done
\* the cached balance is the sum of the posted lines, unless the last to write
\* it had summed before another posted.
THEOREM BalanceSummed == ASSUME LedgerAssumption PROVE Spec => []BalanceIsSum
<1>1. IInv => BalanceIsSum
  BY DEF IInv, SumInv, BalanceIsSum, Busy, Owing, Owes
<1> QED
  BY <1>1, Invariant, PTL

\* An entry has one reversal at most, and one at least once it is marked
\* reversed, whoever reverses, posts and numbers at the same time.
THEOREM ReversedOnce == ASSUME LedgerAssumption PROVE Spec => []ReversalsPair
<1>1. ASSUME IInv, NEW n \in Numbers
      PROVE  /\ Cardinality({m \in Numbers : Entries[m].reverses = n}) <= 1
             /\ Entries[n].status = "REVERSED" => {m \in Numbers : Entries[m].reverses = n} # {}
  <2> DEFINE by == {m \in Numbers : Entries[m].reverses = n}
  <2>1. PairInv /\ n # 0
    BY <1>1 DEF IInv, Numbers
  <2>2. \A k, m \in by : k = m
    BY <2>1 DEF PairInv
  <2>3. Entries[n].status = "REVERSED" => by # {}
    BY <2>1 DEF PairInv
  <2> HIDE DEF by
  <2>4. by = {} \/ \E k : by = {k}
    BY <2>2
  <2>5. Cardinality(by) \in {0, 1}
    <3>1. CASE by = {}
      BY <3>1, FS_EmptySet
    <3>2. ASSUME NEW k, by = {k} PROVE Cardinality(by) = 1
      BY <3>2, FS_Singleton
    <3> QED
      BY <2>4, <3>1, <3>2
  <2> QED
    BY <2>3, <2>5 DEF by
<1>2. IInv => ReversalsPair
  BY <1>1 DEF ReversalsPair
<1> QED
  BY <1>2, Invariant, PTL

\* A paid salary whose handlers are done has its own entry, or its entry was
\* refused; and it has two only by a handler that marked it when it was paid.
THEOREM SalaryBooked == ASSUME LedgerAssumption PROVE Spec => []SalariesAreBooked
<1>1. ASSUME IInv, NEW s \in Salaries
      PROVE  /\ db.salaries[s].status = "PAID" /\ (\A r \in Busy : r.kind = "pay" => r.id # s) =>
                 \/ db.salaries[s].entry # 0 /\ Entries[db.salaries[s].entry].pays = s
                 \/ s \in hist.refused
             /\ Cardinality(Payments(s)) > 1 => s \in hist.twice
  <2>1. PayInv
    BY <1>1 DEF IInv
  <2>2. ASSUME Paid(s), \A r \in Busy : r.kind = "pay" => r.id # s
        PROVE  Linked(s) \/ s \in hist.refused
    <3>1. Paying(s) = {}
      BY <2>2 DEF Paying, Pays, Busy
    <3> QED
      BY <2>1, <2>2, <3>1 DEF PayInv
  <2>3. Linked(s) => db.salaries[s].entry # 0 /\ Entries[db.salaries[s].entry].pays = s
    BY DEF Linked, Numbers
  <2>4. ASSUME s \notin hist.twice PROVE ~(Cardinality(Payments(s)) > 1)
    <3>1. \A k, m \in Payments(s) : k = m
      BY <2>1, <2>4 DEF PayInv, Once, Payments, Posted
    <3>2. Payments(s) = {} \/ \E k : Payments(s) = {k}
      BY <3>1
    <3>3. Cardinality(Payments(s)) \in {0, 1}
      BY <3>2, FS_EmptySet, FS_Singleton
    <3> QED
      BY <3>3
  <2> QED
    BY <2>2, <2>3, <2>4 DEF Paid
<1>2. IInv => SalariesAreBooked
  BY <1>1 DEF SalariesAreBooked
<1> QED
  BY <1>2, Invariant, PTL
=============================================================================

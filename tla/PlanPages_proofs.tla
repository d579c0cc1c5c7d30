-------------------------- MODULE PlanPages_proofs --------------------------
(***************************************************************************)
(* Theorems about the pages of the office, of the instances Roster, Routes, *)
(* RolesPage and Stops: for any groups of vehicles, places, roles and      *)
(* stops, and any number of requests.                                      *)
(***************************************************************************)
EXTENDS PlanPages, Integers, Sequences, WellFoundedInduction, TLAPS

\* ---- the duty roster ----------------------------------------------------------------

\* One request holds of the chart what the other does.
RosterAlike(q, p) ==
    /\ q.kind = p.kind /\ q.phase = p.phase /\ q.no = p.no /\ q.group = p.group /\ q.read = p.read
    /\ q.published = p.published /\ q.solved = p.solved

\* A request that holds nothing, about a duty that is there.
RosterEmpty(q) ==
    /\ q.phase \in {"sent", "ok", "error"}
    /\ q.kind \in {"assign", "lock", "substitute"} => q.no \in DOMAIN db.duties

\* What a request knows is of the duties, and of whether they are published.
LEMMA RosterSameChart ==
  ASSUME db'.duties = db.duties, db'.published = db.published, NEW q, NEW p, RosterAlike(q, p), Roster!Knows(p)
  PROVE  Roster!Knows(q)'
<1>1. Roster!Taken(p.group, p.no)' <=> Roster!Taken(p.group, p.no)
  BY DEF Roster!Taken, Roster!Held
<1>2. Roster!Apart(db.duties)' <=> Roster!Apart(db.duties)
  BY DEF Roster!Apart
<1>3. Roster!Held(db'.duties, p.group) = Roster!Held(db.duties, p.group) /\ Roster!Held(db'.duties,
          None) = Roster!Held(db.duties, None)
  BY DEF Roster!Held
<1>4. Roster!Editable' = Roster!Editable
  BY DEF Roster!Editable
<1>5. ASSUME NEW held, NEW new PROVE new \in Roster!Repairs(held)' <=> new \in Roster!Repairs(held)
  <2>1. [no \in Roster!Numbers |-> IF no \in held THEN db'.duties[no].group ELSE None]
            = [no \in Roster!Numbers |-> IF no \in held THEN db.duties[no].group ELSE None]
    OBVIOUS
  <2> QED
    BY <2>1 DEF Roster!Repairs
<1>6. p.solved \in Roster!Repairs(DOMAIN db.duties \ Roster!Held(db.duties, None))'
        <=> p.solved \in Roster!Repairs(DOMAIN db.duties \ Roster!Held(db.duties, None))
  BY <1>3, <1>5
<1> QED
  BY <1>1, <1>2, <1>3, <1>4, <1>6 DEF Roster!Knows, RosterAlike

\* A request that holds nothing, or what it has read just now.
RosterReady(q) == Roster!Sound(q) /\ (q.phase \in Roster!Holding => Roster!Knows(q))

LEMMA RosterEmptyReady ==
  ASSUME NEW q, RosterEmpty(q)
  PROVE  RosterReady(q)
BY DEF RosterEmpty, RosterReady, Roster!Sound, Roster!Holding

\* A step that leaves the chart alone.
LEMMA RosterCalm ==
  ASSUME Roster!WireInv, Roster!ReadInv, UNCHANGED db, hist'.writes = hist.writes,
         \A q \in wire' : RosterReady(q) \/ \E p \in wire : RosterAlike(q, p)
  PROVE  Roster!WireInv' /\ Roster!ReadInv'
<1>1. ASSUME NEW q \in wire' PROVE Roster!Sound(q)' /\ (q.phase \in Roster!Holding
                 /\ ~Roster!Late(q)' => Roster!Knows(q)')
  <2>1. CASE RosterReady(q)
    <3>1. Roster!Sound(q)'
      BY <2>1 DEF RosterReady, Roster!Sound
    <3>2. Roster!Knows(q) => Roster!Knows(q)'
      BY RosterSameChart DEF RosterAlike
    <3> QED
      BY <2>1, <3>1, <3>2 DEF RosterReady
  <2>2. ASSUME NEW p \in wire, RosterAlike(q, p)
        PROVE  Roster!Sound(q)' /\ (q.phase \in Roster!Holding /\ ~Roster!Late(q)' => Roster!Knows(q)')
    <3>1. Roster!Sound(p) /\ (p.phase \in Roster!Holding /\ ~Roster!Late(p) => Roster!Knows(p))
      BY DEF Roster!WireInv, Roster!ReadInv
    <3>2. Roster!Sound(q)'
      BY <3>1, <2>2 DEF Roster!Sound, RosterAlike
    <3>3. Roster!Late(q)' <=> Roster!Late(p)
      BY <2>2 DEF Roster!Late, RosterAlike
    <3>4. Roster!Knows(p) => Roster!Knows(q)'
      BY <2>2, RosterSameChart
    <3> QED
      BY <3>1, <3>2, <3>3, <3>4, <2>2 DEF RosterAlike
  <2> QED
    BY <2>1, <2>2
<1> QED
  BY <1>1 DEF Roster!WireInv, Roster!ReadInv

LEMMA RosterUnwritten ==
  ASSUME Roster!IInv, Roster!TypeOK', UNCHANGED <<db, hist.writes, hist.crossed>>,
         \A q \in wire' : RosterReady(q) \/ \E p \in wire : RosterAlike(q, p)
  PROVE  Roster!IInv'
<1>1. Roster!WireInv' /\ Roster!ReadInv'
  BY RosterCalm DEF Roster!IInv
<1>2. Roster!SlotsInv' /\ Roster!CleanInv'
  BY DEF Roster!IInv, Roster!SlotsInv, Roster!CleanInv, Roster!Apart
<1> QED
  BY <1>1, <1>2 DEF Roster!IInv

\* A step that writes the chart: what others read is late from then on.
LEMMA RosterWritten ==
  ASSUME Roster!TypeOK, Roster!WireInv, NEW r \in wire, hist'.writes = Roster!Counted(r),
             DOMAIN db.duties \subseteq DOMAIN db'.duties,
         \A q \in wire' : \/ q \in wire \ {r}
                          \/ q.phase \in {"ok", "error", "solved"} /\ q.kind = r.kind /\ q.no = r.no
  PROVE  Roster!WireInv' /\ Roster!ReadInv'
<1>1. ASSUME NEW q \in wire' PROVE Roster!Sound(q)' /\ (q.phase \in Roster!Holding => Roster!Late(q)')
  <2>1. CASE q.phase \in {"ok", "error", "solved"} /\ q.kind = r.kind /\ q.no = r.no
    <3>1. Roster!Sound(r)
      BY DEF Roster!WireInv
    <3> QED
      BY <2>1, <3>1 DEF Roster!Sound, Roster!Holding
  <2>2. CASE q \in wire \ {r}
    <3>1. Roster!Sound(q) /\ q.read \in Nat /\ hist.writes \in Nat
      BY <2>2 DEF Roster!WireInv, Roster!TypeOK, Roster!Requests
    <3>2. q.phase \in Roster!Holding => hist'.writes = hist.writes + 1
      BY <2>2 DEF Roster!Counted
    <3> QED
      BY <3>1, <3>2 DEF Roster!Sound, Roster!Late
  <2> QED
    BY <2>1, <2>2
<1> QED
  BY <1>1 DEF Roster!WireInv, Roster!ReadInv

LEMMA RosterApartUnlessHard ==
  ASSUME ~Roster!Hard(Roster!Chart)
  PROVE  Roster!Apart(db.duties)
<1>1. Roster!Apart(Roster!Chart)
  BY DEF Roster!Hard
<1> QED
  BY <1>1 DEF Roster!Apart, Roster!Chart, Roster!Cell


\* ---- types ------------------------------------------------------------------------

\* A request as it is sent is one.
LEMMA RosterFresh ==
  ASSUME NEW who \in {"desk", "other"},
         NEW kind \in {"assign", "lock", "substitute", "policy", "rotate", "publish", "surge"}
  PROVE  Roster!Request(who, kind) \in Roster!Requests
BY DEF Roster!Request, Roster!Requests, Roster!Cells

LEMMA RosterPageTypes ==
  ASSUME Roster!TypeOK, Roster!SlotsInv, Roster!RosterAssumption,
         \/ Roster!OpenGrid \/ Roster!LoadChart \/ Roster!Browse \/ Roster!CloseDuty \/ Roster!OpenPolicy
                \/ Roster!ClosePolicy
         \/ \E no \in Roster!OnGrid : Roster!OpenDuty(no)
         \/ \E group \in Roster!Groups \cup {None} : Roster!ChooseGroup(group)
  PROVE  Roster!TypeOK' /\ UNCHANGED <<db, wire, hist.writes, hist.crossed>>
<1>1. CASE Roster!OpenGrid
  BY <1>1 DEF Roster!OpenGrid, Roster!TypeOK, Roster!Queries
<1>2. CASE Roster!LoadChart
  <2>1. Roster!Chart \in [DOMAIN db.duties -> Roster!Cells]
    BY DEF Roster!Chart, Roster!Cell, Roster!Cells, Roster!TypeOK, Roster!Duties
  <2> QED
    BY <1>2, <2>1 DEF Roster!LoadChart, Roster!TypeOK
<1>3. CASE Roster!Browse
  BY <1>3 DEF Roster!Browse, Roster!TypeOK, Roster!Queries
<1>4. CASE Roster!CloseDuty
  BY <1>4 DEF Roster!CloseDuty, Roster!TypeOK
<1>5. CASE Roster!OpenPolicy
  <2>1. PICK b \in BOOLEAN : b = TRUE
    OBVIOUS
  <2>2. form' = [form EXCEPT !.policy = b]
    BY <1>5, <2>1 DEF Roster!OpenPolicy
  <2>3. form' \in [at: {"periods", "grid"}, policy: BOOLEAN]
    BY <2>2 DEF Roster!TypeOK
  <2> QED
    BY <1>5, <2>3 DEF Roster!OpenPolicy, Roster!TypeOK, Roster!RosterAssumption
<1>6. CASE Roster!ClosePolicy
  <2>1. PICK b \in BOOLEAN : b = FALSE
    OBVIOUS
  <2>2. form' = [form EXCEPT !.policy = b]
    BY <1>6, <2>1 DEF Roster!ClosePolicy
  <2>3. form' \in [at: {"periods", "grid"}, policy: BOOLEAN]
    BY <2>2 DEF Roster!TypeOK
  <2> QED
    BY <1>6, <2>3 DEF Roster!ClosePolicy, Roster!TypeOK
<1>7. ASSUME NEW no \in Roster!OnGrid, Roster!OpenDuty(no) PROVE Roster!TypeOK' /\ UNCHANGED <<db, wire,
                 hist.writes, hist.crossed>>
  <2>1. no \in DOMAIN db.duties /\ shown.duties[no] \in Roster!Cells
    BY DEF Roster!OnGrid, Roster!TypeOK
  <2>2. Roster!Detail(no, shown.duties[no], shown.duties[no].group) \in
            [no: DOMAIN db.duties, choice: Roster!Groups \cup {None}, group: Roster!Groups \cup {None},
             locked: BOOLEAN, surge: BOOLEAN]
    BY <2>1 DEF Roster!Detail, Roster!Cells
  <2> QED
    BY <1>7, <2>2 DEF Roster!OpenDuty, Roster!Open, Roster!TypeOK, Roster!RosterAssumption
<1>8. ASSUME NEW group \in Roster!Groups \cup {None}, Roster!ChooseGroup(group)
       PROVE  Roster!TypeOK' /\ UNCHANGED <<db, wire, hist.writes, hist.crossed>>
  BY <1>8 DEF Roster!ChooseGroup, Roster!TypeOK
<1> QED
  BY <1>1, <1>2, <1>3, <1>4, <1>5, <1>6, <1>7, <1>8

\* A gesture that sends a request, or a colleague's.
RosterSubmits ==
    \/ Roster!SubmitLock \/ Roster!SubmitSubstitute \/ Roster!SubmitRotate \/ Roster!SubmitPublish
           \/ Roster!SubmitSurge
    \/ Roster!OtherPlans
    \/ \E answer \in BOOLEAN : Roster!SubmitAssign(answer) \/ Roster!SubmitPolicy(answer)

LEMMA RosterSent ==
  ASSUME Roster!TypeOK, Roster!SlotsInv, Roster!RosterAssumption, RosterSubmits
  PROVE  \E r \in Roster!Requests :
            /\ r.phase = "sent"
            /\ r.kind \in {"assign", "lock", "substitute"} => r.no \in DOMAIN db.duties
            /\ Roster!Send(r) /\ UNCHANGED <<db, shown, due, dialog, form>>
<1> DEFINE Goal == \E r \in Roster!Requests :
                       /\ r.phase = "sent"
                       /\ r.kind \in {"assign", "lock", "substitute"} => r.no \in DOMAIN db.duties
                       /\ Roster!Send(r) /\ UNCHANGED <<db, shown, due, dialog, form>>
<1>0. ASSUME dialog # None PROVE dialog.no \in DOMAIN db.duties /\ dialog.choice \in Roster!Groups \cup {None}
                                 /\ dialog.locked \in BOOLEAN /\ dialog.no \in Roster!Numbers
  BY <1>0 DEF Roster!TypeOK
<1>1. CASE Roster!SubmitLock
  <2>1. PICK b \in BOOLEAN : b = ~dialog.locked
    BY <1>0, <1>1 DEF Roster!SubmitLock
  <2> DEFINE r == [Roster!Request("desk", "lock") EXCEPT !.no = dialog.no, !.locked = b]
  <2>2. Roster!Send(r) /\ UNCHANGED <<db, shown, due, dialog, form>>
    BY <1>1, <2>1 DEF Roster!SubmitLock
  <2>3. r \in Roster!Requests /\ r.phase = "sent" /\ r.no \in DOMAIN db.duties
    BY <1>0, <1>1 DEF Roster!SubmitLock, Roster!Request, Roster!Requests, Roster!Cells
  <2> HIDE DEF r
  <2> QED
    BY <2>2, <2>3
<1>2. CASE Roster!SubmitSubstitute
  <2> DEFINE r == [Roster!Request("desk", "substitute") EXCEPT !.no = dialog.no]
  <2>1. Roster!Send(r) /\ UNCHANGED <<db, shown, due, dialog, form>>
    BY <1>2 DEF Roster!SubmitSubstitute
  <2>2. r \in Roster!Requests /\ r.phase = "sent" /\ r.no \in DOMAIN db.duties
    BY <1>0, <1>2 DEF Roster!SubmitSubstitute, Roster!Request, Roster!Requests, Roster!Cells
  <2> HIDE DEF r
  <2> QED
    BY <2>1, <2>2
<1>3. ASSUME NEW b \in BOOLEAN, Roster!SubmitPolicy(b) PROVE Goal
  <2> DEFINE r == [Roster!Request("desk", "policy") EXCEPT !.fits = b]
  <2>1. Roster!Send(r) /\ UNCHANGED <<db, shown, due, dialog, form>>
    BY <1>3 DEF Roster!SubmitPolicy
  <2>2. r \in Roster!Requests /\ r.phase = "sent" /\ r.kind = "policy"
    BY DEF Roster!Request, Roster!Requests, Roster!Cells
  <2> HIDE DEF r
  <2> QED
    BY <2>1, <2>2
<1>4. CASE Roster!SubmitRotate \/ Roster!SubmitPublish \/ Roster!SubmitSurge
  <2>1. PICK kind \in {"rotate", "publish", "surge"} :
            Roster!Send(Roster!Request("desk", kind)) /\ UNCHANGED <<db, shown, due, dialog, form>>
    BY <1>4 DEF Roster!SubmitRotate, Roster!SubmitPublish, Roster!SubmitSurge
  <2>2. Roster!Request("desk", kind) \in Roster!Requests
    BY RosterFresh
  <2>3. Roster!Request("desk", kind).phase = "sent" /\ Roster!Request("desk", kind).kind = kind
    BY DEF Roster!Request
  <2> QED
    BY <2>1, <2>2, <2>3
<1>5. CASE Roster!OtherPlans
  <2>1. ASSUME NEW no \in 1..Slots, NEW group \in Rotating,
               Roster!Send([Roster!Request("other", "assign") EXCEPT !.no = no, !.group = group, !.reason = TRUE])
        PROVE  Goal
    <3>1. PICK b \in BOOLEAN : b = TRUE
      OBVIOUS
    <3> DEFINE r == [Roster!Request("other", "assign") EXCEPT !.no = no, !.group = group, !.reason = b]
    <3>2. Roster!Send(r) /\ UNCHANGED <<db, shown, due, dialog, form>>
      BY <1>5, <2>1, <3>1 DEF Roster!OtherPlans
    <3>3. no \in Roster!Numbers /\ no \in DOMAIN db.duties
      BY DEF Roster!SlotsInv, Roster!TypeOK
    <3>4. r \in Roster!Requests /\ r.phase = "sent" /\ r.no = no
      BY <3>3 DEF Roster!Request, Roster!Requests, Roster!Cells, Roster!Groups
    <3> HIDE DEF r
    <3> QED
      BY <3>2, <3>3, <3>4
  <2>2. ASSUME Roster!Send(Roster!Request("other", "publish")) PROVE Goal
    <3>1. UNCHANGED <<db, shown, due, dialog, form>>
      BY <1>5 DEF Roster!OtherPlans
    <3>2. Roster!Request("other", "publish") \in Roster!Requests
      BY RosterFresh
    <3>3. Roster!Request("other", "publish").phase = "sent" /\ Roster!Request("other", "publish").kind = "publish"
      BY DEF Roster!Request
    <3> QED
      BY <2>2, <3>1, <3>2, <3>3
  <2> QED
    BY <1>5, <2>1, <2>2 DEF Roster!OtherPlans
<1>6. ASSUME NEW reason \in BOOLEAN, Roster!SubmitAssign(reason) PROVE Goal
  <2> DEFINE r == [Roster!Request("desk", "assign") EXCEPT !.no = dialog.no, !.group = dialog.choice,
          !.reason = reason]
  <2>1. Roster!Send(r) /\ UNCHANGED <<db, shown, due, dialog, form>>
    BY <1>6 DEF Roster!SubmitAssign
  <2>2. r \in Roster!Requests /\ r.phase = "sent" /\ r.no \in DOMAIN db.duties
    BY <1>0, <1>6 DEF Roster!SubmitAssign, Roster!Request, Roster!Requests, Roster!Cells
  <2> HIDE DEF r
  <2> QED
    BY <2>1, <2>2
<1> QED
  BY <1>1, <1>2, <1>3, <1>4, <1>5, <1>6 DEF RosterSubmits

\* ---- steps that write nothing --------------------------------------------------

LEMMA RosterPageSafe ==
  ASSUME Roster!IInv, Roster!RosterAssumption,
         \/ Roster!OpenGrid \/ Roster!LoadChart \/ Roster!Browse \/ Roster!CloseDuty \/ Roster!OpenPolicy
                \/ Roster!ClosePolicy
         \/ \E no \in Roster!OnGrid : Roster!OpenDuty(no)
         \/ \E group \in Roster!Groups \cup {None} : Roster!ChooseGroup(group)
  PROVE  Roster!IInv'
<1>1. Roster!TypeOK' /\ UNCHANGED <<db, wire, hist.writes, hist.crossed>>
  BY RosterPageTypes DEF Roster!IInv
<1>2. \A q \in wire' : \E p \in wire : RosterAlike(q, p)
  BY <1>1 DEF RosterAlike
<1> QED
  BY <1>1, <1>2, RosterUnwritten

LEMMA RosterSubmitSafe ==
  ASSUME Roster!IInv, Roster!RosterAssumption, RosterSubmits
  PROVE  Roster!IInv'
<1>1. PICK r \in Roster!Requests :
            /\ r.phase = "sent"
            /\ r.kind \in {"assign", "lock", "substitute"} => r.no \in DOMAIN db.duties
            /\ Roster!Send(r) /\ UNCHANGED <<db, shown, due, dialog, form>>
  BY RosterSent DEF Roster!IInv
<1>2. Roster!TypeOK' /\ UNCHANGED <<hist.writes, hist.crossed>>
  BY <1>1 DEF Roster!IInv, Roster!TypeOK, Roster!Send, Roster!RosterAssumption
<1>3. \A q \in wire' : RosterEmpty(q) \/ \E p \in wire : RosterAlike(q, p)
  BY <1>1 DEF Roster!Send, RosterEmpty, RosterAlike
<1> QED
  BY <1>1, <1>2, <1>3, RosterEmptyReady, RosterUnwritten

LEMMA RosterGiveUpSafe ==
  ASSUME Roster!IInv, Roster!GiveUp
  PROVE  Roster!IInv'
<1>1. PICK r \in wire : /\ \/ wire' = wire \ {r}
                           \/ Roster!Replace(r, [r EXCEPT !.who = "gone"])
                        /\ UNCHANGED <<db, shown, due, dialog, form, hist>>
  BY DEF Roster!GiveUp
<1>2. r \in Roster!Requests /\ [r EXCEPT !.who = "gone"] \in Roster!Requests
  BY DEF Roster!IInv, Roster!TypeOK, Roster!Requests
<1>3. Roster!TypeOK'
  BY <1>1, <1>2 DEF Roster!IInv, Roster!TypeOK, Roster!Replace
<1>4. RosterAlike([r EXCEPT !.who = "gone"], r)
  BY <1>2 DEF RosterAlike, Roster!Requests
<1>5. \A q \in wire' : \E p \in wire : RosterAlike(q, p)
  BY <1>1, <1>4 DEF Roster!Replace, RosterAlike
<1> QED
  BY <1>1, <1>3, <1>5, RosterUnwritten

\* A request that is answered holds nothing any more.
LEMMA RosterAnswerEmpty ==
  ASSUME Roster!IInv, NEW r \in wire, NEW phase \in {"ok", "error"}, Roster!Answer(r, phase)
  PROVE  /\ wire' \subseteq Roster!Requests
         /\ \A q \in wire' : RosterEmpty(q) \/ \E p \in wire : RosterAlike(q, p)
<1>1. r \in Roster!Requests /\ [r EXCEPT !.phase = phase] \in Roster!Requests
  BY DEF Roster!IInv, Roster!TypeOK, Roster!Requests
<1>2. RosterEmpty([r EXCEPT !.phase = phase])
  BY <1>1 DEF Roster!IInv, Roster!WireInv, Roster!Sound, RosterEmpty, Roster!Requests
<1> QED
  BY <1>1, <1>2 DEF Roster!Answer, Roster!IInv, Roster!TypeOK, RosterAlike

LEMMA RosterAnswerSafe ==
  ASSUME Roster!IInv, NEW r \in wire, NEW phase \in {"ok", "error"}, Roster!Answer(r, phase),
         UNCHANGED <<shown, due, dialog, form, hist>>, db' = db
  PROVE  Roster!IInv'
<1>1. Roster!TypeOK'
  BY RosterAnswerEmpty DEF Roster!IInv, Roster!TypeOK
<1>2. \A q \in wire' : RosterReady(q) \/ \E p \in wire : RosterAlike(q, p)
  BY RosterAnswerEmpty, RosterEmptyReady
<1> QED
  BY <1>1, <1>2, RosterUnwritten

LEMMA RosterPolicySafe ==
  ASSUME Roster!IInv, NEW r \in wire, Roster!ServePolicy(r)
  PROVE  Roster!IInv'
<1>1. /\ DOMAIN db' = DOMAIN db /\ db'.duties = db.duties /\ db'.published = db.published /\ db'.fits \in BOOLEAN
      /\ Roster!Answer(r, "ok") /\ UNCHANGED <<shown, due, dialog, form, hist>>
  BY DEF Roster!ServePolicy, Roster!IInv, Roster!TypeOK, Roster!Requests
<1>2. /\ wire' \subseteq Roster!Requests
      /\ \A q \in wire' : RosterEmpty(q) \/ \E p \in wire : RosterAlike(q, p)
  BY <1>1, RosterAnswerEmpty
<1>3. Roster!TypeOK'
  BY <1>1, <1>2 DEF Roster!IInv, Roster!TypeOK
<1>4. Roster!SlotsInv' /\ Roster!CleanInv'
  BY <1>1 DEF Roster!IInv, Roster!SlotsInv, Roster!CleanInv, Roster!Apart
<1>5. ASSUME NEW q \in wire' PROVE Roster!Sound(q)' /\ (q.phase \in Roster!Holding
                 /\ ~Roster!Late(q)' => Roster!Knows(q)')
  <2>1. CASE RosterEmpty(q)
    BY <1>1, <2>1 DEF RosterEmpty, Roster!Sound, Roster!Holding
  <2>2. ASSUME NEW p \in wire, RosterAlike(q, p)
        PROVE  Roster!Sound(q)' /\ (q.phase \in Roster!Holding /\ ~Roster!Late(q)' => Roster!Knows(q)')
    <3>1. Roster!Sound(p) /\ (p.phase \in Roster!Holding /\ ~Roster!Late(p) => Roster!Knows(p))
      BY DEF Roster!IInv, Roster!WireInv, Roster!ReadInv
    <3>2. Roster!Sound(q)' /\ (Roster!Late(q)' <=> Roster!Late(p))
      BY <1>1, <3>1, <2>2 DEF Roster!Sound, Roster!Late, RosterAlike
    <3>3. Roster!Knows(p) => Roster!Knows(q)'
      BY <1>1, <2>2, RosterSameChart
    <3> QED
      BY <3>1, <3>2, <3>3, <2>2 DEF RosterAlike
  <2> QED
    BY <1>2, <2>1, <2>2
<1> QED
  BY <1>3, <1>4, <1>5 DEF Roster!IInv, Roster!WireInv, Roster!ReadInv

\* The page hears of an answer: the dialog turns to the duty in it.
LEMMA RosterHeardSafe ==
  ASSUME Roster!IInv, NEW r \in wire, Roster!Succeed(r) \/ Roster!Fail(r)
  PROVE  Roster!IInv'
<1>1. r \in Roster!Requests /\ Roster!Sound(r)
  BY DEF Roster!IInv, Roster!TypeOK, Roster!WireInv
<1>2. wire' = wire \ {r} /\ UNCHANGED <<db, shown, form, hist>>
  BY DEF Roster!Succeed, Roster!Fail, Roster!Settle
<1>3. due' \subseteq Roster!Queries
  BY DEF Roster!Succeed, Roster!Fail, Roster!IInv, Roster!TypeOK, Roster!Queries
<1>4. dialog' \in [no: DOMAIN db.duties, choice: Roster!Groups \cup {None}, group: Roster!Groups \cup {None},
                   locked: BOOLEAN, surge: BOOLEAN] \cup {None}
  <2>1. CASE Roster!Succeed(r) /\ r.kind \in {"assign", "lock", "substitute"}
    <3>1. PICK choice \in Roster!Groups \cup {None} : dialog' = Roster!Detail(r.no, r.cell, choice)
      BY <1>1, <2>1 DEF Roster!Succeed, Roster!IInv, Roster!TypeOK, Roster!Requests, Roster!Cells
    <3>2. r.no \in DOMAIN db.duties /\ r.cell \in Roster!Cells
      BY <1>1, <2>1 DEF Roster!Sound, Roster!Requests
    <3> QED
      BY <3>1, <3>2 DEF Roster!Detail, Roster!Cells
  <2>2. CASE dialog' = dialog
    BY <2>2 DEF Roster!IInv, Roster!TypeOK
  <2> QED
    BY <2>1, <2>2 DEF Roster!Succeed, Roster!Fail
<1>5. Roster!TypeOK'
  BY <1>2, <1>3, <1>4 DEF Roster!IInv, Roster!TypeOK
<1>6. \A q \in wire' : \E p \in wire : RosterAlike(q, p)
  BY <1>2 DEF RosterAlike
<1> QED
  BY <1>2, <1>5, <1>6, RosterUnwritten

\* ---- the server reads --------------------------------------------------------------

LEMMA RosterReadSafe ==
  ASSUME Roster!IInv, NEW r \in wire, NEW s \in Roster!Requests, Roster!Replace(r, s), RosterReady(s),
         UNCHANGED <<shown, due, dialog, form, hist>>, db' = db
  PROVE  Roster!IInv'
<1>1. Roster!TypeOK'
  BY DEF Roster!IInv, Roster!TypeOK, Roster!Replace
<1>2. \A q \in wire' : RosterReady(q) \/ \E p \in wire : RosterAlike(q, p)
  BY DEF Roster!Replace, RosterAlike
<1> QED
  BY <1>1, <1>2, RosterUnwritten

LEMMA RosterReadAssignSafe ==
  ASSUME Roster!IInv, Roster!RosterAssumption, NEW r \in wire, Roster!ReadAssign(r)
  PROVE  Roster!IInv'
<1>1. r \in Roster!Requests /\ Roster!Sound(r) /\ r.kind = "assign" /\ r.no \in DOMAIN db.duties
          /\ hist.writes \in Nat
  BY DEF Roster!IInv, Roster!TypeOK, Roster!WireInv, Roster!ReadAssign, Roster!Sound
<1>2. CASE Roster!Refuse(r)
  BY <1>2, RosterAnswerSafe DEF Roster!Refuse
<1>3. CASE ~Roster!Refuse(r)
  <2> DEFINE s == [r EXCEPT !.cell = Roster!Cell(db.duties[r.no]), !.published = db.published,
                            !.phase = "read", !.read = hist.writes]
  <2>1. /\ Roster!Replace(r, s) /\ UNCHANGED <<db, shown, due, dialog, form, hist>>
        /\ ~db.duties[r.no].locked /\ ~Roster!Taken(r.group, r.no)
        /\ r.group \in Reserve => db.duties[r.no].source = "RESERVE_FILL"
    BY <1>3 DEF Roster!ReadAssign, Roster!Read
  <2>2. db.duties[r.no] \in Roster!Duties /\ db.published \in BOOLEAN
    BY <1>1 DEF Roster!IInv, Roster!TypeOK
  <2>3. Roster!Cell(db.duties[r.no]) \in Roster!Cells
    BY <2>2 DEF Roster!Cell, Roster!Cells, Roster!Duties
  <2>4. s \in Roster!Requests /\ s.kind = "assign" /\ s.phase = "read" /\ s.no = r.no /\ s.group = r.group
        /\ s.published = db.published /\ s.read = hist.writes
    BY <1>1, <2>2, <2>3 DEF Roster!Requests
  <2>5. r.group \in Reserve => r.no \notin 1..Slots
    BY <2>1 DEF Roster!IInv, Roster!SlotsInv
  <2> HIDE DEF s
  <2>6. RosterReady(s)
    BY <1>1, <2>1, <2>4, <2>5 DEF RosterReady, Roster!Sound, Roster!Knows
  <2> QED
    BY <2>1, <2>4, <2>6, RosterReadSafe
<1> QED
  BY <1>2, <1>3

LEMMA RosterReadPublishSafe ==
  ASSUME Roster!IInv, Roster!RosterAssumption, NEW r \in wire, Roster!ReadPublish(r)
  PROVE  Roster!IInv'
<1>1. r \in Roster!Requests /\ r.kind = "publish" /\ hist.writes \in Nat
  BY DEF Roster!IInv, Roster!TypeOK, Roster!ReadPublish
<1>2. CASE Roster!Refuse(r)
  BY <1>2, RosterAnswerSafe DEF Roster!Refuse
<1>3. CASE ~Roster!Refuse(r)
  <2> DEFINE s == [r EXCEPT !.phase = "read", !.read = hist.writes]
  <2>1. Roster!Replace(r, s) /\ UNCHANGED <<db, shown, due, dialog, form, hist>> /\ ~Roster!Hard(Roster!Chart)
    BY <1>3 DEF Roster!ReadPublish, Roster!Read
  <2>2. Roster!Apart(db.duties)
    BY <2>1, RosterApartUnlessHard DEF Roster!IInv
  <2>3. s \in Roster!Requests /\ s.kind = "publish" /\ s.phase = "read" /\ s.read = hist.writes
    BY <1>1 DEF Roster!Requests
  <2> HIDE DEF s
  <2>4. RosterReady(s)
    BY <1>1, <2>2, <2>3 DEF RosterReady, Roster!Sound, Roster!Knows
  <2> QED
    BY <2>1, <2>3, <2>4, RosterReadSafe
<1> QED
  BY <1>2, <1>3

LEMMA RosterReadSurgeSafe ==
  ASSUME Roster!IInv, Roster!RosterAssumption, NEW r \in wire, Roster!ReadSurge(r)
  PROVE  Roster!IInv'
<1>1. r \in Roster!Requests /\ r.kind = "surge" /\ hist.writes \in Nat
  BY DEF Roster!IInv, Roster!TypeOK, Roster!ReadSurge
<1>2. CASE Roster!Refuse(r)
  BY <1>2, RosterAnswerSafe DEF Roster!Refuse
<1>3. CASE ~Roster!Refuse(r)
  <2>1. PICK group \in Reserve, no \in Roster!Following :
            Roster!Held(db.duties, group) = {} /\ Roster!Read(r, [r EXCEPT !.group = group, !.no = no])
    BY <1>3 DEF Roster!ReadSurge
  <2> DEFINE s == [r EXCEPT !.group = group, !.no = no, !.phase = "read", !.read = hist.writes]
  <2>2. Roster!Replace(r, s) /\ UNCHANGED <<db, shown, due, dialog, form, hist>>
    BY <2>1 DEF Roster!Read
  <2>3. s \in Roster!Requests /\ s.kind = "surge" /\ s.phase = "read" /\ s.group = group /\ s.read = hist.writes
    BY <1>1 DEF Roster!Requests, Roster!Groups, Roster!Following
  <2> HIDE DEF s
  <2>4. RosterReady(s)
    BY <1>1, <2>1, <2>3 DEF RosterReady, Roster!Sound, Roster!Knows
  <2> QED
    BY <2>2, <2>3, <2>4, RosterReadSafe
<1> QED
  BY <1>2, <1>3

LEMMA RosterReadRotateSafe ==
  ASSUME Roster!IInv, Roster!RosterAssumption, NEW r \in wire, Roster!ReadRotate(r)
  PROVE  Roster!IInv'
<1>1. r \in Roster!Requests /\ r.kind = "rotate" /\ hist.writes \in Nat
  BY DEF Roster!IInv, Roster!TypeOK, Roster!ReadRotate
<1>2. CASE Roster!Refuse(r)
  BY <1>2, RosterAnswerSafe DEF Roster!Refuse
<1>3. CASE Roster!Answer(r, "ok") /\ UNCHANGED <<db, shown, due, dialog, form, hist>>
  BY <1>3, RosterAnswerSafe
<1>4. CASE ~db.published /\ \E m \in Roster!Matchings :
            Roster!Read(r, [r EXCEPT !.solved
                = [no \in Roster!Numbers |-> IF no \in Roster!Editable \cap 1..Slots THEN m[no] ELSE None]])
  <2>1. PICK m \in Roster!Matchings :
            Roster!Read(r, [r EXCEPT !.solved
                = [no \in Roster!Numbers |-> IF no \in Roster!Editable \cap 1..Slots THEN m[no] ELSE None]])
    BY <1>4
  <2> DEFINE new == [no \in Roster!Numbers |-> IF no \in Roster!Editable \cap 1..Slots THEN m[no] ELSE None]
             s == [r EXCEPT !.solved = new, !.phase = "read", !.read = hist.writes]
  <2>2. Roster!Replace(r, s) /\ UNCHANGED <<db, shown, due, dialog, form, hist>>
    BY <2>1 DEF Roster!Read
  <2>3. /\ new \in [Roster!Numbers -> Roster!Groups \cup {None}]
        /\ \A no \in Roster!Numbers : new[no] # None => no \in Roster!Editable /\ no \in 1..Slots
               /\ new[no] \in Rotating
    BY DEF Roster!Matchings, Roster!Groups
  <2> HIDE DEF new
  <2>4. s \in Roster!Requests /\ s.kind = "rotate" /\ s.phase = "read" /\ s.solved = new /\ s.read = hist.writes
    BY <1>1, <2>3 DEF Roster!Requests
  <2> HIDE DEF s
  <2>5. RosterReady(s)
    BY <1>1, <1>4, <2>3, <2>4 DEF RosterReady, Roster!Sound, Roster!Knows
  <2> QED
    BY <2>2, <2>4, <2>5, RosterReadSafe
<1> QED
  BY <1>2, <1>3, <1>4 DEF Roster!ReadRotate

LEMMA RosterReadRepairSafe ==
  ASSUME Roster!IInv, Roster!RosterAssumption, NEW r \in wire, Roster!ReadRepair(r)
  PROVE  Roster!IInv'
<1>1. r \in Roster!Requests /\ r.kind = "rotate" /\ hist.writes \in Nat
  BY DEF Roster!IInv, Roster!TypeOK, Roster!ReadRepair
<1>2. UNCHANGED <<shown, due, dialog, form, hist>> /\ db' = db
  BY DEF Roster!ReadRepair
<1>3. CASE Roster!Answer(r, "ok")
  BY <1>2, <1>3, RosterAnswerSafe
<1>4. CASE ~Roster!Answer(r, "ok")
  <2> DEFINE held == DOMAIN db.duties \ Roster!Held(db.duties, None)
  <2>1. PICK new \in Roster!Repairs(held) : Roster!Replace(r, [r EXCEPT !.phase = "mended", !.read = hist.writes,
            !.solved = new])
    BY <1>4 DEF Roster!ReadRepair
  <2> DEFINE s == [r EXCEPT !.phase = "mended", !.read = hist.writes, !.solved = new]
  <2>2. /\ new \in [Roster!Numbers -> Roster!Groups \cup {None}]
        /\ \A no \in 1..Slots : new[no] \notin Reserve
    <3>1. new \in [Roster!Numbers -> Roster!Groups \cup {None}]
      BY DEF Roster!Repairs
    <3>2. ASSUME NEW no \in 1..Slots PROVE new[no] \notin Reserve
      <4>1. no \in Roster!Numbers /\ no \in DOMAIN db.duties /\ db.duties[no].group \notin Reserve
        BY DEF Roster!IInv, Roster!SlotsInv, Roster!TypeOK
      <4>2. \/ new[no] \in Rotating
            \/ new[no] = IF no \in held THEN db.duties[no].group ELSE None
        BY <4>1 DEF Roster!Repairs
      <4> QED
        BY <4>1, <4>2 DEF Roster!RosterAssumption, Roster!Groups
    <3> QED
      BY <3>1, <3>2
  <2>3. s \in Roster!Requests /\ s.kind = "rotate" /\ s.phase = "mended" /\ s.solved = new /\ s.read = hist.writes
    BY <1>1, <2>2 DEF Roster!Requests
  <2> HIDE DEF s
  <2>4. RosterReady(s)
    BY <1>1, <2>1, <2>2, <2>3 DEF RosterReady, Roster!Sound, Roster!Knows
  <2>5. Roster!Replace(r, s)
    BY <2>1 DEF s
  <2> QED
    BY <1>2, <2>3, <2>4, <2>5, RosterReadSafe
<1> QED
  BY <1>3, <1>4

\* ---- the server writes ---------------------------------------------------------

\* The request is done with what it held.
RosterDone(r) ==
    \A q \in wire' : \/ q \in wire \ {r}
                     \/ q.phase \in {"ok", "error", "solved"} /\ q.kind = r.kind /\ q.no = r.no

LEMMA RosterAnswerDone ==
  ASSUME Roster!IInv, NEW r \in wire, Roster!Answer(r, "ok")
  PROVE  wire' \subseteq Roster!Requests /\ RosterDone(r)
<1>1. r \in Roster!Requests /\ [r EXCEPT !.phase = "ok"] \in Roster!Requests
  BY DEF Roster!IInv, Roster!TypeOK, Roster!Requests
<1> QED
  BY <1>1 DEF Roster!Answer, RosterDone, Roster!IInv, Roster!TypeOK, Roster!Requests

LEMMA RosterTellDone ==
  ASSUME Roster!IInv, NEW r \in wire, NEW cell \in Roster!Cells, Roster!Tell(r, cell)
  PROVE  wire' \subseteq Roster!Requests /\ RosterDone(r)
<1>1. r \in Roster!Requests /\ [r EXCEPT !.phase = "ok", !.cell = cell] \in Roster!Requests
  BY DEF Roster!IInv, Roster!TypeOK, Roster!Requests
<1> QED
  BY <1>1 DEF Roster!Tell, RosterDone, Roster!IInv, Roster!TypeOK, Roster!Requests

LEMMA RosterSaved ==
  ASSUME Roster!IInv, NEW r \in wire, NEW duties, Roster!Save(r, duties), wire' \subseteq Roster!Requests,
             RosterDone(r),
         DOMAIN db.duties \subseteq DOMAIN duties, DOMAIN duties \subseteq Roster!Numbers,
         duties \in [DOMAIN duties -> Roster!Duties]
  PROVE  /\ Roster!TypeOK' /\ Roster!WireInv' /\ Roster!ReadInv'
         /\ db'.duties = duties /\ db'.published = db.published
         /\ ~hist'.crossed => ~hist.crossed /\ (r.phase = "sent" \/ ~Roster!Late(r))
<1>1. PICK b \in BOOLEAN : b = (hist.crossed \/ (r.phase # "sent" /\ Roster!Late(r)))
  OBVIOUS
<1>2. /\ db' = [db EXCEPT !.duties = duties] /\ hist' = [hist EXCEPT !.writes = Roster!Counted(r), !.crossed = b]
      /\ UNCHANGED <<shown, due, dialog, form>>
  BY <1>1 DEF Roster!Save
<1>3. /\ DOMAIN db' = DOMAIN db /\ db'.duties = duties /\ db'.published = db.published /\ db'.fits = db.fits
      /\ hist'.writes = Roster!Counted(r) /\ hist'.crossed = b /\ hist'.opens = hist.opens
             /\ hist'.sends = hist.sends
      /\ Roster!Counted(r) \in Nat
  BY <1>2 DEF Roster!IInv, Roster!TypeOK, Roster!Counted
<1>4. hist' \in [opens: 0..FewOpens, sends: 0..MaxSends, writes: Nat, crossed: BOOLEAN]
  BY <1>2, <1>3 DEF Roster!IInv, Roster!TypeOK
<1>5. dialog' \in [no: DOMAIN duties, choice: Roster!Groups \cup {None}, group: Roster!Groups \cup {None},
                   locked: BOOLEAN, surge: BOOLEAN] \cup {None}
  BY <1>2 DEF Roster!IInv, Roster!TypeOK
<1>6. Roster!TypeOK'
  BY <1>2, <1>3, <1>4, <1>5 DEF Roster!IInv, Roster!TypeOK
<1>7. Roster!WireInv' /\ Roster!ReadInv'
  BY <1>3, RosterWritten DEF Roster!IInv, RosterDone
<1> QED
  BY <1>1, <1>3, <1>6, <1>7

LEMMA RosterSaveAssignSafe ==
  ASSUME Roster!IInv, Roster!RosterAssumption, NEW r \in wire, Roster!SaveAssign(r)
  PROVE  Roster!IInv'
<1> DEFINE duties == [db.duties EXCEPT ![r.no] = Roster!Reassigned(r)]
           cell == [r.cell EXCEPT !.group = r.group, !.surge = FALSE]
<1>1. /\ r \in Roster!Requests /\ r.kind = "assign" /\ r.phase = "read" /\ r.no \in DOMAIN db.duties
      /\ r.group \in Reserve => r.no \notin 1..Slots
  BY DEF Roster!IInv, Roster!TypeOK, Roster!WireInv, Roster!Sound, Roster!SaveAssign
<1>2. cell \in Roster!Cells
  <2>1. PICK b \in BOOLEAN : b = FALSE
    OBVIOUS
  <2>2. [r.cell EXCEPT !.group = r.group, !.surge = b] \in Roster!Cells
    BY <1>1 DEF Roster!Requests, Roster!Cells
  <2> QED
    BY <2>1, <2>2
<1>3. wire' \subseteq Roster!Requests /\ RosterDone(r)
  BY <1>2, RosterTellDone DEF Roster!SaveAssign
<1>4. /\ DOMAIN duties = DOMAIN db.duties /\ duties \in [DOMAIN duties -> Roster!Duties]
      /\ duties[r.no].group = r.group /\ duties[r.no].source # "GENERATED" /\ duties[r.no].source # "RESERVE_FILL"
      /\ \A no \in DOMAIN duties : no # r.no => duties[no] = db.duties[no]
  <2>1. PICK source \in {"OVERRIDE", "MANUAL"}, more \in {0, 1} :
            Roster!Reassigned(r) = [db.duties[r.no] EXCEPT !.group = r.group, !.source = source,
                !.overrides = @ + more]
    BY DEF Roster!Reassigned
  <2>2. PICK duty \in Roster!Duties : duty = db.duties[r.no]
    BY <1>1 DEF Roster!IInv, Roster!TypeOK
  <2>3. PICK n \in Nat : n = duty.overrides + more
    BY DEF Roster!Duties
  <2>4. Roster!Reassigned(r) = [duty EXCEPT !.group = r.group, !.source = source, !.overrides = n]
    BY <2>1, <2>2, <2>3
  <2>5. r.group \in Roster!Groups \cup {None}
    BY <1>1 DEF Roster!Requests
  <2>6. /\ Roster!Reassigned(r) \in Roster!Duties /\ Roster!Reassigned(r).group = r.group
        /\ Roster!Reassigned(r).source \notin {"GENERATED", "RESERVE_FILL"}
    BY <2>4, <2>5 DEF Roster!Duties, Roster!Sources
  <2> QED
    BY <1>1, <2>6 DEF Roster!IInv, Roster!TypeOK
<1>5. Roster!Save(r, duties)
  BY DEF Roster!SaveAssign
<1> HIDE DEF duties, cell
<1>6. /\ Roster!TypeOK' /\ Roster!WireInv' /\ Roster!ReadInv'
      /\ db'.duties = duties /\ db'.published = db.published
      /\ ~hist'.crossed => ~hist.crossed /\ (r.phase = "sent" \/ ~Roster!Late(r))
  BY <1>3, <1>4, <1>5, RosterSaved DEF Roster!IInv, Roster!TypeOK
<1>7. Roster!SlotsInv'
  BY <1>1, <1>4, <1>6 DEF Roster!IInv, Roster!SlotsInv
<1>8. ASSUME db'.published, ~hist'.crossed PROVE Roster!Apart(db.duties)'
  <2>1. Roster!Apart(db.duties) /\ ~Roster!Taken(r.group, r.no)
    BY <1>1, <1>6, <1>8 DEF Roster!IInv, Roster!CleanInv, Roster!ReadInv, Roster!Knows, Roster!Holding
  <2> QED
    BY <1>1, <1>4, <1>6, <2>1 DEF Roster!Apart, Roster!Taken, Roster!Held
<1> QED
  BY <1>6, <1>7, <1>8 DEF Roster!IInv, Roster!CleanInv

LEMMA RosterLockSafe ==
  ASSUME Roster!IInv, NEW r \in wire, Roster!ServeLock(r)
  PROVE  Roster!IInv'
<1> DEFINE duties == [db.duties EXCEPT ![r.no].locked = r.locked]
           cell == [Roster!Chart[r.no] EXCEPT !.locked = r.locked]
<1>1. r \in Roster!Requests /\ r.kind = "lock" /\ r.phase = "sent" /\ r.no \in DOMAIN db.duties
  BY DEF Roster!IInv, Roster!TypeOK, Roster!WireInv, Roster!Sound, Roster!ServeLock
<1>2. cell \in Roster!Cells
  BY <1>1 DEF Roster!Chart, Roster!Cell, Roster!Cells, Roster!Duties, Roster!IInv, Roster!TypeOK, Roster!Requests
<1>3. wire' \subseteq Roster!Requests /\ RosterDone(r)
  BY <1>2, RosterTellDone DEF Roster!ServeLock
<1>4. /\ DOMAIN duties = DOMAIN db.duties /\ duties \in [DOMAIN duties -> Roster!Duties]
      /\ \A no \in DOMAIN duties : duties[no].group = db.duties[no].group
             /\ duties[no].source = db.duties[no].source
  BY <1>1 DEF Roster!IInv, Roster!TypeOK, Roster!Duties, Roster!Requests
<1>5. Roster!Save(r, duties)
  BY DEF Roster!ServeLock
<1> HIDE DEF duties, cell
<1>6. /\ Roster!TypeOK' /\ Roster!WireInv' /\ Roster!ReadInv'
      /\ db'.duties = duties /\ db'.published = db.published
      /\ ~hist'.crossed => ~hist.crossed /\ (r.phase = "sent" \/ ~Roster!Late(r))
  BY <1>3, <1>4, <1>5, RosterSaved DEF Roster!IInv, Roster!TypeOK
<1>7. Roster!SlotsInv'
  BY <1>4, <1>6 DEF Roster!IInv, Roster!SlotsInv
<1>8. Roster!CleanInv'
  BY <1>4, <1>6 DEF Roster!IInv, Roster!CleanInv, Roster!Apart
<1> QED
  BY <1>6, <1>7, <1>8 DEF Roster!IInv

LEMMA RosterSubstituteSafe ==
  ASSUME Roster!IInv, NEW r \in wire, Roster!ServeSubstitute(r)
  PROVE  Roster!IInv'
<1>1. r \in Roster!Requests /\ r.kind = "substitute" /\ r.phase = "sent" /\ r.no \in DOMAIN db.duties
  BY DEF Roster!IInv, Roster!TypeOK, Roster!WireInv, Roster!Sound, Roster!ServeSubstitute
<1>2. UNCHANGED <<shown, due, dialog, form, hist>> /\ db' = db
  BY DEF Roster!ServeSubstitute
<1>3. CASE Roster!Answer(r, "error")
  BY <1>2, <1>3, RosterAnswerSafe
<1>4. CASE Roster!Tell(r, Roster!Chart[r.no])
  <2>1. Roster!Chart[r.no] \in Roster!Cells
    BY <1>1 DEF Roster!Chart, Roster!Cell, Roster!Cells, Roster!Duties, Roster!IInv, Roster!TypeOK
  <2> DEFINE s == [r EXCEPT !.phase = "ok", !.cell = Roster!Chart[r.no]]
  <2>2. s \in Roster!Requests /\ s.phase = "ok" /\ s.no = r.no
    BY <1>1, <2>1 DEF Roster!Requests
  <2>3. \A q \in wire' : q = s \/ q \in wire
    BY <1>4 DEF Roster!Tell
  <2> HIDE DEF s
  <2>4. wire' \subseteq Roster!Requests /\ \A q \in wire' : RosterEmpty(q) \/ \E p \in wire : RosterAlike(q, p)
    BY <1>1, <2>2, <2>3 DEF RosterEmpty, RosterAlike, Roster!IInv, Roster!TypeOK
  <2>5. Roster!TypeOK'
    BY <1>2, <2>4 DEF Roster!IInv, Roster!TypeOK
  <2> QED
    BY <1>2, <2>4, <2>5, RosterEmptyReady, RosterUnwritten
<1> QED
  BY <1>3, <1>4 DEF Roster!ServeSubstitute

LEMMA RosterSavePublishSafe ==
  ASSUME Roster!IInv, NEW r \in wire, Roster!SavePublish(r)
  PROVE  Roster!IInv'
<1>1. PICK b \in BOOLEAN : b = (hist.crossed \/ Roster!Late(r))
  OBVIOUS
<1>2. PICK t \in BOOLEAN : t = TRUE
  OBVIOUS
<1>3. /\ r.kind = "publish" /\ r.phase = "read" /\ db' = [db EXCEPT !.published = t]
      /\ hist' = [hist EXCEPT !.writes = Roster!Counted(r), !.crossed = b] /\ Roster!Answer(r, "ok")
      /\ UNCHANGED <<shown, due, dialog, form>>
  BY <1>1, <1>2 DEF Roster!SavePublish
<1>4. /\ DOMAIN db' = DOMAIN db /\ db'.duties = db.duties /\ db'.published \in BOOLEAN /\ db'.fits = db.fits
      /\ hist'.writes = Roster!Counted(r) /\ hist'.crossed = b /\ Roster!Counted(r) \in Nat
  BY <1>3 DEF Roster!IInv, Roster!TypeOK, Roster!Counted
<1>5. hist' \in [opens: 0..FewOpens, sends: 0..MaxSends, writes: Nat, crossed: BOOLEAN]
  BY <1>3, <1>4 DEF Roster!IInv, Roster!TypeOK
<1>6. wire' \subseteq Roster!Requests /\ RosterDone(r)
  BY <1>3, RosterAnswerDone
<1>7. Roster!TypeOK'
  BY <1>3, <1>4, <1>5, <1>6 DEF Roster!IInv, Roster!TypeOK
<1>8. Roster!WireInv' /\ Roster!ReadInv'
  BY <1>4, <1>6, RosterWritten DEF Roster!IInv, RosterDone
<1>9. Roster!SlotsInv'
  BY <1>4 DEF Roster!IInv, Roster!SlotsInv
<1>10. ASSUME ~hist'.crossed PROVE Roster!Apart(db.duties)'
  <2>1. Roster!Apart(db.duties)
    BY <1>1, <1>3, <1>4, <1>10 DEF Roster!IInv, Roster!ReadInv, Roster!Knows, Roster!Holding
  <2> QED
    BY <1>4, <2>1 DEF Roster!Apart
<1> QED
  BY <1>7, <1>8, <1>9, <1>10 DEF Roster!IInv, Roster!CleanInv

LEMMA RosterSaveSurgeSafe ==
  ASSUME Roster!IInv, Roster!RosterAssumption, NEW r \in wire, Roster!SaveSurge(r)
  PROVE  Roster!IInv'
<1>1. r \in Roster!Requests /\ r.kind = "surge" /\ r.phase = "read"
  BY DEF Roster!IInv, Roster!TypeOK, Roster!SaveSurge
<1>2. CASE Roster!Refuse(r)
  BY <1>2, RosterAnswerSafe DEF Roster!Refuse
<1>3. CASE ~Roster!Refuse(r)
  <2> DEFINE filled == [group |-> r.group, source |-> "RESERVE_FILL", locked |-> FALSE, overrides |-> 1]
  <2>1. PICK new \in Roster!Following :
            Roster!Save(r, [no \in DOMAIN db.duties \cup {new} |-> IF no = new THEN filled ELSE db.duties[no]])
            /\ Roster!Answer(r, "ok")
    BY <1>3 DEF Roster!SaveSurge
  <2> DEFINE duties == [no \in DOMAIN db.duties \cup {new} |-> IF no = new THEN filled ELSE db.duties[no]]
  <2>2. filled \in Roster!Duties /\ filled.group = r.group /\ filled.source = "RESERVE_FILL"
    BY <1>1 DEF Roster!Requests, Roster!Duties, Roster!Sources
  <2> HIDE DEF filled
  <2>3. /\ DOMAIN duties = DOMAIN db.duties \cup {new} /\ duties[new] = filled
        /\ new \in Roster!Numbers /\ new \notin DOMAIN db.duties
        /\ \A no \in DOMAIN db.duties : duties[no] = db.duties[no]
    BY DEF Roster!Following
  <2>4. duties \in [DOMAIN duties -> Roster!Duties] /\ DOMAIN duties \subseteq Roster!Numbers
    BY <2>2, <2>3 DEF Roster!IInv, Roster!TypeOK
  <2>5. Roster!Save(r, duties) /\ wire' \subseteq Roster!Requests /\ RosterDone(r)
    BY <2>1, RosterAnswerDone
  <2> HIDE DEF duties
  <2>6. /\ Roster!TypeOK' /\ Roster!WireInv' /\ Roster!ReadInv'
        /\ db'.duties = duties /\ db'.published = db.published
        /\ ~hist'.crossed => ~hist.crossed /\ (r.phase = "sent" \/ ~Roster!Late(r))
    BY <2>3, <2>4, <2>5, RosterSaved
  <2>7. new \notin 1..Slots
    BY <2>3 DEF Roster!IInv, Roster!SlotsInv
  <2>8. Roster!SlotsInv'
    BY <2>2, <2>3, <2>6, <2>7 DEF Roster!IInv, Roster!SlotsInv
  <2>9. ASSUME db'.published, ~hist'.crossed PROVE Roster!Apart(db.duties)'
    <3>1. Roster!Apart(db.duties) /\ Roster!Held(db.duties, r.group) = {}
      BY <1>1, <2>6, <2>9 DEF Roster!IInv, Roster!CleanInv, Roster!ReadInv, Roster!Knows, Roster!Holding
    <3> QED
      BY <2>2, <2>3, <2>6, <3>1 DEF Roster!Apart, Roster!Held
  <2> QED
    BY <2>6, <2>8, <2>9 DEF Roster!IInv, Roster!CleanInv
<1> QED
  BY <1>2, <1>3

LEMMA RosterSaveRotateSafe ==
  ASSUME Roster!IInv, Roster!RosterAssumption, NEW r \in wire, Roster!SaveRotate(r)
  PROVE  Roster!IInv'
<1> DEFINE duties == [no \in DOMAIN db.duties |->
                        IF r.solved[no] = None THEN db.duties[no]
                        ELSE [db.duties[no] EXCEPT !.group = r.solved[no], !.source = "GENERATED"]]
           s == [r EXCEPT !.phase = "solved"]
<1>1. /\ r \in Roster!Requests /\ r.kind = "rotate" /\ r.phase = "read"
      /\ \A no \in Roster!Numbers : r.solved[no] # None => no \in 1..Slots /\ r.solved[no] \in Rotating
  BY DEF Roster!IInv, Roster!TypeOK, Roster!WireInv, Roster!Sound, Roster!SaveRotate
<1>2. s \in Roster!Requests /\ s.phase = "solved" /\ s.kind = r.kind /\ s.no = r.no
  BY <1>1 DEF Roster!Requests
<1>3. Roster!Save(r, duties) /\ Roster!Replace(r, s)
  BY DEF Roster!SaveRotate
<1> HIDE DEF s
<1>4. wire' \subseteq Roster!Requests /\ RosterDone(r)
  BY <1>2, <1>3 DEF Roster!Replace, RosterDone, Roster!IInv, Roster!TypeOK
<1>5. /\ DOMAIN duties = DOMAIN db.duties
      /\ \A no \in DOMAIN db.duties :
            /\ duties[no] \in Roster!Duties
            /\ \/ duties[no] = db.duties[no]
               \/ no \in 1..Slots /\ duties[no].group \in Rotating /\ duties[no].source = "GENERATED"
  <2>1. ASSUME NEW no \in DOMAIN db.duties
        PROVE  /\ duties[no] \in Roster!Duties
               /\ \/ duties[no] = db.duties[no]
                  \/ no \in 1..Slots /\ duties[no].group \in Rotating /\ duties[no].source = "GENERATED"
    <3>1. no \in Roster!Numbers /\ db.duties[no] \in Roster!Duties
      BY DEF Roster!IInv, Roster!TypeOK
    <3>2. CASE r.solved[no] = None
      BY <3>1, <3>2
    <3>3. CASE r.solved[no] # None
      <4>1. duties[no] = [db.duties[no] EXCEPT !.group = r.solved[no], !.source = "GENERATED"]
        BY <3>3
      <4>2. no \in 1..Slots /\ r.solved[no] \in Rotating
        BY <1>1, <3>1, <3>3
      <4> HIDE DEF duties
      <4> QED
        BY <3>1, <4>1, <4>2 DEF Roster!Duties, Roster!Sources, Roster!Groups
    <3> QED
      BY <3>2, <3>3
  <2> QED
    BY <2>1
<1>6. duties \in [DOMAIN duties -> Roster!Duties]
  BY <1>5
<1> HIDE DEF duties
<1>7. /\ Roster!TypeOK' /\ Roster!WireInv' /\ Roster!ReadInv'
      /\ db'.duties = duties /\ db'.published = db.published
      /\ ~hist'.crossed => ~hist.crossed /\ (r.phase = "sent" \/ ~Roster!Late(r))
  BY <1>3, <1>4, <1>5, <1>6, RosterSaved DEF Roster!IInv, Roster!TypeOK
<1>8. Roster!SlotsInv'
  BY <1>5, <1>7 DEF Roster!IInv, Roster!SlotsInv, Roster!RosterAssumption
<1>9. Roster!CleanInv'
  BY <1>1, <1>7 DEF Roster!IInv, Roster!CleanInv, Roster!ReadInv, Roster!Knows, Roster!Holding
<1> QED
  BY <1>7, <1>8, <1>9 DEF Roster!IInv

\* What the repair found, as long as nobody else has written, books a group twice
\* only if it was.
LEMMA RosterRepairApart ==
  ASSUME Roster!TypeOK, Roster!Apart(db.duties),
             NEW new \in Roster!Repairs(DOMAIN db.duties \ Roster!Held(db.duties, None)),
         NEW a \in DOMAIN db.duties, NEW b \in DOMAIN db.duties, a # b, new[a] = new[b], new[a] # None
  PROVE  FALSE
<1> DEFINE held == DOMAIN db.duties \ Roster!Held(db.duties, None)
           read == [no \in Roster!Numbers |-> IF no \in held THEN db.duties[no].group ELSE None]
<1>1. /\ \A no \in Roster!Numbers : new[no] # read[no] => no \in held
      /\ \A c, d \in held : c # d /\ new[c] = new[d]
            => \E e, f \in held : e # f /\ read[e] = new[c] /\ read[f] = new[c]
  BY DEF Roster!Repairs
<1>2. a \in held /\ b \in held
  <2>1. a \in Roster!Numbers /\ b \in Roster!Numbers
    BY DEF Roster!TypeOK
  <2> QED
    BY <1>1, <2>1
<1>3. PICK e \in held, f \in held : e # f /\ read[e] = new[a] /\ read[f] = new[a]
  BY <1>1, <1>2
<1>4. e \in Roster!Numbers /\ f \in Roster!Numbers
  BY DEF Roster!TypeOK
<1>5. db.duties[e].group = db.duties[f].group /\ db.duties[e].group # None
  BY <1>3, <1>4
<1> QED
  BY <1>3, <1>5 DEF Roster!Apart

LEMMA RosterSaveRepairSafe ==
  ASSUME Roster!IInv, Roster!RosterAssumption, NEW r \in wire, Roster!SaveRepair(r)
  PROVE  Roster!IInv'
<1> DEFINE duties == [no \in DOMAIN db.duties |->
                        IF r.solved[no] = None THEN db.duties[no]
                        ELSE [db.duties[no] EXCEPT !.group = r.solved[no]]]
<1>1. /\ r \in Roster!Requests /\ r.kind = "rotate" /\ r.phase = "mended"
      /\ \A no \in 1..Slots : r.solved[no] \notin Reserve
  BY DEF Roster!IInv, Roster!TypeOK, Roster!WireInv, Roster!Sound, Roster!SaveRepair
<1>2. Roster!Save(r, duties) /\ wire' \subseteq Roster!Requests /\ RosterDone(r)
  BY RosterAnswerDone DEF Roster!SaveRepair
<1>3. /\ DOMAIN duties = DOMAIN db.duties
      /\ \A no \in DOMAIN db.duties :
            /\ duties[no] \in Roster!Duties /\ duties[no].source = db.duties[no].source
            /\ duties[no].group = IF r.solved[no] = None THEN db.duties[no].group ELSE r.solved[no]
  BY <1>1 DEF Roster!IInv, Roster!TypeOK, Roster!Duties, Roster!Requests
<1>4. duties \in [DOMAIN duties -> Roster!Duties]
  BY <1>3
<1> HIDE DEF duties
<1>5. /\ Roster!TypeOK' /\ Roster!WireInv' /\ Roster!ReadInv'
      /\ db'.duties = duties /\ db'.published = db.published
      /\ ~hist'.crossed => ~hist.crossed /\ (r.phase = "sent" \/ ~Roster!Late(r))
  BY <1>2, <1>3, <1>4, RosterSaved DEF Roster!IInv, Roster!TypeOK
<1>6. Roster!SlotsInv'
  BY <1>1, <1>3, <1>5 DEF Roster!IInv, Roster!SlotsInv
<1>7. ASSUME db'.published, ~hist'.crossed PROVE Roster!Apart(db.duties)'
  <2>1. Roster!Apart(db.duties) /\ r.solved \in Roster!Repairs(DOMAIN db.duties \ Roster!Held(db.duties, None))
    BY <1>1, <1>5, <1>7 DEF Roster!IInv, Roster!CleanInv, Roster!ReadInv, Roster!Knows, Roster!Holding
  <2>2. \A no \in DOMAIN db.duties : duties[no].group = r.solved[no]
    <3>1. ASSUME NEW no \in DOMAIN db.duties PROVE duties[no].group = r.solved[no]
      <4>1. no \in Roster!Numbers
        BY DEF Roster!IInv, Roster!TypeOK
      <4>2. r.solved[no] = None => db.duties[no].group = None
        BY <2>1, <4>1 DEF Roster!Repairs, Roster!Held, Roster!RosterAssumption, Roster!Groups
      <4> QED
        BY <1>3, <4>2
    <3> QED
      BY <3>1
  <2>3. ASSUME NEW a \in DOMAIN db.duties, NEW b \in DOMAIN db.duties, a # b,
               duties[a].group = duties[b].group, duties[a].group # None
        PROVE  FALSE
    BY <2>1, <2>2, <2>3, RosterRepairApart DEF Roster!IInv
  <2> QED
    BY <1>3, <1>5, <2>3 DEF Roster!Apart
<1> QED
  BY <1>5, <1>6, <1>7 DEF Roster!IInv, Roster!CleanInv

\* ---- the theorems ------------------------------------------------------------------

LEMMA RosterInitSafe ==
  ASSUME Roster!Init, Roster!RosterAssumption
  PROVE  Roster!IInv
<1>1. db \in [published: BOOLEAN, fits: {TRUE},
          duties: Roster!Charts] /\ (db.published => ~Roster!Hard(Roster!Chart))
  BY DEF Roster!Init
<1>2. /\ DOMAIN db.duties = 1..Slots /\ 1..Slots \subseteq Roster!Numbers
      /\ db.duties \in [1..Slots -> [group: Rotating \cup {None}, source: {"MANUAL", "GENERATED"},
                                     locked: {FALSE}, overrides: {0}]]
  <2>1. db.duties \in Roster!Charts
    BY <1>1
  <2>2. Roster!Charts \subseteq [1..Slots -> [group: Rotating \cup {None}, source: {"MANUAL", "GENERATED"},
                                      locked: {FALSE}, overrides: {0}]]
    BY DEF Roster!Charts
  <2>3. 1..Slots \subseteq Roster!Numbers
    BY DEF Roster!Numbers, Roster!RosterAssumption
  <2> QED
    BY <2>1, <2>2, <2>3
<1>3. DOMAIN db = {"published", "fits", "duties"} /\ db.published \in BOOLEAN /\ db.fits \in BOOLEAN
  BY <1>1
<1>4. db.duties \in [DOMAIN db.duties -> Roster!Duties]
  <2>1. [group: Rotating \cup {None}, source: {"MANUAL", "GENERATED"}, locked: {FALSE}, overrides: {0}]
            \subseteq Roster!Duties
    <3>1. ASSUME NEW B \in SUBSET BOOLEAN
          PROVE  [group: Rotating \cup {None}, source: {"MANUAL", "GENERATED"}, locked: B, overrides: {0}]
                    \subseteq Roster!Duties
      BY DEF Roster!Duties, Roster!Sources, Roster!Groups
    <3>2. {FALSE} \in SUBSET BOOLEAN
      OBVIOUS
    <3> QED
      BY <3>1, <3>2
  <2> QED
    BY <1>2, <2>1
<1>5. DOMAIN shown = {"published", "duties"} /\ shown.published \in BOOLEAN
      /\ shown.duties = <<>>
  BY DEF Roster!Init
<1>6. DOMAIN shown.duties \subseteq DOMAIN db.duties /\ shown.duties \in [DOMAIN shown.duties -> Roster!Cells]
  BY <1>5
<1>7. hist \in [opens: 0..FewOpens, sends: 0..MaxSends, writes: Nat, crossed: BOOLEAN]
  BY DEF Roster!Init, Roster!RosterAssumption
<1>8. due = {} /\ dialog = None /\ wire = {} /\ form \in [at: {"periods", "grid"}, policy: BOOLEAN]
  BY DEF Roster!Init
<1>9. Roster!TypeOK
  BY <1>2, <1>3, <1>4, <1>5, <1>6, <1>7, <1>8 DEF Roster!TypeOK
<1>10. Roster!SlotsInv
  BY <1>2 DEF Roster!SlotsInv, Roster!RosterAssumption, Roster!Groups
<1>11. ASSUME db.published PROVE Roster!Apart(db.duties)
  BY <1>1, <1>9, <1>11, RosterApartUnlessHard
<1> QED
  BY <1>8, <1>9, <1>10, <1>11 DEF Roster!IInv, Roster!WireInv, Roster!ReadInv, Roster!CleanInv

LEMMA RosterNextSafe ==
  ASSUME Roster!IInv, Roster!RosterAssumption, [Roster!Next]_deskVars
  PROVE  Roster!IInv'
<1>1. CASE UNCHANGED deskVars
  <2>1. Roster!TypeOK'
    BY <1>1 DEF Roster!IInv, Roster!TypeOK, deskVars
  <2>2. \A q \in wire' : RosterReady(q) \/ \E p \in wire : RosterAlike(q, p)
    BY <1>1 DEF RosterAlike, deskVars
  <2> QED
    BY <1>1, <2>1, <2>2, RosterUnwritten DEF deskVars
<1>2. CASE \/ Roster!OpenGrid \/ Roster!LoadChart \/ Roster!Browse
           \/ Roster!CloseDuty \/ Roster!OpenPolicy \/ Roster!ClosePolicy
           \/ \E no \in Roster!OnGrid : Roster!OpenDuty(no)
           \/ \E group \in Roster!Groups \cup {None} : Roster!ChooseGroup(group)
  BY <1>2, RosterPageSafe
<1>3. CASE RosterSubmits
  BY <1>3, RosterSubmitSafe
<1>4. CASE Roster!GiveUp
  BY <1>4, RosterGiveUpSafe
<1>5. ASSUME NEW r \in wire,
                 Roster!ReadAssign(r) \/ Roster!ReadPublish(r) \/ Roster!ReadSurge(r) \/ Roster!ReadRotate(r)
                     \/ Roster!ReadRepair(r)
      PROVE  Roster!IInv'
  BY <1>5, RosterReadAssignSafe, RosterReadPublishSafe, RosterReadSurgeSafe, RosterReadRotateSafe,
     RosterReadRepairSafe
<1>6. ASSUME NEW r \in wire,
             Roster!SaveAssign(r) \/ Roster!SavePublish(r) \/ Roster!SaveSurge(r) \/ Roster!SaveRotate(r)
                 \/ Roster!SaveRepair(r)
      PROVE  Roster!IInv'
  BY <1>6, RosterSaveAssignSafe, RosterSavePublishSafe, RosterSaveSurgeSafe, RosterSaveRotateSafe,
     RosterSaveRepairSafe
<1>7. ASSUME NEW r \in wire,
                 Roster!ServeLock(r) \/ Roster!ServeSubstitute(r) \/ Roster!ServePolicy(r)
                     \/ Roster!Succeed(r) \/ Roster!Fail(r)
      PROVE  Roster!IInv'
  BY <1>7, RosterLockSafe, RosterSubstituteSafe, RosterPolicySafe, RosterHeardSafe
<1> QED
  BY <1>1, <1>2, <1>3, <1>4, <1>5, <1>6, <1>7 DEF Roster!Next, RosterSubmits

LEMMA RosterInvHolds == Roster!RosterAssumption /\ Roster!Spec => []Roster!IInv
<1>1. Roster!RosterAssumption /\ Roster!Init => Roster!IInv
  BY RosterInitSafe
<1>2. Roster!RosterAssumption /\ Roster!IInv /\ [Roster!Next]_deskVars => Roster!IInv'
  BY RosterNextSafe
<1>3. CASE Roster!RosterAssumption
  <2>1. Roster!Init => Roster!IInv
    BY <1>1, <1>3
  <2>2. Roster!IInv /\ [Roster!Next]_deskVars => Roster!IInv'
    BY <1>2, <1>3
  <2> QED
    BY <2>1, <2>2, PTL DEF Roster!Spec, Roster!deskVars, deskVars
<1> QED
  BY <1>3

\* The roster page keeps to its types: what it shows is of duties the server has,
\* and no surge exceeds the numbers it gives out.
THEOREM RosterTypeCorrect == Roster!RosterAssumption /\ Roster!Spec => []Roster!TypeOK
<1>1. Roster!IInv => Roster!TypeOK
  BY DEF Roster!IInv
<1> QED
  BY <1>1, RosterInvHolds, PTL

\* A published chart books no group twice and no reserve group on a duty of the
\* demand, unless two requests crossed: publishing tests what it reads, and what an
\* assignment, a surge, a rotation or its repair read is still so when it writes.
THEOREM RosterPublishedClean == Roster!RosterAssumption /\ Roster!Spec => []Roster!PublishedIsClean
<1>1. Roster!RosterAssumption /\ Roster!IInv => Roster!PublishedIsClean
  <2> SUFFICES ASSUME Roster!RosterAssumption, Roster!IInv, db.published, ~hist.crossed
               PROVE  /\ Roster!Apart(db.duties)
                      /\ \A no \in 1..Slots : db.duties[no].group \notin Reserve
    BY DEF Roster!PublishedIsClean
  <2> QED
    BY DEF Roster!IInv, Roster!CleanInv, Roster!SlotsInv
<1>2. CASE Roster!RosterAssumption
  <2>1. Roster!IInv => Roster!PublishedIsClean
    BY <1>1, <1>2
  <2> QED
    BY <1>2, <2>1, RosterInvHolds, PTL
<1> QED
  BY <1>2

\* Three statements change the group of a duty: each is of a request that read the chart.
LEMMA RosterRegrouping ==
  ASSUME Roster!IInv, Roster!RosterAssumption, Roster!Next, NEW no \in DOMAIN db.duties, Roster!Regrouped(no)
  PROVE  \E r \in wire \ wire' :
            /\ r.phase \in Roster!Holding /\ (Roster!Late(r) \/ Roster!Knows(r))
            /\ \/ r.kind = "assign" /\ r.no = no
                  /\ (r.published => db'.duties[no].overrides > db.duties[no].overrides)
               \/ r.kind = "rotate" /\ r.phase = "read" /\ r.solved[no] # None
               \/ r.phase = "mended" /\ r.solved[no] \notin {None, db.duties[no].group}
<1>1. db'.duties # db.duties
  BY DEF Roster!Regrouped
<1>2. ASSUME NEW r \in wire, r.phase \in Roster!Holding PROVE Roster!Late(r) \/ Roster!Knows(r)
  BY <1>2 DEF Roster!IInv, Roster!ReadInv
<1>3. no \in Roster!Numbers /\ db.duties[no] \in Roster!Duties
  BY DEF Roster!IInv, Roster!TypeOK
<1>4. ASSUME NEW r \in wire, Roster!SaveAssign(r)
      PROVE  /\ r \notin wire' /\ r.phase = "read" /\ r.kind = "assign" /\ r.no = no
             /\ r.published => db'.duties[no].overrides > db.duties[no].overrides
  <2>1. r.phase = "read" /\ r.kind = "assign"
            /\ db' = [db EXCEPT !.duties = [db.duties EXCEPT ![r.no] = Roster!Reassigned(r)]]
    BY <1>4 DEF Roster!SaveAssign, Roster!Save
  <2>2. db'.duties = [db.duties EXCEPT ![r.no] = Roster!Reassigned(r)]
    BY <2>1 DEF Roster!IInv, Roster!TypeOK
  <2>3. r.no = no
    BY <2>2 DEF Roster!Regrouped
  <2>4. db'.duties[no] = Roster!Reassigned(r)
    BY <2>2, <2>3
  <2>5. r.published => db'.duties[no].overrides = db.duties[no].overrides + 1
    BY <2>3, <2>4, <1>3 DEF Roster!Reassigned, Roster!Duties
  <2>6. r \notin wire'
    <3>1. r \in Roster!Requests
      BY DEF Roster!IInv, Roster!TypeOK
    <3>2. PICK cell : Roster!Tell(r, cell)
      BY <1>4 DEF Roster!SaveAssign
    <3>3. [r EXCEPT !.phase = "ok", !.cell = cell].phase = "ok"
      BY <3>1 DEF Roster!Requests
    <3> QED
      BY <2>1, <3>2, <3>3 DEF Roster!Tell
  <2>7. db.duties[no].overrides \in Nat
    BY <1>3 DEF Roster!Duties
  <2> QED
    BY <2>1, <2>3, <2>5, <2>6, <2>7
<1>5. ASSUME NEW r \in wire, Roster!SaveRotate(r)
      PROVE  r \notin wire' /\ r.phase = "read" /\ r.kind = "rotate" /\ r.solved[no] # None
  <2>1. r.phase = "read" /\ r.kind = "rotate" /\ Roster!Replace(r, [r EXCEPT !.phase = "solved"])
    BY <1>5 DEF Roster!SaveRotate
  <2>2. [r EXCEPT !.phase = "solved"].phase = "solved"
    BY DEF Roster!IInv, Roster!TypeOK, Roster!Requests
  <2>3. db'.duties = [n \in DOMAIN db.duties |->
                        IF r.solved[n] = None THEN db.duties[n]
                        ELSE [db.duties[n] EXCEPT !.group = r.solved[n], !.source = "GENERATED"]]
    BY <1>5 DEF Roster!SaveRotate, Roster!Save, Roster!IInv, Roster!TypeOK
  <2> QED
    BY <2>1, <2>2, <2>3 DEF Roster!Replace, Roster!Regrouped
<1>6. ASSUME NEW r \in wire, Roster!SaveRepair(r)
      PROVE  r \notin wire' /\ r.phase = "mended" /\ r.solved[no] \notin {None, db.duties[no].group}
  <2>1. r.phase = "mended" /\ Roster!Answer(r, "ok")
    BY <1>6 DEF Roster!SaveRepair
  <2>2. [r EXCEPT !.phase = "ok"].phase = "ok"
    BY DEF Roster!IInv, Roster!TypeOK, Roster!Requests
  <2>3. db'.duties = [n \in DOMAIN db.duties |->
                        IF r.solved[n] = None THEN db.duties[n]
                        ELSE [db.duties[n] EXCEPT !.group = r.solved[n]]]
    BY <1>6 DEF Roster!SaveRepair, Roster!Save, Roster!IInv, Roster!TypeOK
  <2>4. db'.duties[no] = IF r.solved[no] = None THEN db.duties[no]
                         ELSE [db.duties[no] EXCEPT !.group = r.solved[no]]
    BY <2>3
  <2>5. r.solved[no] # None /\ db'.duties[no].group = r.solved[no]
    BY <1>3, <2>4 DEF Roster!Regrouped, Roster!Duties
  <2> QED
    BY <2>1, <2>2, <2>5 DEF Roster!Answer, Roster!Regrouped
<1>7. \E r \in wire : Roster!SaveAssign(r) \/ Roster!SaveRotate(r) \/ Roster!SaveRepair(r)
  <2>1. db' # db
    BY <1>1
  <2>2. ASSUME NEW r \in wire, Roster!ServeLock(r) PROVE FALSE
    <3>1. db'.duties = [db.duties EXCEPT ![r.no].locked = r.locked]
      BY <2>2 DEF Roster!ServeLock, Roster!Save, Roster!IInv, Roster!TypeOK
    <3>2. db'.duties[no].group = db.duties[no].group
      BY <3>1, <1>3 DEF Roster!Duties
    <3> QED
      BY <3>2 DEF Roster!Regrouped
  <2>3. ASSUME NEW r \in wire, Roster!ServePolicy(r) \/ Roster!SavePublish(r) PROVE FALSE
    BY <1>1, <2>3 DEF Roster!ServePolicy, Roster!SavePublish, Roster!IInv, Roster!TypeOK
  <2>4. ASSUME NEW r \in wire, Roster!SaveSurge(r) PROVE FALSE
    <3>1. PICK new \in Roster!Following :
            Roster!Save(r, [n \in DOMAIN db.duties \cup {new} |->
                        IF n = new THEN [group |-> r.group, source |-> "RESERVE_FILL", locked |-> FALSE,
                            overrides |-> 1]
                        ELSE db.duties[n]])
      BY <2>1, <2>4 DEF Roster!SaveSurge, Roster!Refuse
    <3>2. db'.duties[no] = db.duties[no]
      BY <3>1 DEF Roster!Save, Roster!Following, Roster!IInv, Roster!TypeOK
    <3> QED
      BY <3>2 DEF Roster!Regrouped
  <2>5. ~RosterSubmits
    BY <2>1, RosterSent DEF Roster!IInv
  <2>6. ~Roster!GiveUp
    BY <2>1 DEF Roster!GiveUp
  <2>7. ~(\/ Roster!OpenGrid \/ Roster!LoadChart \/ Roster!Browse
          \/ Roster!CloseDuty \/ Roster!OpenPolicy \/ Roster!ClosePolicy
          \/ \E n \in Roster!OnGrid : Roster!OpenDuty(n)
          \/ \E group \in Roster!Groups \cup {None} : Roster!ChooseGroup(group))
    BY <2>1, RosterPageTypes DEF Roster!IInv
  <2>8. ASSUME NEW r \in wire,
               \/ Roster!ReadAssign(r) \/ Roster!ReadPublish(r) \/ Roster!ReadSurge(r) \/ Roster!ReadRotate(r)
                      \/ Roster!ReadRepair(r)
               \/ Roster!ServeSubstitute(r) \/ Roster!Succeed(r) \/ Roster!Fail(r)
        PROVE  FALSE
    BY <2>1, <2>8 DEF Roster!ReadAssign, Roster!ReadPublish, Roster!ReadSurge, Roster!ReadRotate,
       Roster!ReadRepair, Roster!Read, Roster!Refuse, Roster!ServeSubstitute,
                      Roster!Succeed, Roster!Fail
  <2> QED
    BY <2>2, <2>3, <2>4, <2>5, <2>6, <2>7, <2>8 DEF Roster!Next, RosterSubmits
<1>8. PICK r \in wire : Roster!SaveAssign(r) \/ Roster!SaveRotate(r) \/ Roster!SaveRepair(r)
  BY <1>7
<1>9. r \notin wire' /\ r.phase \in Roster!Holding
  BY <1>4, <1>5, <1>6, <1>8 DEF Roster!Holding
<1> QED
  BY <1>2, <1>4, <1>5, <1>6, <1>8, <1>9

\* A rotation leaves alone what a planner set by hand or locked: of the requests that
\* regroup a duty only an assignment does so to one that was not generated, and none
\* to a locked one but by the repair or after others wrote.
THEOREM RosterChoiceStays == Roster!RosterAssumption /\ Roster!Spec => [][Roster!PlannersChoiceStays]_deskVars
<1>1. ASSUME Roster!RosterAssumption, Roster!IInv, Roster!Next PROVE Roster!PlannersChoiceStays
  <2> SUFFICES ASSUME NEW no \in DOMAIN db.duties, Roster!Regrouped(no),
                      \/ db.duties[no].locked
                      \/ db.duties[no].group # None /\ db.duties[no].source # "GENERATED"
               PROVE  \E r \in wire \ wire' :
                        \/ Roster!Late(r)
                        \/ r.kind = "assign" /\ r.no = no /\ ~db.duties[no].locked
                        \/ r.phase = "mended" /\ db.duties[no].source = "GENERATED"
    BY DEF Roster!PlannersChoiceStays
  <2>1. PICK r \in wire \ wire' :
            /\ r.phase \in Roster!Holding /\ (Roster!Late(r) \/ Roster!Knows(r))
            /\ \/ r.kind = "assign" /\ r.no = no
               \/ r.kind = "rotate" /\ r.phase = "read" /\ r.solved[no] # None
               \/ r.phase = "mended" /\ r.solved[no] \notin {None, db.duties[no].group}
    BY <1>1, RosterRegrouping
  <2>2. no \in Roster!Numbers
    BY <1>1 DEF Roster!IInv, Roster!TypeOK
  <2>3. CASE r.kind = "assign" /\ r.no = no
    BY <2>1, <2>3 DEF Roster!Knows
  <2>4. CASE r.kind = "rotate" /\ r.phase = "read" /\ r.solved[no] # None
    BY <2>1, <2>2, <2>4 DEF Roster!Knows, Roster!Editable
  <2>5. CASE r.phase = "mended" /\ r.solved[no] \notin {None, db.duties[no].group}
    <3>1. Roster!Knows(r) => db.duties[no].source = "GENERATED"
      BY <2>2, <2>5 DEF Roster!Knows, Roster!Repairs
    <3> QED
      BY <2>1, <2>5, <3>1
  <2> QED
    BY <2>1, <2>3, <2>4, <2>5
<1>2. CASE Roster!RosterAssumption
  <2>1. Roster!IInv /\ [Roster!Next]_deskVars => [Roster!PlannersChoiceStays]_deskVars
    BY <1>1, <1>2
  <2> QED
    BY <1>2, <2>1, RosterInvHolds, PTL DEF Roster!Spec, Roster!deskVars, deskVars
<1> QED
  BY <1>2

\* Once published, a duty gets another group on record only, but for what was under
\* way: an assignment read that the chart is published, and no rotation starts.
THEOREM RosterOnRecord == Roster!RosterAssumption /\ Roster!Spec => [][Roster!PublishedChangeIsOnRecord]_deskVars
<1>1. ASSUME Roster!RosterAssumption, Roster!IInv, Roster!Next PROVE Roster!PublishedChangeIsOnRecord
  <2> SUFFICES ASSUME NEW no \in DOMAIN db.duties, db.published, Roster!Regrouped(no)
               PROVE  \/ db'.duties[no].overrides > db.duties[no].overrides
                      \/ \E r \in wire \ wire' : Roster!Late(r) \/ r.phase = "mended"
    BY DEF Roster!PublishedChangeIsOnRecord
  <2>1. PICK r \in wire \ wire' :
            /\ r.phase \in Roster!Holding /\ (Roster!Late(r) \/ Roster!Knows(r))
            /\ \/ r.kind = "assign" /\ (r.published => db'.duties[no].overrides > db.duties[no].overrides)
               \/ r.kind = "rotate" /\ r.phase = "read"
               \/ r.phase = "mended"
    BY <1>1, RosterRegrouping
  <2> QED
    BY <2>1 DEF Roster!Knows
<1>2. CASE Roster!RosterAssumption
  <2>1. Roster!IInv /\ [Roster!Next]_deskVars => [Roster!PublishedChangeIsOnRecord]_deskVars
    BY <1>1, <1>2
  <2> QED
    BY <1>2, <2>1, RosterInvHolds, PTL DEF Roster!Spec, Roster!deskVars, deskVars
<1> QED
  BY <1>2

\* ---- the routes -----------------------------------------------------------------------

\* What a route may have for a path it may have whatever becomes of the others.
RouteKeeps(rows, new) ==
    \A i \in DOMAIN rows : i \in DOMAIN new /\ new[i].early = rows[i].early /\ new[i].ends = rows[i].ends

LEMMA RouteFitsKept ==
  ASSUME NEW rows, NEW new, RouteKeeps(rows, new), NEW i, NEW path, Routes!Fits(rows, i, path)
  PROVE  Routes!Fits(new, i, path)
  BY DEF Routes!Fits, RouteKeeps

\* -- the page alone

\* A step that leaves the rows, the list, the dialog, the edit form and the
\* requests alone.
LEMMA RouteDraftSteps ==
  ASSUME Routes!IInv, UNCHANGED <<db, shown, due, dialog, wire>>, form' \in Routes!Forms, form'.edit = form.edit,
         hist' \in [opens: Nat, sends: Nat, asks: Nat, crossed: BOOLEAN], Routes!DraftInv'
  PROVE  Routes!IInv'
<1>1. Routes!TypeOK'
  BY DEF Routes!IInv, Routes!TypeOK
<1>2. Routes!StoreInv' /\ Routes!WireInv'
  BY DEF Routes!IInv, Routes!StoreInv, Routes!WireInv
<1>3. Routes!PageInv'
  BY DEF Routes!IInv, Routes!PageInv
<1> QED
  BY <1>1, <1>2, <1>3 DEF Routes!IInv

\* A step that leaves the draft, what it waits for and the rows alone.
LEMMA RouteDraftAlike ==
  ASSUME Routes!IInv, UNCHANGED <<form, hist>>
  PROVE  Routes!DraftInv'
  BY DEF Routes!IInv, Routes!DraftInv, Routes!Live

LEMMA RoutePicksTyped ==
  ASSUME NEW ends \in Routes!Ends, NEW b \in Routes!Boxes, NEW p \in Places, Routes!RouteAssumption
  PROVE  /\ [ends EXCEPT ![b] = p] \in Routes!Ends
         /\ [ends EXCEPT ![b] = p][b] = p /\ p # None
         /\ \A c \in Routes!Boxes \ {b} : [ends EXCEPT ![b] = p][c] = ends[c]
         /\ Routes!Complete(ends) => Routes!Complete([ends EXCEPT ![b] = p])
  BY DEF Routes!Ends, Routes!Complete, Routes!RouteAssumption

LEMMA RouteSelectKeeps ==
  ASSUME Routes!RouteAssumption, Routes!IInv, NEW b \in Routes!Boxes, NEW p \in Places, Routes!HandleSelect(b, p)
  PROVE  Routes!IInv'
<1> DEFINE d == form.draft
           t == [d.text EXCEPT ![b] = p]
<1>1. form \in Routes!Forms /\ d \in Routes!Drafts /\ hist \in [opens: Nat, sends: Nat, asks: Nat, crossed: BOOLEAN]
  BY DEF Routes!IInv, Routes!TypeOK, Routes!Forms
<1>2. t \in Routes!Ends /\ t[b] = p /\ \A c \in Routes!Boxes \ {b} : t[c] = d.text[c]
  BY <1>1, RoutePicksTyped DEF Routes!Drafts
<1>3. form' = [form EXCEPT !.draft = [d EXCEPT !.text = t], !.places = @ \cup {[box |-> b, place |-> p]}]
  BY <1>1 DEF Routes!HandleSelect, Routes!Page, Routes!Forms, Routes!Drafts
<1>4. UNCHANGED <<db, shown, due, dialog, wire>> /\ hist' = [hist EXCEPT !.asks = @ + 1]
  BY DEF Routes!HandleSelect, Routes!Page
<1> HIDE DEF t
<1>5. /\ form'.places = form.places \cup {[box |-> b, place |-> p]} /\ form'.roads = form.roads
      /\ form'.edit = form.edit /\ form'.draft = [d EXCEPT !.text = t]
  BY <1>1, <1>3 DEF Routes!Forms
<1>6. /\ form'.draft.text = t /\ form'.draft.pick = d.pick /\ form'.draft.path = d.path
      /\ form'.draft.options = d.options /\ form'.draft.failed = d.failed
  BY <1>1, <1>5 DEF Routes!Drafts
<1>7. form'.draft \in Routes!Drafts
  BY <1>1, <1>2, <1>5 DEF Routes!Drafts
<1>8. form' \in Routes!Forms
  <2>1. form'.places \in SUBSET [box: Routes!Boxes, place: Places]
    BY <1>1, <1>5 DEF Routes!Forms
  <2> QED
    BY <1>1, <1>3, <1>7, <1>5, <2>1 DEF Routes!Forms
<1>9. hist' \in [opens: Nat, sends: Nat, asks: Nat, crossed: BOOLEAN] /\ hist'.crossed = hist.crossed
  BY <1>1, <1>4
<1>10. Routes!DraftInv'
  <2>1. hist'.crossed \/ \A c \in Routes!Boxes : \/ form'.draft.pick[c] = form'.draft.text[c]
                                          \/ [box |-> c, place |-> form'.draft.text[c]] \in form'.places
    BY <1>2, <1>5, <1>6, <1>9 DEF Routes!IInv, Routes!DraftInv
  <2>2. Routes!Live' <=> Routes!Live
    BY <1>5 DEF Routes!Live
  <2> QED
    BY <1>5, <1>6, <2>1, <2>2 DEF Routes!IInv, Routes!DraftInv
<1> QED
  BY <1>4, <1>5, <1>8, <1>9, <1>10, RouteDraftSteps

LEMMA RouteRoadsAsked ==
  ASSUME NEW pick \in Routes!Ends, NEW roads \in SUBSET [of: Routes!Ends, live: BOOLEAN]
  PROVE  /\ Routes!AskRoads(pick, roads) \in SUBSET [of: Routes!Ends, live: BOOLEAN]
         /\ \A q \in Routes!AskRoads(pick, roads) : q.live => q.of = pick /\ Routes!Complete(pick)
         /\ Routes!Complete(pick) => \E q \in Routes!AskRoads(pick, roads) : q.live
         /\ Routes!Cancelled(roads) \in SUBSET [of: Routes!Ends, live: BOOLEAN]
         /\ \A q \in Routes!Cancelled(roads) : ~q.live
<1>1. \A q \in Routes!Cancelled(roads) : q \in [of: Routes!Ends, live: BOOLEAN] /\ ~q.live
  BY DEF Routes!Cancelled
<1> DEFINE new == [of |-> pick, live |-> TRUE]
<1>2. new \in [of: Routes!Ends, live: BOOLEAN] /\ new.live /\ new.of = pick
  OBVIOUS
<1>3. Routes!AskRoads(pick, roads) = Routes!Cancelled(roads) \cup (IF Routes!Complete(pick) THEN {new} ELSE {})
  BY DEF Routes!AskRoads
<1> HIDE DEF new
<1>4. CASE Routes!Complete(pick)
  <2>1. Routes!AskRoads(pick, roads) = Routes!Cancelled(roads) \cup {new}
    BY <1>3, <1>4
  <2> QED
    BY <1>1, <1>2, <1>4, <2>1
<1>5. CASE ~Routes!Complete(pick)
  <2>1. Routes!AskRoads(pick, roads) = Routes!Cancelled(roads)
    BY <1>3, <1>5
  <2> QED
    BY <1>1, <1>5, <2>1
<1> QED
  BY <1>4, <1>5

LEMMA RoutePlaceFoundKeeps ==
  ASSUME Routes!RouteAssumption, Routes!IInv, NEW q \in form.places, Routes!PlaceFound(q)
  PROVE  Routes!IInv'
<1> DEFINE d == form.draft
           pick == [d.pick EXCEPT ![q.box] = q.place]
           roads == Routes!AskRoads(pick, form.roads)
<1>1. form \in Routes!Forms /\ d \in Routes!Drafts /\ hist \in [opens: Nat, sends: Nat, asks: Nat, crossed: BOOLEAN]
      /\ q \in [box: Routes!Boxes, place: Places]
  BY DEF Routes!IInv, Routes!TypeOK, Routes!Forms
<1>2. /\ pick \in Routes!Ends /\ pick[q.box] = q.place /\ \A c \in Routes!Boxes \ {q.box} : pick[c] = d.pick[c]
      /\ Routes!Complete(d.pick) => Routes!Complete(pick)
  BY <1>1, RoutePicksTyped DEF Routes!Drafts
<1>3. form' = [form EXCEPT !.draft = [d EXCEPT !.pick = pick, !.failed = FALSE],
                           !.places = @ \ {q}, !.roads = roads]
  BY <1>1 DEF Routes!PlaceFound, Routes!Page, Routes!Forms, Routes!Drafts
<1>4. UNCHANGED <<db, shown, due, dialog, wire>>
  BY DEF Routes!PlaceFound, Routes!Page
<1>5. /\ roads \in SUBSET [of: Routes!Ends, live: BOOLEAN]
      /\ \A r \in roads : r.live => r.of = pick /\ Routes!Complete(pick)
      /\ Routes!Complete(pick) => \E r \in roads : r.live
  BY <1>1, <1>2, RouteRoadsAsked DEF Routes!Forms
<1>6. PICK crossed \in BOOLEAN : crossed = (hist.crossed \/ d.text[q.box] # q.place)
  OBVIOUS
<1>7. hist' = [hist EXCEPT !.crossed = crossed]
  BY <1>6 DEF Routes!PlaceFound
<1>8. hist' \in [opens: Nat, sends: Nat, asks: Nat, crossed: BOOLEAN] /\ hist'.crossed = crossed
  BY <1>1, <1>7
<1> HIDE DEF pick, roads
<1>9. /\ form'.places = form.places \ {q} /\ form'.roads = roads
      /\ form'.edit = form.edit /\ form'.draft = [d EXCEPT !.pick = pick, !.failed = FALSE]
  BY <1>1, <1>3 DEF Routes!Forms
<1>10. /\ form'.draft.text = d.text /\ form'.draft.pick = pick /\ form'.draft.path = d.path
       /\ form'.draft.options = d.options /\ form'.draft.failed = FALSE
  BY <1>1, <1>9 DEF Routes!Drafts
<1>11. form'.draft \in Routes!Drafts
  BY <1>1, <1>2, <1>9 DEF Routes!Drafts
<1>12. form' \in Routes!Forms
  <2>1. form'.places \in SUBSET [box: Routes!Boxes, place: Places]
    BY <1>1, <1>9 DEF Routes!Forms
  <2> QED
    BY <1>1, <1>3, <1>5, <1>9, <1>11, <2>1 DEF Routes!Forms
<1>13. Routes!DraftInv'
  <2>1. ASSUME ~crossed, NEW c \in Routes!Boxes
        PROVE  \/ form'.draft.pick[c] = form'.draft.text[c]
               \/ [box |-> c, place |-> form'.draft.text[c]] \in form'.places
    <3>1. CASE c = q.box
      BY <1>2, <1>6, <1>10, <2>1, <3>1
    <3>2. CASE c # q.box
      <4>1. d.pick[c] = d.text[c] \/ [box |-> c, place |-> d.text[c]] \in form.places
        BY <1>6, <2>1 DEF Routes!IInv, Routes!DraftInv
      <4>2. [box |-> c, place |-> d.text[c]] # q
        BY <3>2
      <4> QED
        BY <1>2, <1>9, <1>10, <2>1, <3>2, <4>1, <4>2
    <3> QED
      BY <3>1, <3>2
  <2>2. Routes!Complete(pick) => Routes!Live'
    BY <1>5, <1>9 DEF Routes!Live
  <2>3. (d.path # None /\ ~d.path.hand) \/ d.options # None => Routes!Complete(d.pick)
    BY DEF Routes!IInv, Routes!DraftInv
  <2> QED
    BY <1>2, <1>5, <1>8, <1>9, <1>10, <2>1, <2>2, <2>3 DEF Routes!DraftInv
<1> QED
  BY <1>4, <1>8, <1>9, <1>12, <1>13, RouteDraftSteps

LEMMA RoutePlaceLostKeeps ==
  ASSUME Routes!IInv, NEW q \in form.places, Routes!PlaceLost(q)
  PROVE  Routes!IInv'
<1>1. form \in Routes!Forms /\ hist \in [opens: Nat, sends: Nat, asks: Nat, crossed: BOOLEAN]
  BY DEF Routes!IInv, Routes!TypeOK
<1>2. form' = [form EXCEPT !.places = @ \ {q}] /\ UNCHANGED <<db, shown, due, dialog, wire>>
      /\ hist' = [hist EXCEPT !.crossed = TRUE]
  BY DEF Routes!PlaceLost, Routes!Page
<1>3. form' \in Routes!Forms /\ form'.edit = form.edit /\ form'.draft = form.draft /\ form'.roads = form.roads
  BY <1>1, <1>2 DEF Routes!Forms
<1>4. hist' \in [opens: Nat, sends: Nat, asks: Nat, crossed: BOOLEAN] /\ hist'.crossed = TRUE
  BY <1>1, <1>2
<1>5. Routes!DraftInv'
  BY <1>3, <1>4 DEF Routes!IInv, Routes!DraftInv, Routes!Live
<1> QED
  BY <1>2, <1>3, <1>4, <1>5, RouteDraftSteps

\* What the answer for a road makes of the draft, be it found or not.
LEMMA RouteRoadsKeep ==
  ASSUME Routes!IInv, NEW q \in form.roads, NEW d \in Routes!Drafts,
         form' = [form EXCEPT !.roads = @ \ {q}, !.draft = d],
         UNCHANGED <<db, shown, due, dialog, wire, hist>>,
         d.text = form.draft.text /\ d.pick = form.draft.pick,
         \/ ~q.live /\ d = form.draft
         \/ q.live /\ d.options = q.of /\ d.path = [of |-> q.of, hand |-> FALSE]
         \/ q.live /\ d.options = None /\ d.failed /\ d.path = form.draft.path
  PROVE  Routes!IInv'
<1>1. form \in Routes!Forms /\ hist \in [opens: Nat, sends: Nat, asks: Nat, crossed: BOOLEAN]
  BY DEF Routes!IInv, Routes!TypeOK
<1>2. /\ form' \in Routes!Forms /\ form'.edit = form.edit /\ form'.draft = d
      /\ form'.roads = form.roads \ {q} /\ form'.places = form.places
  BY <1>1 DEF Routes!Forms
<1>3. q.live => q.of = form.draft.pick /\ Routes!Complete(form.draft.pick)
  BY DEF Routes!IInv, Routes!DraftInv
<1>4. ~q.live => (Routes!Live' <=> Routes!Live)
  BY <1>2 DEF Routes!Live
<1>5. Routes!DraftInv'
  <2>1. hist'.crossed \/ \A c \in Routes!Boxes : \/ form'.draft.pick[c] = form'.draft.text[c]
                                          \/ [box |-> c, place |-> form'.draft.text[c]] \in form'.places
    BY <1>2 DEF Routes!IInv, Routes!DraftInv
  <2>2. \A r \in form'.roads : r.live => r.of = form'.draft.pick /\ Routes!Complete(form'.draft.pick)
    BY <1>2 DEF Routes!IInv, Routes!DraftInv
  <2>3. CASE ~q.live /\ d = form.draft
    BY <1>2, <1>4, <2>1, <2>2, <2>3 DEF Routes!IInv, Routes!DraftInv
  <2>4. CASE q.live /\ d.options = q.of /\ d.path = [of |-> q.of, hand |-> FALSE]
    BY <1>2, <1>3, <2>1, <2>2, <2>4 DEF Routes!DraftInv
  <2>5. CASE q.live /\ d.options = None /\ d.failed /\ d.path = form.draft.path
    BY <1>2, <1>3, <2>1, <2>2, <2>5 DEF Routes!DraftInv
  <2> QED
    BY <2>3, <2>4, <2>5
<1> QED
  BY <1>1, <1>2, <1>5, RouteDraftSteps

LEMMA RouteRoadsFoundKeeps ==
  ASSUME Routes!IInv, NEW q \in form.roads, Routes!RoadsFound(q) \/ Routes!RoadsLost(q)
  PROVE  Routes!IInv'
<1>1. form \in Routes!Forms /\ form.draft \in Routes!Drafts /\ q \in [of: Routes!Ends, live: BOOLEAN]
  BY DEF Routes!IInv, Routes!TypeOK, Routes!Forms
<1>2. UNCHANGED <<db, shown, due, dialog, wire, hist>>
  BY DEF Routes!RoadsFound, Routes!RoadsLost, Routes!Page
<1> DEFINE found == [form.draft EXCEPT !.options = q.of, !.path = [of |-> q.of, hand |-> FALSE]]
           lost == [form.draft EXCEPT !.options = None, !.failed = TRUE]
<1>3. [of |-> q.of, hand |-> FALSE] \in Routes!Path
  BY <1>1 DEF Routes!Path
<1>4. /\ found \in Routes!Drafts /\ found.text = form.draft.text /\ found.pick = form.draft.pick
      /\ found.options = q.of /\ found.path = [of |-> q.of, hand |-> FALSE]
  BY <1>1, <1>3 DEF Routes!Drafts, Routes!Paths
<1>5. /\ lost \in Routes!Drafts /\ lost.text = form.draft.text /\ lost.pick = form.draft.pick
      /\ lost.options = None /\ lost.failed /\ lost.path = form.draft.path
  BY <1>1 DEF Routes!Drafts
<1>6. CASE Routes!RoadsFound(q)
  <2>1. form' = [form EXCEPT !.roads = @ \ {q}, !.draft = IF q.live THEN found ELSE form.draft]
    BY <1>1, <1>6 DEF Routes!RoadsFound, Routes!Page, Routes!Forms
  <2> HIDE DEF found, lost
  <2>2. CASE q.live
    BY <1>1, <1>2, <1>4, <2>1, <2>2, RouteRoadsKeep
  <2>3. CASE ~q.live
    BY <1>1, <1>2, <2>1, <2>3, RouteRoadsKeep
  <2> QED
    BY <2>2, <2>3
<1>7. CASE Routes!RoadsLost(q)
  <2>1. form' = [form EXCEPT !.roads = @ \ {q}, !.draft = IF q.live THEN lost ELSE form.draft]
    BY <1>1, <1>7 DEF Routes!RoadsLost, Routes!Page, Routes!Forms
  <2> HIDE DEF found, lost
  <2>2. CASE q.live
    BY <1>1, <1>2, <1>5, <2>1, <2>2, RouteRoadsKeep
  <2>3. CASE ~q.live
    BY <1>1, <1>2, <2>1, <2>3, RouteRoadsKeep
  <2> QED
    BY <2>2, <2>3
<1> QED
  BY <1>6, <1>7

\* Another road, or a hand at the map.
LEMMA RouteRedrawKeeps ==
  ASSUME Routes!IInv, NEW path \in Routes!Paths, Routes!Page([form EXCEPT !.draft.path = path]), UNCHANGED hist,
         path # None /\ ~path.hand =>
            Routes!Complete(form.draft.pick) /\ (form.draft.failed \/ path.of = form.draft.pick \/ Routes!Live)
  PROVE  Routes!IInv'
<1>1. form \in Routes!Forms /\ form.draft \in Routes!Drafts
  BY DEF Routes!IInv, Routes!TypeOK, Routes!Forms
<1> DEFINE d == [form.draft EXCEPT !.path = path]
<1>2. form' = [form EXCEPT !.draft = d] /\ UNCHANGED <<db, shown, due, dialog, wire>>
  BY <1>1 DEF Routes!Page, Routes!Forms
<1>3. /\ d \in Routes!Drafts /\ d.text = form.draft.text /\ d.pick = form.draft.pick /\ d.path = path
      /\ d.options = form.draft.options /\ d.failed = form.draft.failed
  BY <1>1 DEF Routes!Drafts
<1> HIDE DEF d
<1>4. /\ form' \in Routes!Forms /\ form'.edit = form.edit /\ form'.draft = d
      /\ form'.roads = form.roads /\ form'.places = form.places
  BY <1>1, <1>2, <1>3 DEF Routes!Forms
<1>5. Routes!Live' <=> Routes!Live
  BY <1>4 DEF Routes!Live
<1>6. Routes!DraftInv'
  BY <1>3, <1>4, <1>5 DEF Routes!IInv, Routes!DraftInv
<1>7. hist' \in [opens: Nat, sends: Nat, asks: Nat, crossed: BOOLEAN]
  BY DEF Routes!IInv, Routes!TypeOK
<1> QED
  BY <1>2, <1>4, <1>6, <1>7, RouteDraftSteps

LEMMA RouteHandKeeps ==
  ASSUME NEW path \in Routes!Paths
  PROVE  Routes!ByHand(path) \in Routes!Paths /\ Routes!ByHand(path).hand
<1>1. Routes!NoEnds \in Routes!Ends
  BY DEF Routes!NoEnds, Routes!Ends
<1>2. path # None => path.of \in Routes!Ends
  BY DEF Routes!Paths, Routes!Path
<1> QED
  BY <1>1, <1>2 DEF Routes!ByHand, Routes!Paths, Routes!Path

LEMMA RouteDrawingKeeps ==
  ASSUME Routes!IInv, Routes!ChooseOption \/ Routes!Redraw
  PROVE  Routes!IInv'
<1>1. form.draft \in Routes!Drafts
  BY DEF Routes!IInv, Routes!TypeOK, Routes!Forms
<1>2. CASE Routes!ChooseOption
  <2> DEFINE path == [of |-> form.draft.options, hand |-> FALSE]
  <2>1. form.draft.options # None /\ Routes!Page([form EXCEPT !.draft.path = path]) /\ UNCHANGED hist
    BY <1>2 DEF Routes!ChooseOption
  <2>2. path \in Routes!Paths /\ path.of = form.draft.options
    BY <1>1, <2>1 DEF Routes!Drafts, Routes!Paths, Routes!Path
  <2> HIDE DEF path
  <2> QED
    BY <2>1, <2>2, RouteRedrawKeeps DEF Routes!IInv, Routes!DraftInv
<1>3. CASE Routes!Redraw
  <2>1. PICK path \in {None, Routes!ByHand(form.draft.path)} : Routes!Page([form EXCEPT !.draft.path = path])
    BY <1>3 DEF Routes!Redraw
  <2>2. path \in Routes!Paths /\ (path # None => path.hand)
    BY <1>1, <2>1, RouteHandKeeps DEF Routes!Drafts, Routes!Paths
  <2> QED
    BY <1>3, <2>1, <2>2, RouteRedrawKeeps DEF Routes!Redraw
<1> QED
  BY <1>2, <1>3

\* -- the dialogs

\* A step that leaves the rows and the draft alone.
LEMMA RouteDialogSteps ==
  ASSUME Routes!IInv, UNCHANGED <<db, wire>>, form' \in Routes!Forms, form'.draft = form.draft,
         form'.places = form.places, form'.roads = form.roads,
         hist' \in [opens: Nat, sends: Nat, asks: Nat, crossed: BOOLEAN], hist'.crossed = hist.crossed,
         due' \subseteq {"routes"}, dialog' = None \/ dialog' \in Routes!Dialogs,
         \A i \in DOMAIN shown'["routes"] : shown'["routes"][i] \in Routes!Paths,
         Routes!PageInv'
  PROVE  Routes!IInv'
<1>1. Routes!TypeOK'
  BY DEF Routes!IInv, Routes!TypeOK
<1>2. Routes!StoreInv' /\ Routes!WireInv'
  BY DEF Routes!IInv, Routes!StoreInv, Routes!WireInv
<1>3. Routes!DraftInv'
  BY DEF Routes!IInv, Routes!DraftInv, Routes!Live
<1> QED
  BY <1>1, <1>2, <1>3 DEF Routes!IInv

LEMMA RouteListKeeps ==
  ASSUME Routes!IInv, Routes!LoadRoutes \/ Routes!Browse
  PROVE  Routes!IInv'
<1>1. UNCHANGED <<db, wire, form, dialog, hist>>
  BY DEF Routes!LoadRoutes, Routes!Browse, Routes!Arrive, Routes!Ask
<1>2. due' \subseteq {"routes"} /\ hist' \in [opens: Nat, sends: Nat, asks: Nat, crossed: BOOLEAN]
      /\ form' \in Routes!Forms /\ (dialog' = None \/ dialog' \in Routes!Dialogs)
  BY <1>1 DEF Routes!IInv, Routes!TypeOK, Routes!LoadRoutes, Routes!Browse, Routes!Arrive, Routes!Ask
<1> DEFINE rows == [i \in {j \in DOMAIN db : db[j].state # "deleted"} |-> db[i].path]
<1>3. shown' = shown \/ shown' = [shown EXCEPT !["routes"] = rows]
  BY DEF Routes!LoadRoutes, Routes!Browse, Routes!Arrive, Routes!Ask
<1>4. \A i \in DOMAIN rows : rows[i] \in Routes!Paths /\ Routes!Fits(db, i, rows[i])
  BY DEF Routes!IInv, Routes!TypeOK, Routes!Row, Routes!StoreInv
<1> HIDE DEF rows
<1>5. /\ shown' = [k \in {"routes"} |-> shown'[k]]
      /\ shown'["routes"] = shown["routes"] \/ shown'["routes"] = rows
  BY <1>3 DEF Routes!IInv, Routes!PageInv
<1>6. \A i \in DOMAIN shown'["routes"] : shown'["routes"][i] \in Routes!Paths /\ Routes!Fits(db, i,
          shown'["routes"][i])
  BY <1>4, <1>5 DEF Routes!IInv, Routes!TypeOK, Routes!PageInv
<1>7. Routes!PageInv'
  BY <1>1, <1>5, <1>6 DEF Routes!IInv, Routes!PageInv
<1> QED
  BY <1>1, <1>2, <1>6, <1>7, RouteDialogSteps

\* One of the dialogs over the page is opened, closed or taken for another.
LEMMA RouteDialogKeeps ==
  ASSUME Routes!IInv, UNCHANGED <<db, shown, due, wire>>,
         hist' = hist \/ hist' = [hist EXCEPT !.opens = @ + 1],
         NEW edit \in Routes!Paths, form' = [form EXCEPT !.edit = edit],
         dialog' = None \/ dialog' \in Routes!Dialogs,
         dialog' # None /\ dialog'.kind = "edit" => Routes!Fits(db, dialog'.id, edit),
         dialog' # None /\ dialog'.kind = "view" => Routes!Fits(db, dialog'.id, dialog'.seen),
         dialog' # None /\ dialog'.kind = "delete" => dialog'.id \in DOMAIN db
  PROVE  Routes!IInv'
<1>1. form \in Routes!Forms /\ hist \in [opens: Nat, sends: Nat, asks: Nat, crossed: BOOLEAN]
  BY DEF Routes!IInv, Routes!TypeOK
<1>2. /\ form' \in Routes!Forms /\ form'.draft = form.draft /\ form'.places = form.places
      /\ form'.roads = form.roads /\ form'.edit = edit
  BY <1>1 DEF Routes!Forms
<1>3. hist' \in [opens: Nat, sends: Nat, asks: Nat, crossed: BOOLEAN] /\ hist'.crossed = hist.crossed
  BY <1>1
<1>4. Routes!PageInv'
  BY <1>2 DEF Routes!IInv, Routes!PageInv
<1> QED
  BY <1>2, <1>3, <1>4, RouteDialogSteps DEF Routes!IInv, Routes!TypeOK

LEMMA RouteFormAlike ==
  ASSUME form \in Routes!Forms
  PROVE  form.edit \in Routes!Paths /\ form = [form EXCEPT !.edit = form.edit]
  BY DEF Routes!Forms

LEMMA RouteOpenKeeps ==
  ASSUME Routes!RouteAssumption, Routes!IInv,
         \/ Routes!HandleOpen \/ Routes!EditViewed
         \/ \E i \in DOMAIN shown["routes"] : Routes!OpenEdit(i) \/ Routes!OpenView(i) \/ Routes!OpenDelete(i)
  PROVE  Routes!IInv'
<1>1. form.edit \in Routes!Paths /\ form = [form EXCEPT !.edit = form.edit]
  BY RouteFormAlike DEF Routes!IInv, Routes!TypeOK
<1>2. \A i \in DOMAIN shown["routes"] : shown["routes"][i] \in Routes!Paths /\ Routes!Fits(db, i,
          shown["routes"][i])
                                       /\ i \in DOMAIN db /\ i \in Routes!Ids
  BY DEF Routes!IInv, Routes!PageInv, Routes!TypeOK, Routes!Fits
<1>3. CASE Routes!HandleOpen
  <2>1. dialog' = [kind |-> "create", id |-> None] /\ UNCHANGED <<db, shown, due, wire, form>>
        /\ hist' = [hist EXCEPT !.opens = @ + 1]
    BY <1>3 DEF Routes!HandleOpen, Routes!Open
  <2>2. dialog' \in Routes!Dialogs /\ dialog'.kind = "create"
    BY <2>1 DEF Routes!Dialogs
  <2> QED
    BY <1>1, <2>1, <2>2, RouteDialogKeeps
<1>4. CASE Routes!EditViewed
  <2>1. dialog \in Routes!Dialogs /\ dialog.kind = "view"
    BY <1>4 DEF Routes!EditViewed, Routes!IInv, Routes!TypeOK
  <2>2. dialog.id \in Routes!Ids /\ dialog.seen \in Routes!Paths
    BY <2>1 DEF Routes!Dialogs
  <2>3. dialog' = [kind |-> "edit", id |-> dialog.id] /\ form' = [form EXCEPT !.edit = dialog.seen]
        /\ UNCHANGED <<db, shown, due, wire, hist>>
    BY <1>4 DEF Routes!EditViewed
  <2>4. dialog' \in Routes!Dialogs /\ dialog'.kind = "edit" /\ dialog'.id = dialog.id
    BY <2>2, <2>3 DEF Routes!Dialogs
  <2>5. Routes!Fits(db, dialog.id, dialog.seen)
    BY <1>4 DEF Routes!EditViewed, Routes!IInv, Routes!PageInv
  <2> QED
    BY <2>2, <2>3, <2>4, <2>5, RouteDialogKeeps
<1>5. ASSUME NEW i \in DOMAIN shown["routes"], Routes!OpenEdit(i) PROVE Routes!IInv'
  <2>1. dialog' = [kind |-> "edit", id |-> i] /\ form' = [form EXCEPT !.edit = shown["routes"][i]]
        /\ UNCHANGED <<db, shown, due, wire>> /\ hist' = [hist EXCEPT !.opens = @ + 1]
    BY <1>5 DEF Routes!OpenEdit, Routes!Seed
  <2>2. dialog' \in Routes!Dialogs /\ dialog'.kind = "edit" /\ dialog'.id = i
    BY <1>2, <2>1 DEF Routes!Dialogs
  <2> QED
    BY <1>2, <2>1, <2>2, RouteDialogKeeps
<1>6. ASSUME NEW i \in DOMAIN shown["routes"], Routes!OpenView(i) PROVE Routes!IInv'
  <2>1. dialog' = [kind |-> "view", id |-> i, seen |-> shown["routes"][i]]
        /\ UNCHANGED <<db, shown, due, wire, form>> /\ hist' = [hist EXCEPT !.opens = @ + 1]
    BY <1>6 DEF Routes!OpenView, Routes!Open
  <2>2. dialog' \in Routes!Dialogs /\ dialog'.kind = "view" /\ dialog'.id = i /\ dialog'.seen = shown["routes"][i]
    BY <1>2, <2>1 DEF Routes!Dialogs
  <2> QED
    BY <1>1, <1>2, <2>1, <2>2, RouteDialogKeeps
<1>7. ASSUME NEW i \in DOMAIN shown["routes"], Routes!OpenDelete(i) PROVE Routes!IInv'
  <2>1. dialog' = [kind |-> "delete", id |-> i]
        /\ UNCHANGED <<db, shown, due, wire, form>> /\ hist' = [hist EXCEPT !.opens = @ + 1]
    BY <1>7 DEF Routes!OpenDelete, Routes!Open
  <2>2. dialog' \in Routes!Dialogs /\ dialog'.kind = "delete" /\ dialog'.id = i
    BY <1>2, <2>1 DEF Routes!Dialogs
  <2> QED
    BY <1>1, <1>2, <2>1, <2>2, RouteDialogKeeps
<1> QED
  BY <1>3, <1>4, <1>5, <1>6, <1>7

LEMMA RouteRedrawEditKeeps ==
  ASSUME Routes!IInv, Routes!RedrawEdit
  PROVE  Routes!IInv'
<1>1. PICK path \in {None, Routes!ByHand(form.edit)} :
        form' = [form EXCEPT !.edit = path] /\ UNCHANGED <<db, shown, due, dialog, wire>>
  BY DEF Routes!RedrawEdit, Routes!Page
<1>2. path \in Routes!Paths /\ (path # None => path.hand)
  BY <1>1, RouteFormAlike, RouteHandKeeps DEF Routes!IInv, Routes!TypeOK, Routes!Paths
<1>3. hist' = hist /\ dialog # None /\ dialog.kind = "edit"
  BY DEF Routes!RedrawEdit
<1>4. Routes!Fits(db, dialog.id, path)
  BY <1>2, <1>3 DEF Routes!IInv, Routes!PageInv, Routes!Fits
<1>5. dialog' = None \/ dialog' \in Routes!Dialogs
  BY <1>1 DEF Routes!IInv, Routes!TypeOK
<1> QED
  BY <1>1, <1>2, <1>3, <1>4, <1>5, RouteDialogKeeps

\* The draft is given up, be it because its dialog is closed or because a route
\* was made; what its boxes asked for may still come.
LEMMA RouteResetKeeps ==
  ASSUME Routes!IInv, form' = Routes!Reset, UNCHANGED <<db, shown, hist>>,
         due' \subseteq {"routes"}, dialog' = None \/ dialog' = dialog,
         wire' \subseteq wire
  PROVE  Routes!IInv'
<1>1. form \in Routes!Forms
  BY DEF Routes!IInv, Routes!TypeOK
<1>2. Routes!NoEnds \in Routes!Ends
  BY DEF Routes!NoEnds, Routes!Ends
<1>3. Routes!Cancelled(form.roads) \in SUBSET [of: Routes!Ends,
          live: BOOLEAN] /\ \A q \in Routes!Cancelled(form.roads) : ~q.live
  <2>1. form.roads \in SUBSET [of: Routes!Ends, live: BOOLEAN]
    BY <1>1 DEF Routes!Forms
  <2> QED
    BY <1>2, <2>1, RouteRoadsAsked
<1>4. /\ Routes!Draft \in Routes!Drafts /\ Routes!Draft.text = Routes!NoEnds
             /\ Routes!Draft.pick = Routes!NoEnds /\ Routes!Draft.path = None
      /\ Routes!Draft.options = None
  BY <1>2 DEF Routes!Draft, Routes!Drafts, Routes!Paths
<1>5. /\ form'.draft = Routes!Draft /\ form'.roads = Routes!Cancelled(form.roads)
      /\ form'.edit = form.edit /\ form' \in Routes!Forms
  BY <1>1, <1>3, <1>4 DEF Routes!Reset, Routes!Forms
<1>6. Routes!DraftInv'
  BY <1>3, <1>4, <1>5 DEF Routes!DraftInv
<1>7. Routes!TypeOK'
  <2>1. wire' \subseteq Routes!Creates \cup Routes!Created \cup Routes!Updates \cup Routes!Deletes
    BY DEF Routes!IInv, Routes!TypeOK
  <2>2. dialog' = None \/ dialog' \in Routes!Dialogs
    BY DEF Routes!IInv, Routes!TypeOK
  <2>3. /\ DOMAIN db' \subseteq Routes!Ids /\ \A i \in DOMAIN db' : db'[i] \in Routes!Row
        /\ \A i \in DOMAIN shown'["routes"] : shown'["routes"][i] \in Routes!Paths
        /\ hist' \in [opens: Nat, sends: Nat, asks: Nat, crossed: BOOLEAN]
    BY DEF Routes!IInv, Routes!TypeOK
  <2> QED
    BY <1>5, <2>1, <2>2, <2>3 DEF Routes!TypeOK
<1>8. Routes!StoreInv' /\ Routes!WireInv'
  BY DEF Routes!IInv, Routes!StoreInv, Routes!WireInv
<1>9. Routes!PageInv'
  BY <1>5 DEF Routes!IInv, Routes!PageInv
<1> QED
  BY <1>6, <1>7, <1>8, <1>9 DEF Routes!IInv

LEMMA RouteCloseKeeps ==
  ASSUME Routes!IInv, Routes!CloseDialog
  PROVE  Routes!IInv'
<1>1. CASE Routes!Creating
  BY <1>1, RouteResetKeeps DEF Routes!CloseDialog, Routes!IInv, Routes!TypeOK
<1>2. CASE ~Routes!Creating
  <2>1. dialog' = None /\ UNCHANGED <<db, shown, due, wire, hist, form>>
    BY <1>2 DEF Routes!CloseDialog
  <2>2. form.edit \in Routes!Paths /\ form = [form EXCEPT !.edit = form.edit]
    BY RouteFormAlike DEF Routes!IInv, Routes!TypeOK
  <2> QED
    BY <2>1, <2>2, RouteDialogKeeps
<1> QED
  BY <1>1, <1>2

\* -- the requests

\* A step that leaves the page alone, while the rows keep what they are.
LEMMA RouteWireSteps ==
  ASSUME Routes!IInv, UNCHANGED <<shown, due, dialog, form>>, RouteKeeps(db, db'),
         hist' \in [opens: Nat, sends: Nat, asks: Nat, crossed: BOOLEAN], hist'.crossed = hist.crossed,
         DOMAIN db' \subseteq Routes!Ids, \A i \in DOMAIN db' : db'[i] \in Routes!Row,
         Routes!StoreInv',
         \A r \in wire' \ wire :
            /\ r \in Routes!Creates \cup Routes!Created \cup Routes!Updates \cup Routes!Deletes
            /\ r.kind = "create" /\ r.phase = "sent" => r.path.hand \/ r.early \/ r.path.of = r.ends
            /\ (r.kind = "create" /\ r.phase # "sent") \/ r.kind = "delete" => r.id \in DOMAIN db'
            /\ r.kind = "update" => Routes!Fits(db', r.id, r.path)
  PROVE  Routes!IInv'
<1>1. Routes!TypeOK'
  BY DEF Routes!IInv, Routes!TypeOK
<1>2. Routes!DraftInv'
  BY DEF Routes!IInv, Routes!DraftInv, Routes!Live
<1>3. DOMAIN db \subseteq DOMAIN db'
  BY DEF RouteKeeps
<1>4. Routes!PageInv'
  BY <1>3, RouteFitsKept DEF Routes!IInv, Routes!PageInv
<1>5. Routes!WireInv'
  BY <1>3, RouteFitsKept DEF Routes!IInv, Routes!WireInv
<1> QED
  BY <1>1, <1>2, <1>4, <1>5 DEF Routes!IInv

LEMMA RouteSubmitKeeps ==
  ASSUME Routes!IInv, Routes!SubmitRoute \/ Routes!SubmitUpdate \/ Routes!SubmitDelete
  PROVE  Routes!IInv'
<1>1. /\ form \in Routes!Forms /\ form.draft \in Routes!Drafts /\ form.edit \in Routes!Paths
      /\ hist \in [opens: Nat, sends: Nat, asks: Nat, crossed: BOOLEAN]
      /\ dialog = None \/ dialog \in Routes!Dialogs
  BY DEF Routes!IInv, Routes!TypeOK, Routes!Forms
<1>2. UNCHANGED <<db, shown, due, dialog, form>> /\ hist' = [hist EXCEPT !.sends = @ + 1]
  BY DEF Routes!SubmitRoute, Routes!SubmitUpdate, Routes!SubmitDelete, Routes!Send
<1>3. hist' \in [opens: Nat, sends: Nat, asks: Nat, crossed: BOOLEAN] /\ hist'.crossed = hist.crossed
  BY <1>1, <1>2
<1>4. RouteKeeps(db, db') /\ DOMAIN db' \subseteq Routes!Ids /\ (\A i \in DOMAIN db' : db'[i] \in Routes!Row)
          /\ Routes!StoreInv'
  BY <1>2 DEF Routes!IInv, Routes!TypeOK, Routes!StoreInv, RouteKeeps
<1>5. CASE Routes!SubmitRoute
  <2>1. PICK early \in BOOLEAN : early = (form.draft.failed \/ \E q \in form.roads : q.live)
    OBVIOUS
  <2> DEFINE r == [kind |-> "create", who |-> "desk", phase |-> "sent", ends |-> form.draft.pick,
                   path |-> form.draft.path, early |-> early]
  <2>2. wire' = wire \cup {r} /\ form.draft.path # None /\ Routes!Complete(form.draft.pick)
    BY <1>5, <2>1 DEF Routes!SubmitRoute, Routes!Send
  <2>3. r \in Routes!Creates
    BY <1>1, <2>2 DEF Routes!Creates, Routes!Drafts, Routes!Paths
  <2>4. form.draft.path.hand \/ early \/ form.draft.path.of = form.draft.pick
    BY <2>1, <2>2 DEF Routes!IInv, Routes!DraftInv, Routes!Live
  <2>5. /\ r.kind = "create" /\ r.phase = "sent" /\ r.path = form.draft.path /\ r.early = early
        /\ r.ends = form.draft.pick
    OBVIOUS
  <2> HIDE DEF r
  <2> QED
    BY <1>2, <1>3, <1>4, <2>2, <2>3, <2>4, <2>5, RouteWireSteps
<1>6. CASE Routes!SubmitUpdate
  <2> DEFINE r == [kind |-> "update", who |-> "desk", phase |-> "sent", id |-> dialog.id, path |-> form.edit]
  <2>1. wire' = wire \cup {r} /\ dialog # None /\ dialog.kind = "edit"
    BY <1>6 DEF Routes!SubmitUpdate, Routes!Send
  <2>2. r \in Routes!Updates /\ r.kind = "update" /\ r.id = dialog.id /\ r.path = form.edit
    BY <1>1, <2>1 DEF Routes!Updates, Routes!Dialogs
  <2> HIDE DEF r
  <2>3. Routes!Fits(db', r.id, r.path)
    BY <1>2, <2>1, <2>2 DEF Routes!IInv, Routes!PageInv
  <2> QED
    BY <1>2, <1>3, <1>4, <2>1, <2>2, <2>3, RouteWireSteps
<1>7. CASE Routes!SubmitDelete
  <2> DEFINE r == [kind |-> "delete", who |-> "desk", phase |-> "sent", id |-> dialog.id]
  <2>1. wire' = wire \cup {r} /\ dialog # None /\ dialog.kind = "delete"
    BY <1>7 DEF Routes!SubmitDelete, Routes!Send
  <2>2. r \in Routes!Deletes /\ r.kind = "delete" /\ r.id = dialog.id
    BY <1>1, <2>1 DEF Routes!Deletes, Routes!Dialogs
  <2> HIDE DEF r
  <2>3. r.id \in DOMAIN db'
    BY <1>2, <2>1, <2>2 DEF Routes!IInv, Routes!PageInv
  <2> QED
    BY <1>2, <1>3, <1>4, <2>1, <2>2, <2>3, RouteWireSteps
<1> QED
  BY <1>5, <1>6, <1>7

\* Whatever becomes of a request but for its sender and its phase.
LEMMA RouteMovedKeeps ==
  ASSUME Routes!IInv, NEW r \in wire, NEW phase \in {"ok", "error"}
  PROVE  LET moved == [r EXCEPT !.phase = phase]
             gone == [r EXCEPT !.who = "gone"]
         IN /\ (r.kind = "create" => r.phase # "sent") =>
                  moved \in Routes!Created \cup Routes!Updates \cup Routes!Deletes /\ moved.kind = r.kind
                      /\ moved.id = r.id
                  /\ moved.phase = phase /\ (r.kind = "update" => moved.path = r.path)
            /\ gone \in Routes!Creates \cup Routes!Created \cup Routes!Updates \cup Routes!Deletes
            /\ gone.kind = r.kind /\ gone.phase = r.phase
            /\ r \in Routes!Creates => gone.path = r.path /\ gone.early = r.early /\ gone.ends = r.ends
            /\ r \notin Routes!Creates => gone.id = r.id
            /\ r \in Routes!Updates => gone.path = r.path
<1>1. r \in Routes!Creates \cup Routes!Created \cup Routes!Updates \cup Routes!Deletes
  BY DEF Routes!IInv, Routes!TypeOK
<1>2. CASE r \in Routes!Creates
  BY <1>2 DEF Routes!Creates, Routes!Created, Routes!Updates, Routes!Deletes
<1>3. CASE r \in Routes!Created
  BY <1>3 DEF Routes!Creates, Routes!Created, Routes!Updates, Routes!Deletes
<1>4. CASE r \in Routes!Updates
  BY <1>4 DEF Routes!Creates, Routes!Created, Routes!Updates, Routes!Deletes
<1>5. CASE r \in Routes!Deletes
  BY <1>5 DEF Routes!Creates, Routes!Created, Routes!Updates, Routes!Deletes
<1> QED
  BY <1>1, <1>2, <1>3, <1>4, <1>5

\* The server answers, or the page gives up waiting for it.
LEMMA RouteAnswerKeeps ==
  ASSUME Routes!IInv, NEW r \in wire, NEW phase \in {"ok", "error"}, Routes!Answer(r, phase),
         r.kind = "create" => r.phase # "sent",
         UNCHANGED <<shown, due, dialog, form, hist>>, RouteKeeps(db, db'),
         DOMAIN db' \subseteq Routes!Ids, \A i \in DOMAIN db' : db'[i] \in Routes!Row, Routes!StoreInv'
  PROVE  Routes!IInv'
<1> DEFINE s == [r EXCEPT !.phase = phase]
<1>1. wire' \subseteq wire \cup {s}
  BY DEF Routes!Answer
<1>2. /\ s \in Routes!Created \cup Routes!Updates \cup Routes!Deletes /\ s.kind = r.kind /\ s.id = r.id
      /\ s.phase = phase /\ (r.kind = "update" => s.path = r.path)
  BY RouteMovedKeeps
<1> HIDE DEF s
<1>3. /\ r.kind \in {"create", "delete"} => s.id \in DOMAIN db
      /\ r.kind = "update" => Routes!Fits(db, s.id, s.path)
  BY <1>2 DEF Routes!IInv, Routes!WireInv
<1>4. /\ r.kind \in {"create", "delete"} => s.id \in DOMAIN db'
      /\ r.kind = "update" => Routes!Fits(db', s.id, s.path)
  BY <1>3, RouteFitsKept DEF RouteKeeps
<1>5. hist' \in [opens: Nat, sends: Nat, asks: Nat, crossed: BOOLEAN] /\ hist'.crossed = hist.crossed
  BY DEF Routes!IInv, Routes!TypeOK
<1> QED
  BY <1>1, <1>2, <1>4, <1>5, RouteWireSteps

LEMMA RouteGiveUpKeeps ==
  ASSUME Routes!IInv, Routes!GiveUp
  PROVE  Routes!IInv'
<1>1. PICK r \in wire : /\ wire' \subseteq wire \cup {[r EXCEPT !.who = "gone"]}
                        /\ UNCHANGED <<db, shown, due, dialog, form, hist>>
  BY DEF Routes!GiveUp, Routes!Replace
<1> DEFINE s == [r EXCEPT !.who = "gone"]
<1>2. /\ s \in Routes!Creates \cup Routes!Created \cup Routes!Updates \cup Routes!Deletes /\ s.kind = r.kind
             /\ s.phase = r.phase
      /\ r \in Routes!Creates => s.path = r.path /\ s.early = r.early /\ s.ends = r.ends
      /\ r \notin Routes!Creates => s.id = r.id
      /\ r \in Routes!Updates => s.path = r.path
  BY RouteMovedKeeps
<1> HIDE DEF s
<1>3. r \in Routes!Creates \cup Routes!Created \cup Routes!Updates \cup Routes!Deletes
  BY DEF Routes!IInv, Routes!TypeOK
<1>4. /\ s.kind = "create" /\ s.phase = "sent" => s.path.hand \/ s.early \/ s.path.of = s.ends
      /\ (s.kind = "create" /\ s.phase # "sent") \/ s.kind = "delete" => s.id \in DOMAIN db
      /\ s.kind = "update" => Routes!Fits(db, s.id, s.path)
  BY <1>2, <1>3 DEF Routes!IInv, Routes!WireInv, Routes!Creates, Routes!Created, Routes!Updates, Routes!Deletes
<1>5. /\ RouteKeeps(db, db') /\ DOMAIN db' \subseteq Routes!Ids
             /\ (\A i \in DOMAIN db' : db'[i] \in Routes!Row) /\ Routes!StoreInv'
      /\ hist' \in [opens: Nat, sends: Nat, asks: Nat, crossed: BOOLEAN] /\ hist'.crossed = hist.crossed
  BY <1>1 DEF Routes!IInv, Routes!TypeOK, Routes!StoreInv, RouteKeeps
<1>6. wire' \subseteq wire \cup {s}
  BY <1>1 DEF s
<1> QED
  BY <1>1, <1>2, <1>4, <1>5, <1>6, RouteWireSteps

\* The new route has the path and the ends it was sent with.
LEMMA RouteServeCreateKeeps ==
  ASSUME Routes!IInv, NEW r \in wire, Routes!ServeCreate(r)
  PROVE  Routes!IInv'
<1>1. r \in Routes!Creates
  BY DEF Routes!ServeCreate, Routes!IInv, Routes!TypeOK, Routes!Creates, Routes!Created, Routes!Updates,
     Routes!Deletes
<1>2. PICK id \in Routes!Ids :
        /\ db' = [i \in DOMAIN db \cup {id} |->
                   IF i \in DOMAIN db THEN db[i]
                   ELSE [state |-> "bare", ends |-> r.ends, path |-> r.path, early |-> r.early]]
        /\ wire' = (wire \ {r}) \cup {[kind |-> "create", who |-> r.who, phase |-> "read", id |-> id]}
        /\ UNCHANGED <<shown, due, dialog, form, hist>>
  BY DEF Routes!ServeCreate, Routes!Replace
<1> DEFINE new == [state |-> "bare", ends |-> r.ends, path |-> r.path, early |-> r.early]
           s == [kind |-> "create", who |-> r.who, phase |-> "read", id |-> id]
<1>3. new \in Routes!Row /\ new.path = r.path /\ new.early = r.early /\ new.ends = r.ends
  BY <1>1 DEF Routes!Creates, Routes!Row, Routes!Paths
<1>4. s \in Routes!Created /\ s.kind = "create" /\ s.phase = "read" /\ s.id = id
  BY <1>1, <1>2 DEF Routes!Creates, Routes!Created
<1>5. r.path.hand \/ r.early \/ r.path.of = r.ends
  BY <1>1 DEF Routes!IInv, Routes!WireInv, Routes!Creates
<1>6. /\ wire' = (wire \ {r}) \cup {s} /\ DOMAIN db' = DOMAIN db \cup {id}
      /\ \A i \in DOMAIN db : db'[i] = db[i]
      /\ id \notin DOMAIN db => db'[id] = new
  BY <1>2
<1> HIDE DEF new, s
<1>7. RouteKeeps(db, db') /\ DOMAIN db' \subseteq Routes!Ids /\ \A i \in DOMAIN db' : db'[i] \in Routes!Row
  BY <1>3, <1>6 DEF Routes!IInv, Routes!TypeOK, RouteKeeps
<1>8. Routes!StoreInv'
  <2> SUFFICES ASSUME NEW i \in DOMAIN db' PROVE Routes!Fits(db', i, db'[i].path)
    BY DEF Routes!StoreInv
  <2>1. CASE i \in DOMAIN db
    BY <1>6, <1>7, <2>1, RouteFitsKept DEF Routes!IInv, Routes!StoreInv
  <2>2. CASE i \notin DOMAIN db
    BY <1>3, <1>5, <1>6, <2>2 DEF Routes!Fits
  <2> QED
    BY <2>1, <2>2
<1>9. hist' \in [opens: Nat, sends: Nat, asks: Nat, crossed: BOOLEAN] /\ hist'.crossed = hist.crossed
  BY <1>2 DEF Routes!IInv, Routes!TypeOK
<1> QED
  BY <1>2, <1>4, <1>6, <1>7, <1>8, <1>9, RouteWireSteps

\* The state of a route, or its path, is written.
LEMMA RouteRowKept ==
  ASSUME Routes!IInv, NEW i \in DOMAIN db, NEW row \in Routes!Row, row.early = db[i].early, row.ends = db[i].ends,
         db' = [db EXCEPT ![i] = row], Routes!Fits(db, i, row.path)
  PROVE  /\ RouteKeeps(db, db') /\ DOMAIN db' \subseteq Routes!Ids /\ (\A j \in DOMAIN db' : db'[j] \in Routes!Row)
         /\ Routes!StoreInv'
<1>1. /\ DOMAIN db' = DOMAIN db /\ db'[i] = row
      /\ \A j \in DOMAIN db \ {i} : db'[j] = db[j]
  OBVIOUS
<1>2. RouteKeeps(db, db') /\ DOMAIN db' \subseteq Routes!Ids /\ \A j \in DOMAIN db' : db'[j] \in Routes!Row
  BY <1>1 DEF Routes!IInv, Routes!TypeOK, RouteKeeps
<1>3. Routes!StoreInv'
  BY <1>1, <1>2, RouteFitsKept DEF Routes!IInv, Routes!StoreInv
<1> QED
  BY <1>2, <1>3

LEMMA RouteRowsAlike ==
  ASSUME Routes!IInv, db' = db
  PROVE  RouteKeeps(db, db') /\ DOMAIN db' \subseteq Routes!Ids
             /\ (\A j \in DOMAIN db' : db'[j] \in Routes!Row) /\ Routes!StoreInv'
  BY DEF Routes!IInv, Routes!TypeOK, Routes!StoreInv, RouteKeeps

LEMMA RouteSavesKeep ==
  ASSUME Routes!IInv, NEW r \in wire, Routes!SaveEnds(r) \/ Routes!ServeUpdate(r) \/ Routes!ServeDelete(r)
  PROVE  Routes!IInv'
<1>1. r.id \in DOMAIN db /\ db[r.id] \in Routes!Row /\ Routes!Fits(db, r.id, db[r.id].path)
      /\ (r.kind = "create" => r.phase # "sent") /\ UNCHANGED <<shown, due, dialog, form, hist>>
  BY DEF Routes!IInv, Routes!WireInv, Routes!Fits, Routes!TypeOK, Routes!StoreInv, Routes!SaveEnds,
     Routes!ServeUpdate, Routes!ServeDelete
<1>2. PICK phase \in {"ok", "error"} : Routes!Answer(r, phase)
  BY DEF Routes!SaveEnds, Routes!ServeUpdate, Routes!ServeDelete
<1>3. ASSUME NEW state \in {"bare", "locked", "deleted"}, db' = [db EXCEPT ![r.id].state = state]
      PROVE  Routes!IInv'
  <2> DEFINE row == [db[r.id] EXCEPT !.state = state]
  <2>1. /\ row \in Routes!Row /\ row.early = db[r.id].early /\ row.ends = db[r.id].ends /\ row.path = db[r.id].path
    BY <1>1 DEF Routes!Row
  <2>2. db' = [db EXCEPT ![r.id] = row]
    BY <1>3
  <2> HIDE DEF row
  <2> QED
    BY <1>1, <1>2, <2>1, <2>2, RouteRowKept, RouteAnswerKeeps
<1>4. ASSUME r.kind = "update", db' = [db EXCEPT ![r.id].path = r.path]
      PROVE  Routes!IInv'
  <2> DEFINE row == [db[r.id] EXCEPT !.path = r.path]
  <2>1. r.path \in Routes!Paths
    BY <1>4 DEF Routes!IInv, Routes!TypeOK, Routes!Creates, Routes!Created, Routes!Updates, Routes!Deletes
  <2>2. /\ row \in Routes!Row /\ row.early = db[r.id].early /\ row.ends = db[r.id].ends /\ row.path = r.path
    BY <1>1, <2>1 DEF Routes!Row
  <2>3. db' = [db EXCEPT ![r.id] = row]
    BY <1>4
  <2> HIDE DEF row
  <2>4. Routes!Fits(db, r.id, r.path)
    BY <1>4 DEF Routes!IInv, Routes!WireInv
  <2> QED
    BY <1>1, <1>2, <2>2, <2>3, <2>4, RouteRowKept, RouteAnswerKeeps
<1>5. CASE db' = db
  BY <1>1, <1>2, <1>5, RouteRowsAlike, RouteAnswerKeeps
<1> QED
  BY <1>3, <1>4, <1>5 DEF Routes!SaveEnds, Routes!ServeUpdate, Routes!ServeDelete

LEMMA RouteHeardKeeps ==
  ASSUME Routes!IInv, NEW r \in wire, Routes!Succeed(r) \/ Routes!Fail(r)
  PROVE  Routes!IInv'
<1>1. wire' \subseteq wire /\ UNCHANGED <<db, shown, hist>> /\ (dialog' = None \/ dialog' = dialog)
  BY DEF Routes!Succeed, Routes!Fail, Routes!Settle
<1>2. due' \subseteq {"routes"}
  BY DEF Routes!Succeed, Routes!Fail, Routes!Settle, Routes!Invalidate, Routes!IInv, Routes!TypeOK
<1>3. form' = Routes!Reset \/ form' = form
  BY DEF Routes!Succeed, Routes!Fail
<1>4. CASE form' = form
  <2>1. Routes!TypeOK'
    BY <1>1, <1>2, <1>4 DEF Routes!IInv, Routes!TypeOK
  <2>2. Routes!DraftInv' /\ Routes!StoreInv' /\ Routes!WireInv'
    BY <1>1, <1>4 DEF Routes!IInv, Routes!DraftInv, Routes!Live, Routes!StoreInv, Routes!WireInv
  <2>3. Routes!PageInv'
    BY <1>1, <1>4 DEF Routes!IInv, Routes!PageInv
  <2> QED
    BY <2>1, <2>2, <2>3 DEF Routes!IInv
<1> QED
  BY <1>1, <1>2, <1>3, <1>4, RouteResetKeeps

\* -- the theorems

LEMMA RouteInitIInv == ASSUME Routes!RouteAssumption, Routes!Init PROVE Routes!IInv
<1>1. PICK ends \in Routes!Ends :
        /\ Routes!Complete(ends)
        /\ db = [i \in 1..2 |->
                   LET own == IF i = 1 THEN ends ELSE [start |-> ends["end"], end |-> ends["start"]]
                   IN [state |-> "locked", ends |-> own, path |-> [of |-> own, hand |-> FALSE], early |-> FALSE]]
  BY DEF Routes!Init
<1> DEFINE back == [start |-> ends["end"], end |-> ends["start"]]
           Of(own) == [state |-> "locked", ends |-> own, path |-> [of |-> own, hand |-> FALSE], early |-> FALSE]
<1>2. back = [b \in Routes!Boxes |-> IF b = "start" THEN ends["end"] ELSE ends["start"]]
  BY DEF Routes!Boxes
<1>3. back \in Routes!Ends /\ Routes!Complete(back)
  BY <1>1, <1>2 DEF Routes!Ends, Routes!Complete, Routes!Boxes
<1>4. ASSUME NEW own \in Routes!Ends, Routes!Complete(own)
      PROVE  Of(own) \in Routes!Row /\ Of(own).path.of = Of(own).ends
  <2>1. [of |-> own, hand |-> FALSE] \in Routes!Paths
    BY DEF Routes!Paths, Routes!Path
  <2> QED
    BY <1>4, <2>1 DEF Routes!Row
<1>5. DOMAIN db = 1..2 /\ \A i \in 1..2 : db[i] = Of(ends) \/ db[i] = Of(back)
  BY <1>1
<1> HIDE DEF back, Of
<1>6. \A i \in DOMAIN db : db[i] \in Routes!Row /\ Routes!Fits(db, i, db[i].path)
  BY <1>1, <1>3, <1>4, <1>5 DEF Routes!Fits
<1>7. Routes!NoEnds \in Routes!Ends
  BY DEF Routes!NoEnds, Routes!Ends
<1>8. Routes!Draft \in Routes!Drafts /\ Routes!Draft.path = None /\ Routes!Draft.options = None
          /\ Routes!Draft.pick = Routes!Draft.text
  BY <1>7 DEF Routes!Draft, Routes!Drafts, Routes!Paths
<1>9. /\ form \in Routes!Forms /\ form.draft = Routes!Draft /\ form.roads = {}
      /\ hist \in [opens: Nat, sends: Nat, asks: Nat, crossed: BOOLEAN]
  BY <1>8 DEF Routes!Init, Routes!Forms, Routes!Paths
<1>10. DOMAIN db \subseteq Routes!Ids
  BY <1>5 DEF Routes!Ids, Routes!RouteAssumption
<1>11. shown["routes"] = [i \in {} |-> None] /\ shown = [k \in {"routes"} |-> shown[k]]
  BY DEF Routes!Init
<1>12. Routes!TypeOK
  BY <1>6, <1>9, <1>10, <1>11 DEF Routes!TypeOK, Routes!Init
<1>13. Routes!DraftInv
  BY <1>8, <1>9 DEF Routes!DraftInv
<1>14. Routes!StoreInv /\ Routes!PageInv /\ Routes!WireInv
  BY <1>6, <1>11 DEF Routes!StoreInv, Routes!PageInv, Routes!WireInv, Routes!Init
<1> QED
  BY <1>12, <1>13, <1>14 DEF Routes!IInv

LEMMA RouteNextIInv == ASSUME Routes!RouteAssumption, Routes!IInv, [Routes!Next]_deskVars PROVE Routes!IInv'
<1>1. CASE UNCHANGED deskVars
  <2>1. Routes!TypeOK'
    BY <1>1 DEF Routes!IInv, Routes!TypeOK, deskVars
  <2>2. Routes!DraftInv' /\ Routes!StoreInv' /\ Routes!WireInv' /\ Routes!PageInv'
    BY <1>1 DEF Routes!IInv, Routes!DraftInv, Routes!Live, Routes!StoreInv, Routes!WireInv, Routes!PageInv, deskVars
  <2> QED
    BY <2>1, <2>2 DEF Routes!IInv
<1>2. CASE Routes!Next
  BY <1>2, RouteListKeeps, RouteOpenKeeps, RouteDrawingKeeps, RouteRedrawEditKeeps, RouteSubmitKeeps,
     RouteCloseKeeps, RouteGiveUpKeeps,
     RouteSelectKeeps, RoutePlaceFoundKeeps, RoutePlaceLostKeeps, RouteRoadsFoundKeeps, RouteServeCreateKeeps,
         RouteSavesKeep, RouteHeardKeeps
  DEF Routes!Next
<1> QED
  BY <1>1, <1>2

LEMMA RouteInvHolds == Routes!RouteAssumption /\ Routes!Spec => []Routes!IInv
<1>1. CASE Routes!RouteAssumption
  <2>1. Routes!Init => Routes!IInv
    BY <1>1, RouteInitIInv
  <2>2. Routes!IInv /\ [Routes!Next]_deskVars => Routes!IInv'
    BY <1>1, RouteNextIInv
  <2> QED
    BY <2>1, <2>2, PTL DEF Routes!Spec, Routes!deskVars, deskVars
<1> QED
  BY <1>1

\* The page of the routes keeps to its types.
THEOREM RoutesTypeCorrect == Routes!RouteAssumption /\ Routes!Spec => []Routes!TypeOK
<1>1. Routes!IInv => Routes!TypeOK
  BY DEF Routes!IInv
<1> QED
  BY <1>1, RouteInvHolds, PTL

\* What is drawn for a new route leads between the places its boxes show, unless an
\* answer for a place was late or lost, or the directions are to come or were refused.
THEOREM RouteDraftOfAPiece == Routes!RouteAssumption /\ Routes!Spec => []Routes!DraftIsOfAPiece
<1>1. Routes!IInv => Routes!DraftIsOfAPiece
  <2> SUFFICES ASSUME Routes!IInv PROVE Routes!DraftIsOfAPiece
    OBVIOUS
  <2>1. form.draft.pick \in Routes!Ends /\ form.draft.text \in Routes!Ends
    BY DEF Routes!IInv, Routes!TypeOK, Routes!Forms, Routes!Drafts
  <2>2. form.places = {} /\ ~hist.crossed => form.draft.pick = form.draft.text
    BY <2>1 DEF Routes!IInv, Routes!DraftInv, Routes!Ends
  <2> QED
    BY <2>2 DEF Routes!IInv, Routes!DraftInv, Routes!Live, Routes!DraftIsOfAPiece
<1> QED
  BY <1>1, RouteInvHolds, PTL

\* No save gives a route the path of another, whatever rows, details and forms were out
\* of date when it was sent.
THEOREM RouteStoredFits == Routes!RouteAssumption /\ Routes!Spec => []Routes!StoredPathFits
<1>1. Routes!IInv => Routes!StoredPathFits
  BY DEF Routes!IInv, Routes!StoreInv, Routes!StoredPathFits, Routes!Fits
<1> QED
  BY <1>1, RouteInvHolds, PTL

\* ---- the roles ------------------------------------------------------------------------

\* The invariant in two halves: what the page holds, and what the server and the
\* requests hold.
RoleRequests == RolesPage!Modals \cup RolesPage!Toggles \cup RolesPage!Saves
RoleHists == [opens: Nat, sends: RolesPage!Numbers, born: SUBSET Roles, meant: [Roles -> SUBSET Grants],
    torn: SUBSET Roles]

RoleCards(rows) == DOMAIN rows \subseteq Roles /\ \A i \in DOMAIN rows : rows[i] \in RolesPage!Card

RoleFormShape(f) == f = [tab |-> f.tab, selected |-> f.selected, matrix |-> f.matrix, coming |-> f.coming]

\* A matrix is mounted where there is a role to show it for.
RoleSeated(f, rows) ==
    /\ f.tab \in {"roles", "audit"} /\ f.selected \in Roles \cup {None}
    /\ f.matrix = None \/ (f.matrix \in RolesPage!Matrices /\ f.matrix.set = RolesPage!SymDiff(f.matrix.base,
           f.matrix.ticked))
    /\ f.matrix # None <=> f.tab = "roles" /\ f.selected \in DOMAIN rows

RolePagePart ==
    /\ RoleCards(RolesPage!Rows) /\ shown = [k \in {"roles"} |-> shown[k]]
    /\ due \subseteq {"roles"} /\ (form.coming # None => due = {"roles"} /\ RoleCards(form.coming))
    /\ dialog = None \/ dialog \in RolesPage!Dialogs
    /\ RoleFormShape(form) /\ RoleSeated(form, RolesPage!Rows)

RoleStored(rows) ==
    /\ rows \in [Roles -> RolesPage!Row]
    /\ \A i \in BuiltIn : rows[i].made
    /\ \A i \in Roles : ~rows[i].made => rows[i] = RolesPage!NotMade

RoleServerPart ==
    /\ RoleStored(db) /\ hist \in RoleHists
    /\ wire \subseteq RoleRequests
    /\ \A r \in wire : (r.phase \in {"ok", "error"} => r.who = "desk") /\ RolesPage!Holds(r)
    /\ \A i \in Roles : RolesPage!GrantsInv(i)

LEMMA RoleHalves ==
  ASSUME RolesPage!RoleAssumption
  PROVE  RolesPage!IInv <=> RolePagePart /\ RoleServerPart
<1>1. RolesPage!IInv => RolePagePart
  BY DEF RolesPage!IInv, RolesPage!TypeOK, RolesPage!PageInv, RolesPage!TicksInv, RolePagePart, RoleCards,
     RoleFormShape, RoleSeated, RolesPage!Rows
<1>2. RolesPage!IInv => RoleServerPart
  BY DEF RolesPage!IInv, RolesPage!TypeOK, RoleServerPart, RoleStored, RoleRequests, RoleHists, RolesPage!Existing
<1>3. RolePagePart /\ RoleServerPart => RolesPage!IInv
  <2> SUFFICES ASSUME RolePagePart, RoleServerPart PROVE RolesPage!IInv
    OBVIOUS
  <2>1. BuiltIn \subseteq RolesPage!Existing /\ \A i \in Roles \ RolesPage!Existing : db[i] = RolesPage!NotMade
    BY DEF RolesPage!RoleAssumption, RolesPage!Existing, RoleServerPart, RoleStored
  <2>2. RolesPage!TypeOK
    BY <2>1 DEF RolePagePart, RoleServerPart, RoleCards, RoleStored, RoleSeated, RoleRequests, RoleHists,
       RolesPage!TypeOK
  <2>3. RolesPage!PageInv /\ RolesPage!TicksInv
    BY DEF RolePagePart, RoleCards, RoleFormShape, RoleSeated, RolesPage!PageInv, RolesPage!TicksInv
  <2> QED
    BY <2>2, <2>3 DEF RoleServerPart, RolesPage!IInv
<1> QED
  BY <1>1, <1>2, <1>3

\* -- the ticks of the matrix

LEMMA RoleTicking ==
  ASSUME NEW base, NEW ticked, NEW set, NEW new, set = RolesPage!SymDiff(base, ticked)
  PROVE  /\ new = RolesPage!SymDiff(base, RolesPage!SymDiff(ticked, RolesPage!SymDiff(set, new)))
         /\ set = RolesPage!SymDiff(new, RolesPage!SymDiff(set, new))
         /\ set = RolesPage!SymDiff(set, {})
  BY DEF RolesPage!SymDiff

LEMMA RoleSymDiffTyped ==
  ASSUME NEW S \in SUBSET Grants, NEW T \in SUBSET Grants
  PROVE  RolesPage!SymDiff(S, T) \in SUBSET Grants
  BY DEF RolesPage!SymDiff

\* Seat makes of a page what it has to be for the rows.
LEMMA RoleSeatSeats ==
  ASSUME RolesPage!RoleAssumption, NEW f, RoleFormShape(f), NEW rows, RoleCards(rows),
         f.tab \in {"roles", "audit"}, f.selected \in Roles \cup {None},
         f.matrix = None \/ (f.matrix \in RolesPage!Matrices /\ f.matrix.set = RolesPage!SymDiff(f.matrix.base,
             f.matrix.ticked))
  PROVE  /\ RoleFormShape(RolesPage!Seat(f, rows)) /\ RoleSeated(RolesPage!Seat(f, rows), rows)
         /\ RolesPage!Seat(f, rows).coming = f.coming
<1> DEFINE m == IF f.tab # "roles" \/ f.selected \notin DOMAIN rows THEN None
                ELSE IF f.matrix # None /\ f.matrix.id = f.selected THEN f.matrix
                ELSE RolesPage!Mounted(f.selected, rows)
<1>1. RolesPage!Seat(f, rows) = [tab |-> f.tab, selected |-> f.selected, matrix |-> m, coming |-> f.coming]
  BY DEF RolesPage!Seat, RoleFormShape
<1>2. ASSUME f.selected \in DOMAIN rows
      PROVE  LET new == RolesPage!Mounted(f.selected, rows)
             IN new \in RolesPage!Matrices /\ new # None /\ new.set = RolesPage!SymDiff(new.base, new.ticked)
  <2>1. f.selected \in Roles /\ rows[f.selected] \in RolesPage!Card
    BY <1>2 DEF RoleCards
  <2>2. rows[f.selected].perms \in SUBSET Grants
    BY <2>1 DEF RolesPage!Card
  <2>3. RolesPage!Mounted(f.selected, rows) \in RolesPage!Matrices
    BY <2>1, <2>2 DEF RolesPage!Mounted, RolesPage!Matrices
  <2>4. RolesPage!Mounted(f.selected, rows).set = RolesPage!SymDiff(RolesPage!Mounted(f.selected, rows).base,
            RolesPage!Mounted(f.selected, rows).ticked)
    BY DEF RolesPage!Mounted, RolesPage!SymDiff
  <2> QED
    BY <2>3, <2>4 DEF RolesPage!RoleAssumption
<1>3. m = None \/ (m \in RolesPage!Matrices /\ m.set = RolesPage!SymDiff(m.base, m.ticked))
  BY <1>2
<1>4. m # None <=> f.tab = "roles" /\ f.selected \in DOMAIN rows
  BY <1>2
<1> HIDE DEF m
<1> QED
  BY <1>1, <1>3, <1>4 DEF RoleFormShape, RoleSeated

\* -- the page

LEMMA RolePageAlike ==
  ASSUME RolePagePart, UNCHANGED <<form, shown, due>>, dialog' = None \/ dialog' \in RolesPage!Dialogs
  PROVE  RolePagePart'
  BY DEF RolePagePart, RolesPage!Rows

LEMMA RoleServerAlike ==
  ASSUME RoleServerPart, UNCHANGED <<db, wire>>, hist' = hist \/ hist' = [hist EXCEPT !.opens = @ + 1]
  PROVE  RoleServerPart'
<1>1. /\ hist' \in RoleHists /\ hist'.born = hist.born /\ hist'.meant = hist.meant /\ hist'.torn = hist.torn
  BY DEF RoleServerPart, RoleHists
<1>2. \A i \in Roles : RolesPage!GrantsInv(i)'
  BY <1>1 DEF RoleServerPart, RolesPage!GrantsInv, RolesPage!Filling
<1>3. \A r \in wire : RolesPage!Holds(r)'
  BY <1>1 DEF RoleServerPart, RolesPage!Holds
<1> QED
  BY <1>1, <1>2, <1>3 DEF RoleServerPart

LEMMA RoleReadRolesKeeps ==
  ASSUME RolesPage!RoleAssumption, RolePagePart, RoleServerPart, RolesPage!ReadRoles
  PROVE  RolePagePart' /\ RoleServerPart'
<1> DEFINE rows == [i \in RolesPage!Existing |-> [active |-> db[i].active, perms |-> db[i].perms]]
<1>1. RoleCards(rows)
  BY DEF RoleServerPart, RoleStored, RolesPage!Row, RolesPage!Card, RoleCards, RolesPage!Existing
<1>2. form' = [form EXCEPT !.coming = rows] /\ due = {"roles"} /\ UNCHANGED <<db, shown, due, dialog, wire, hist>>
  BY DEF RolesPage!ReadRoles
<1> HIDE DEF rows
<1>3. RoleFormShape(form') /\ form'.coming = rows /\ form'.tab = form.tab /\ form'.selected = form.selected
      /\ form'.matrix = form.matrix
  BY <1>2 DEF RolePagePart, RoleFormShape
<1>4. RolePagePart'
  BY <1>1, <1>2, <1>3 DEF RolePagePart, RoleSeated, RolesPage!Rows
<1> QED
  BY <1>2, <1>4, RoleServerAlike

LEMMA RoleShowRolesKeeps ==
  ASSUME RolesPage!RoleAssumption, RolePagePart, RoleServerPart, RolesPage!ShowRoles
  PROVE  RolePagePart' /\ RoleServerPart'
<1> DEFINE f == [form EXCEPT !.coming = None]
<1>1. /\ shown' = [shown EXCEPT !["roles"] = form.coming] /\ due' = {} /\ form' = RolesPage!Seat(f, form.coming)
      /\ RoleCards(form.coming) /\ UNCHANGED <<db, dialog, wire, hist>>
  BY DEF RolesPage!ShowRoles, RolePagePart
<1>2. /\ RoleFormShape(f) /\ f.tab = form.tab /\ f.selected = form.selected /\ f.matrix = form.matrix
      /\ f.coming = None
  BY DEF RolePagePart, RoleFormShape
<1>3. shown' = [k \in {"roles"} |-> shown'[k]] /\ shown'["roles"] = form.coming
  BY <1>1 DEF RolePagePart, RolesPage!Rows
<1> HIDE DEF f
<1>4. RoleFormShape(form') /\ RoleSeated(form', form.coming) /\ form'.coming = None
  BY <1>1, <1>2, RoleSeatSeats DEF RolePagePart, RoleSeated, RolesPage!Rows
<1>5. RolePagePart'
  BY <1>1, <1>3, <1>4 DEF RolePagePart, RolesPage!Rows
<1> QED
  BY <1>1, <1>5, RoleServerAlike

\* Another role, or another tab.
LEMMA RoleSelectKeeps ==
  ASSUME RolesPage!RoleAssumption, RolePagePart, RoleServerPart,
             RolesPage!SwitchTab \/ \E i \in DOMAIN RolesPage!Rows : RolesPage!Select(i)
  PROVE  RolePagePart' /\ RoleServerPart'
<1>1. ASSUME NEW f, form' = RolesPage!Seat(f, RolesPage!Rows), UNCHANGED <<db, shown, due, dialog, wire, hist>>,
             RoleFormShape(f), f.tab \in {"roles", "audit"}, f.selected \in Roles \cup {None},
             f.matrix = form.matrix, f.coming = form.coming
      PROVE  RolePagePart' /\ RoleServerPart'
  <2>1. RoleFormShape(form') /\ RoleSeated(form', RolesPage!Rows) /\ form'.coming = form.coming
    BY <1>1, RoleSeatSeats DEF RolePagePart, RoleSeated, RolesPage!Rows
  <2>2. RolePagePart'
    BY <1>1, <2>1 DEF RolePagePart, RolesPage!Rows
  <2> QED
    BY <1>1, <2>2, RoleServerAlike
<1>2. CASE RolesPage!SwitchTab
  <2>1. PICK tab \in {"roles", "audit"} : tab = IF form.tab = "roles" THEN "audit" ELSE "roles"
    OBVIOUS
  <2> DEFINE f == [form EXCEPT !.tab = tab]
  <2>2. /\ RoleFormShape(f) /\ f.tab = tab /\ f.selected = form.selected /\ f.matrix = form.matrix
        /\ f.coming = form.coming
    BY DEF RolePagePart, RoleFormShape
  <2>3. form' = RolesPage!Seat(f, RolesPage!Rows) /\ UNCHANGED <<db, shown, due, dialog, wire, hist>>
    BY <1>2, <2>1 DEF RolesPage!SwitchTab
  <2> HIDE DEF f
  <2> QED
    BY <1>1, <2>2, <2>3 DEF RolePagePart, RoleSeated
<1>3. ASSUME NEW i \in DOMAIN RolesPage!Rows, RolesPage!Select(i) PROVE RolePagePart' /\ RoleServerPart'
  <2> DEFINE f == [form EXCEPT !.selected = i]
  <2>1. /\ RoleFormShape(f) /\ f.tab = form.tab /\ f.selected = i /\ f.matrix = form.matrix
        /\ f.coming = form.coming
    BY DEF RolePagePart, RoleFormShape
  <2>2. form' = RolesPage!Seat(f, RolesPage!Rows) /\ UNCHANGED <<db, shown, due, dialog, wire, hist>>
    BY <1>3 DEF RolesPage!Select
  <2>3. i \in Roles
    BY DEF RolePagePart, RoleCards
  <2> HIDE DEF f
  <2> QED
    BY <1>1, <2>1, <2>2, <2>3 DEF RolePagePart, RoleSeated
<1> QED
  BY <1>2, <1>3

LEMMA RoleTickKeeps ==
  ASSUME RolesPage!RoleAssumption, RolePagePart, RoleServerPart, NEW set \in SUBSET Grants, RolesPage!Tick(set)
  PROVE  RolePagePart' /\ RoleServerPart'
<1> DEFINE m == form.matrix
           new == [m EXCEPT !.set = set, !.dirty = TRUE, !.ticked = RolesPage!SymDiff(@, RolesPage!SymDiff(m.set,
               set))]
<1>1. m \in RolesPage!Matrices /\ m.set = RolesPage!SymDiff(m.base, m.ticked)
  BY DEF RolesPage!Tick, RolePagePart, RoleSeated
<1>2. form' = [form EXCEPT !.matrix = new] /\ UNCHANGED <<db, shown, due, dialog, wire, hist>>
  BY <1>1 DEF RolesPage!Tick, RolePagePart, RoleFormShape, RolesPage!Matrices
<1>3. new.set = set /\ new.base = m.base /\ new.ticked = RolesPage!SymDiff(m.ticked, RolesPage!SymDiff(m.set, set))
  BY <1>1 DEF RolesPage!Matrices
<1>4. RolesPage!SymDiff(m.ticked, RolesPage!SymDiff(m.set, set)) \in SUBSET Grants
  BY <1>1, RoleSymDiffTyped DEF RolesPage!Matrices
<1>5. new \in RolesPage!Matrices
  BY <1>1, <1>4 DEF RolesPage!Matrices
<1>6. new.set = RolesPage!SymDiff(new.base, new.ticked)
  BY <1>1, <1>3, RoleTicking
<1>7. new # None
  BY <1>5 DEF RolesPage!RoleAssumption
<1> HIDE DEF new
<1>8. /\ RoleFormShape(form') /\ form'.matrix = new /\ form'.tab = form.tab /\ form'.selected = form.selected
      /\ form'.coming = form.coming
  BY <1>2 DEF RolePagePart, RoleFormShape
<1>9. form.matrix # None
  BY DEF RolesPage!Tick
<1>10. RolePagePart'
  BY <1>2, <1>5, <1>6, <1>7, <1>8, <1>9 DEF RolePagePart, RoleSeated, RolesPage!Rows
<1> QED
  BY <1>2, <1>10, RoleServerAlike

LEMMA RoleTicksKeep ==
  ASSUME RolesPage!RoleAssumption, RolePagePart, RoleServerPart,
         RolesPage!SelectAll \/ RolesPage!DeselectAll
             \/ \E all \in (SUBSET Grants) \ {{}} : RolesPage!ToggleModule(all)
  PROVE  RolePagePart' /\ RoleServerPart'
<1>1. CASE RolesPage!SelectAll
  BY <1>1, RoleTickKeeps DEF RolesPage!SelectAll
<1>2. CASE RolesPage!DeselectAll
  BY <1>2, RoleTickKeeps DEF RolesPage!DeselectAll
<1>3. ASSUME NEW all \in SUBSET Grants, RolesPage!ToggleModule(all) PROVE RolePagePart' /\ RoleServerPart'
  <2>1. form.matrix.set \in SUBSET Grants
    BY <1>3 DEF RolesPage!ToggleModule, RolesPage!Tick, RolePagePart, RoleSeated, RolesPage!Matrices
  <2> DEFINE set == IF all \cap form.matrix.set # {} THEN form.matrix.set \ all ELSE form.matrix.set \cup all
  <2>2. set \in SUBSET Grants /\ RolesPage!Tick(set)
    BY <1>3, <2>1 DEF RolesPage!ToggleModule
  <2> HIDE DEF set
  <2> QED
    BY <2>2, RoleTickKeeps
<1> QED
  BY <1>1, <1>2, <1>3

LEMMA RoleOpenKeeps ==
  ASSUME RolePagePart, RoleServerPart,
             RolesPage!OpenCreate \/ \E i \in DOMAIN RolesPage!Rows : RolesPage!OpenCard(i)
  PROVE  RolePagePart' /\ RoleServerPart'
<1>1. \A i \in DOMAIN RolesPage!Rows : i \in Roles
  BY DEF RolePagePart, RoleCards
<1>2. PICK d \in RolesPage!Dialogs : RolesPage!Open(d)
  BY <1>1 DEF RolesPage!OpenCreate, RolesPage!OpenCard, RolesPage!Dialogs
<1>3. dialog' = d /\ UNCHANGED <<db, shown, due, form, wire>> /\ hist' = [hist EXCEPT !.opens = @ + 1]
  BY <1>2 DEF RolesPage!Open
<1> QED
  BY <1>3, RolePageAlike, RoleServerAlike

\* -- the requests

\* A request that fills a role.
RoleFills(q) == q.phase = "read" /\ q.kind \in {"save", "clone"}

\* A step that touches no request that fills a role touches none of any role.
LEMMA RoleFillingAlike ==
  ASSUME \A q \in wire' \ wire : ~RoleFills(q), \A q \in wire \ wire' : ~RoleFills(q), NEW i
  PROVE  RolesPage!Filling(i)' = RolesPage!Filling(i)
  BY DEF RolesPage!Filling, RoleFills

LEMMA RoleFillingLess ==
  ASSUME NEW r, NEW s, ~RoleFills(s), wire \ {r} \subseteq wire', wire' \subseteq (wire \ {r}) \cup {s}, NEW i
  PROVE  RolesPage!Filling(i)' = RolesPage!Filling(i) \ {r}
<1>1. ASSUME NEW q \in RolesPage!Filling(i)' PROVE q \in RolesPage!Filling(i) \ {r}
  <2>1. q \in wire' /\ RoleFills(q) /\ q.new = i
    BY <1>1 DEF RolesPage!Filling, RoleFills
  <2>2. q \in wire \ {r}
    BY <2>1
  <2> QED
    BY <2>1, <2>2 DEF RolesPage!Filling, RoleFills
<1>2. ASSUME NEW q \in RolesPage!Filling(i) \ {r} PROVE q \in RolesPage!Filling(i)'
  BY <1>2 DEF RolesPage!Filling
<1> QED
  BY <1>1, <1>2

\* A role whose row, meaning and fillers stay keeps what is said of it.
LEMMA RoleGrantsStill ==
  ASSUME NEW i, RolesPage!GrantsInv(i), db'[i].made = db[i].made, db'[i].perms = db[i].perms,
         hist'.meant[i] = hist.meant[i], hist.born \subseteq hist'.born, hist.torn \subseteq hist'.torn,
         RolesPage!Filling(i)' = RolesPage!Filling(i)
  PROVE  RolesPage!GrantsInv(i)'
  BY DEF RolesPage!GrantsInv

LEMMA RoleHoldsStill ==
  ASSUME NEW r, RolesPage!Holds(r), hist.born \subseteq hist'.born
  PROVE  RolesPage!Holds(r)'
  BY DEF RolesPage!Holds

\* Requests are sent, or come and go without filling a role.
LEMMA RoleServerQuiet ==
  ASSUME RoleServerPart, db' = db, hist' \in RoleHists, hist'.born = hist.born, hist'.meant = hist.meant,
         hist'.torn = hist.torn,
         \A q \in wire' \ wire :
            q \in RoleRequests /\ ~RoleFills(q) /\ RolesPage!Holds(q) /\ (q.phase \in {"ok",
                "error"} => q.who = "desk"),
         \A q \in wire \ wire' : ~RoleFills(q)
  PROVE  RoleServerPart'
<1>1. \A i \in Roles : RolesPage!GrantsInv(i)'
  BY RoleFillingAlike, RoleGrantsStill DEF RoleServerPart
<1>2. \A r \in wire' : (r.phase \in {"ok", "error"} => r.who = "desk") /\ RolesPage!Holds(r)'
  BY RoleHoldsStill DEF RoleServerPart
<1> QED
  BY <1>1, <1>2 DEF RoleServerPart

LEMMA RoleSendKeeps ==
  ASSUME RolesPage!RoleAssumption, RoleServerPart, NEW r \in RoleRequests, RolesPage!Send(r), db' = db,
             r.phase = "sent", RolesPage!Holds(r)
  PROVE  RoleServerPart'
<1>1. wire' = wire \cup {r} /\ hist' = [hist EXCEPT !.sends = @ + 1] /\ hist.sends < MaxSends
  BY DEF RolesPage!Send
<1>2. hist' \in RoleHists /\ hist'.born = hist.born /\ hist'.meant = hist.meant /\ hist'.torn = hist.torn
  BY <1>1 DEF RoleServerPart, RoleHists, RolesPage!Numbers, RolesPage!RoleAssumption
<1>3. ~RoleFills(r)
  BY DEF RoleFills
<1> QED
  BY <1>1, <1>2, <1>3, RoleServerQuiet

LEMMA RoleSubmitKeeps ==
  ASSUME RolesPage!RoleAssumption, RolePagePart, RoleServerPart,
         \/ RolesPage!SubmitModal \/ RolesPage!ApplyChanges
         \/ \E i \in DOMAIN RolesPage!Rows : RolesPage!ToggleActive(i)
         \/ \E i \in RolesPage!Existing : RolesPage!Colleague(i)
  PROVE  RolePagePart' /\ RoleServerPart'
<1>1. hist.sends \in RolesPage!Numbers
  BY DEF RoleServerPart, RoleHists
<1>2. CASE RolesPage!SubmitModal
  <2> DEFINE r == [kind |-> dialog.kind, who |-> "desk", id |-> dialog.id, no |-> hist.sends, phase |-> "sent",
                   selected |-> None, row |-> None, new |-> None]
             d == [dialog EXCEPT !.busy = hist.sends]
  <2>1. dialog \in RolesPage!Dialogs /\ RolesPage!Send(r) /\ dialog' = d /\ UNCHANGED <<db, shown, due, form>>
    BY <1>2 DEF RolesPage!SubmitModal, RolePagePart
  <2>2. d \in RolesPage!Dialogs
    BY <1>1, <2>1 DEF RolesPage!Dialogs
  <2>3. r \in RoleRequests /\ r.phase = "sent" /\ r.kind = dialog.kind /\ r.id = dialog.id /\ r.kind # "save"
    BY <1>1, <2>1 DEF RolesPage!Dialogs, RoleRequests, RolesPage!Modals, RolesPage!Whos
  <2>4. RolesPage!Holds(r)
    BY <2>1, <2>3 DEF RolesPage!Holds, RolesPage!Dialogs
  <2> HIDE DEF r, d
  <2> QED
    BY <2>1, <2>2, <2>3, <2>4, RolePageAlike, RoleSendKeeps
<1>3. CASE RolesPage!ApplyChanges
  <2> DEFINE m == form.matrix
             r == [kind |-> "save", who |-> "desk", id |-> m.id, no |-> hist.sends, phase |-> "sent",
                   set |-> m.set, old |-> None, got |-> None, new |-> None, base |-> m.base, ticked |-> m.ticked]
             new == [m EXCEPT !.busy = hist.sends]
  <2>1. m \in RolesPage!Matrices /\ m.set = RolesPage!SymDiff(m.base, m.ticked) /\ m # None
    BY <1>3 DEF RolesPage!ApplyChanges, RolePagePart, RoleSeated
  <2>2. RolesPage!Send(r) /\ UNCHANGED <<db, shown, due, dialog>> /\ form' = [form EXCEPT !.matrix = new]
    BY <1>3, <2>1 DEF RolesPage!ApplyChanges, RolePagePart, RoleFormShape, RolesPage!Matrices
  <2>3. new \in RolesPage!Matrices /\ new.set = m.set /\ new.base = m.base /\ new.ticked = m.ticked
    BY <1>1, <2>1 DEF RolesPage!Matrices
  <2>4. new # None
    BY <2>3 DEF RolesPage!RoleAssumption
  <2>5. /\ r \in RoleRequests /\ r.phase = "sent" /\ r.kind = "save" /\ r.set = m.set /\ r.base = m.base
        /\ r.ticked = m.ticked
    BY <1>1, <2>1 DEF RolesPage!Matrices, RoleRequests, RolesPage!Saves, RolesPage!Whos
  <2> HIDE DEF r, new
  <2>6. RolesPage!Holds(r)
    BY <2>1, <2>5 DEF RolesPage!Holds
  <2>7. /\ RoleFormShape(form') /\ form'.matrix = new /\ form'.tab = form.tab /\ form'.selected = form.selected
        /\ form'.coming = form.coming
    BY <2>2 DEF RolePagePart, RoleFormShape
  <2>8. RolePagePart'
    BY <2>1, <2>2, <2>3, <2>4, <2>7 DEF RolePagePart, RoleSeated, RolesPage!Rows
  <2> QED
    BY <2>2, <2>5, <2>6, <2>8, RoleSendKeeps
<1>4. ASSUME NEW i \in DOMAIN RolesPage!Rows, RolesPage!ToggleActive(i) PROVE RolePagePart' /\ RoleServerPart'
  <2>1. i \in Roles
    BY DEF RolePagePart, RoleCards
  <2>2. PICK to \in BOOLEAN : to = ~RolesPage!Rows[i].active
    OBVIOUS
  <2> DEFINE r == [kind |-> "toggle", who |-> "desk", id |-> i, no |-> hist.sends, phase |-> "sent", to |-> to]
  <2>3. RolesPage!Send(r) /\ UNCHANGED <<db, shown, due, dialog, form>>
    BY <1>4, <2>2 DEF RolesPage!ToggleActive
  <2>4. r \in RoleRequests /\ r.phase = "sent" /\ r.kind = "toggle"
    BY <1>1, <2>1 DEF RoleRequests, RolesPage!Toggles, RolesPage!Whos
  <2> HIDE DEF r
  <2>5. RolesPage!Holds(r)
    BY <2>4 DEF RolesPage!Holds
  <2>6. dialog' = None \/ dialog' \in RolesPage!Dialogs
    BY <2>3 DEF RolePagePart
  <2> QED
    BY <2>3, <2>4, <2>5, <2>6, RolePageAlike, RoleSendKeeps
<1>5. ASSUME NEW i \in RolesPage!Existing, RolesPage!Colleague(i) PROVE RolePagePart' /\ RoleServerPart'
  <2>1. i \in Roles
    BY DEF RolesPage!Existing
  <2>2. PICK r \in RoleRequests : RolesPage!Send(r) /\ r.phase = "sent" /\ RolesPage!Holds(r)
    <3>1. ASSUME NEW g \in Grants
          PROVE  LET r == [kind |-> "save", who |-> "other", id |-> i, no |-> hist.sends, phase |-> "sent",
                           set |-> {g}, old |-> None, got |-> None, new |-> None, base |-> None, ticked |-> {}]
                 IN r \in RoleRequests /\ r.phase = "sent" /\ RolesPage!Holds(r)
      BY <1>1, <2>1 DEF RoleRequests, RolesPage!Saves, RolesPage!Whos, RolesPage!Holds
    <3>2. LET r == [kind |-> "delete", who |-> "other", id |-> i, no |-> hist.sends, phase |-> "sent",
                    selected |-> None, row |-> None, new |-> None]
          IN r \in RoleRequests /\ r.phase = "sent" /\ RolesPage!Holds(r)
      BY <1>1, <2>1 DEF RoleRequests, RolesPage!Modals, RolesPage!Whos, RolesPage!Holds
    <3> QED
      BY <1>5, <3>1, <3>2 DEF RolesPage!Colleague
  <2>3. UNCHANGED <<db, shown, due, dialog, form>>
    BY <1>5 DEF RolesPage!Colleague
  <2>4. dialog' = None \/ dialog' \in RolesPage!Dialogs
    BY <2>3 DEF RolePagePart
  <2> QED
    BY <2>2, <2>3, <2>4, RolePageAlike, RoleSendKeeps
<1> QED
  BY <1>2, <1>3, <1>4, <1>5

\* What EXCEPT leaves of a request.
LEMMA RoleMoved ==
  ASSUME NEW r \in RoleRequests, NEW phase \in {"ok", "error"}
  PROVE  LET s == [r EXCEPT !.phase = phase]
         IN /\ s \in RoleRequests /\ s.phase = phase /\ s.who = r.who /\ s.kind = r.kind /\ s.id = r.id
            /\ r.kind = "save" => s.set = r.set /\ s.base = r.base /\ s.ticked = r.ticked /\ s.got = r.got
<1>1. CASE r \in RolesPage!Modals
  BY <1>1 DEF RolesPage!Modals, RoleRequests
<1>2. CASE r \in RolesPage!Toggles
  BY <1>2 DEF RolesPage!Toggles, RoleRequests
<1>3. CASE r \in RolesPage!Saves
  BY <1>3 DEF RolesPage!Saves, RoleRequests
<1> QED
  BY <1>1, <1>2, <1>3 DEF RoleRequests

LEMMA RoleCloseKeeps ==
  ASSUME RolePagePart, RoleServerPart, RolesPage!CloseModal
  PROVE  RolePagePart' /\ RoleServerPart'
<1>1. /\ dialog' = None /\ UNCHANGED <<db, shown, due, form, hist>>
      /\ wire' = {IF r.kind = "delete" /\ r.no = dialog.busy THEN [r EXCEPT !.selected = form.selected] ELSE r :
                     r \in wire}
  BY DEF RolesPage!CloseModal
<1>2. form.selected \in Roles \cup {None}
  BY DEF RolePagePart, RoleSeated
<1>3. ASSUME NEW r \in wire, r.kind = "delete"
      PROVE  LET s == [r EXCEPT !.selected = form.selected]
             IN s \in RoleRequests /\ s.kind = "delete" /\ s.id = r.id /\ s.phase = r.phase /\ s.who = r.who
  <2>1. r \in RolesPage!Modals
    BY <1>3 DEF RoleServerPart, RoleRequests, RolesPage!Modals, RolesPage!Toggles, RolesPage!Saves
  <2> QED
    BY <1>2, <1>3, <2>1 DEF RoleRequests, RolesPage!Modals
<1>4. ASSUME NEW q \in wire' \ wire
      PROVE  q \in RoleRequests /\ ~RoleFills(q) /\ RolesPage!Holds(q) /\ (q.phase \in {"ok",
                 "error"} => q.who = "desk")
  <2>1. PICK r \in wire : r.kind = "delete" /\ q = [r EXCEPT !.selected = form.selected]
    BY <1>1, <1>4
  <2>2. q \in RoleRequests /\ q.kind = "delete" /\ q.id = r.id /\ q.phase = r.phase /\ q.who = r.who
    BY <1>3, <2>1
  <2> QED
    BY <2>1, <2>2 DEF RoleFills, RolesPage!Holds, RoleServerPart
<1>5. ASSUME NEW q \in wire \ wire' PROVE ~RoleFills(q)
  BY <1>1, <1>5 DEF RoleFills
<1>6. RoleServerPart'
  BY <1>1, <1>4, <1>5, RoleServerQuiet DEF RoleServerPart
<1> QED
  BY <1>1, <1>6, RolePageAlike

\* -- the server

LEMMA RoleServerStep ==
  ASSUME RoleServerPart, RoleStored(db'), hist' \in RoleHists, hist.born \subseteq hist'.born,
         \A q \in wire' \ wire : q \in RoleRequests /\ RolesPage!Holds(q)' /\ (q.phase \in {"ok",
             "error"} => q.who = "desk"),
         \A i \in Roles : RolesPage!GrantsInv(i)'
  PROVE  RoleServerPart'
<1>1. \A q \in wire' : q \in RoleRequests /\ RolesPage!Holds(q)' /\ (q.phase \in {"ok", "error"} => q.who = "desk")
  BY RoleHoldsStill DEF RoleServerPart
<1> QED
  BY <1>1 DEF RoleServerPart

LEMMA RoleRowSaved ==
  ASSUME RoleStored(db), NEW i \in Roles, NEW row \in RolesPage!Row, ~row.made => row = RolesPage!NotMade,
             i \in BuiltIn => row.made,
         db' = [db EXCEPT ![i] = row]
  PROVE  RoleStored(db') /\ db'[i] = row /\ \A j \in Roles \ {i} : db'[j] = db[j]
  BY DEF RoleStored

LEMMA RoleAnswered ==
  ASSUME NEW r, NEW s, s.who = r.who,
         \/ RolesPage!Reply(r, s)
         \/ \E phase : s = [r EXCEPT !.phase = phase] /\ RolesPage!Answer(r, phase)
  PROVE  /\ wire \ {r} \subseteq wire' /\ wire' \subseteq (wire \ {r}) \cup {s}
         /\ \A q \in wire' \ wire : q = s /\ s.who = "desk"
  BY DEF RolesPage!Reply, RolesPage!Answer

\* An answer to what filled no role.
LEMMA RoleAnswerQuiet ==
  ASSUME RoleServerPart, NEW r \in wire, ~RoleFills(r), NEW phase \in {"ok", "error"}, RolesPage!Answer(r, phase),
         phase = "ok" => r.kind # "save", db' = db, hist' = hist
  PROVE  RoleServerPart'
<1> DEFINE s == [r EXCEPT !.phase = phase]
<1>1. r \in RoleRequests /\ RolesPage!Holds(r)
  BY DEF RoleServerPart
<1>2. /\ s \in RoleRequests /\ s.phase = phase /\ s.who = r.who /\ s.kind = r.kind /\ s.id = r.id
      /\ r.kind = "save" => s.set = r.set /\ s.base = r.base /\ s.ticked = r.ticked /\ s.got = r.got
  BY <1>1, RoleMoved
<1>3. wire \ {r} \subseteq wire' /\ \A q \in wire' \ wire : q = s /\ s.who = "desk"
  BY <1>2, RoleAnswered
<1> HIDE DEF s
<1>4. RolesPage!Holds(s) /\ ~RoleFills(s)
  BY <1>1, <1>2 DEF RolesPage!Holds, RoleFills
<1> QED
  BY <1>2, <1>3, <1>4, RoleServerQuiet DEF RoleServerPart

LEMMA RoleServeRefusalKeeps ==
  ASSUME RolePagePart, RoleServerPart, NEW r \in wire, RolesPage!ServeRefusal(r)
  PROVE  RolePagePart' /\ RoleServerPart'
<1>1. RolesPage!Answer(r, "error") /\ UNCHANGED <<db, hist, shown, due, dialog, form>> /\ r.phase = "sent"
  BY DEF RolesPage!ServeRefusal, RolesPage!Refuse
<1>2. ~RoleFills(r)
  BY <1>1 DEF RoleFills
<1> QED
  BY <1>1, <1>2, RoleAnswerQuiet, RolePageAlike DEF RolePagePart

LEMMA RoleFillingMoved ==
  ASSUME NEW r \in wire, NEW s, RoleFills(s) <=> RoleFills(r), RoleFills(r) => s.new = r.new,
         wire' = (wire \ {r}) \cup {s}, NEW i
  PROVE  /\ RolesPage!Filling(i)' = {} <=> RolesPage!Filling(i) = {}
         /\ (\A q, p \in RolesPage!Filling(i) : q = p) => \A q, p \in RolesPage!Filling(i)' : q = p
<1>1. CASE r \in RolesPage!Filling(i)
  <2>1. s \in RolesPage!Filling(i)'
    BY <1>1 DEF RolesPage!Filling, RoleFills
  <2>2. \A q \in RolesPage!Filling(i)' : q = s \/ q \in RolesPage!Filling(i) \ {r}
    BY DEF RolesPage!Filling
  <2> QED
    BY <1>1, <2>1, <2>2
<1>2. CASE r \notin RolesPage!Filling(i)
  <2>1. ASSUME NEW q \in RolesPage!Filling(i)' PROVE q \in RolesPage!Filling(i)
    BY <1>2, <2>1 DEF RolesPage!Filling, RoleFills
  <2>2. ASSUME NEW q \in RolesPage!Filling(i) PROVE q \in RolesPage!Filling(i)'
    BY <1>2, <2>2 DEF RolesPage!Filling
  <2> QED
    BY <2>1, <2>2
<1> QED
  BY <1>1, <1>2

LEMMA RoleGiveUpKeeps ==
  ASSUME RolePagePart, RoleServerPart, RolesPage!GiveUp
  PROVE  RolePagePart' /\ RoleServerPart'
<1>1. PICK r \in wire :
        /\ r.phase \in {"sent", "read"}
        /\ (wire' = wire \ {r} /\ r.phase = "sent") \/ wire' = (wire \ {r}) \cup {[r EXCEPT !.who = "gone"]}
        /\ UNCHANGED <<db, shown, due, dialog, form, hist>>
  BY DEF RolesPage!GiveUp, RolesPage!Replace
<1>2. RolePagePart'
  BY <1>1, RolePageAlike DEF RolePagePart
<1>3. CASE wire' = wire \ {r} /\ r.phase = "sent"
  BY <1>1, <1>2, <1>3, RoleServerQuiet DEF RoleServerPart, RoleFills
<1>4. CASE wire' = (wire \ {r}) \cup {[r EXCEPT !.who = "gone"]}
  <2> DEFINE s == [r EXCEPT !.who = "gone"]
  <2>1. r \in RoleRequests /\ RolesPage!Holds(r)
    BY DEF RoleServerPart
  <2>2. s \in RoleRequests /\ s.phase = r.phase /\ RolesPage!Holds(s) /\ (RoleFills(s) <=> RoleFills(r))
            /\ (RoleFills(r) => s.new = r.new)
    <3>1. CASE r \in RolesPage!Modals
      BY <2>1, <3>1 DEF RoleRequests, RolesPage!Modals, RolesPage!Whos, RolesPage!Holds, RoleFills
    <3>2. CASE r \in RolesPage!Toggles
      BY <2>1, <3>2 DEF RoleRequests, RolesPage!Toggles, RolesPage!Whos, RolesPage!Holds, RoleFills
    <3>3. CASE r \in RolesPage!Saves
      BY <2>1, <3>3 DEF RoleRequests, RolesPage!Saves, RolesPage!Whos, RolesPage!Holds, RoleFills
    <3> QED
      BY <2>1, <3>1, <3>2, <3>3 DEF RoleRequests
  <2>3. wire' = (wire \ {r}) \cup {s}
    BY <1>4
  <2> HIDE DEF s
  <2>4. \A i \in Roles : RolesPage!GrantsInv(i)'
    <3> SUFFICES ASSUME NEW i \in Roles PROVE RolesPage!GrantsInv(i)'
      OBVIOUS
    <3>1. /\ RolesPage!Filling(i)' = {} <=> RolesPage!Filling(i) = {}
          /\ (\A q, p \in RolesPage!Filling(i) : q = p) => \A q, p \in RolesPage!Filling(i)' : q = p
      BY <2>2, <2>3, RoleFillingMoved
    <3> QED
      BY <1>1, <3>1 DEF RoleServerPart, RolesPage!GrantsInv
  <2>5. RoleStored(db') /\ hist' \in RoleHists /\ hist'.born = hist.born
    BY <1>1 DEF RoleServerPart
  <2>6. \A q \in wire' \ wire : q \in RoleRequests /\ RolesPage!Holds(q)' /\ (q.phase \in {"ok",
            "error"} => q.who = "desk")
    BY <1>1, <2>2, <2>3, <2>5, RoleHoldsStill
  <2> QED
    BY <1>2, <2>4, <2>5, <2>6, RoleServerStep
<1> QED
  BY <1>1, <1>3, <1>4

\* A role nobody had an id of has nothing to fill it, and grants nothing.
LEMMA RoleServeCreateKeeps ==
  ASSUME RolePagePart, RoleServerPart, NEW r \in wire, RolesPage!ServeCreate(r)
  PROVE  RolePagePart' /\ RoleServerPart'
<1>1. PICK i \in RolesPage!New : /\ db' = [db EXCEPT ![i] = [made |-> TRUE, active |-> TRUE, perms |-> {}]]
                       /\ hist' = [hist EXCEPT !.born = @ \cup {i}]
                       /\ RolesPage!Reply(r, [r EXCEPT !.phase = "ok", !.id = i])
  BY DEF RolesPage!ServeCreate
<1>2. r.kind = "create" /\ r.phase = "sent" /\ UNCHANGED <<shown, due, dialog, form>>
  BY DEF RolesPage!ServeCreate
<1> DEFINE s == [r EXCEPT !.phase = "ok", !.id = i]
           row == [made |-> TRUE, active |-> TRUE, perms |-> {}]
<1>3. i \in Roles /\ i \notin hist.born
  BY DEF RolesPage!New
<1>4. r \in RolesPage!Modals
  BY <1>2 DEF RoleServerPart, RoleRequests, RolesPage!Toggles, RolesPage!Saves
<1>5. s \in RoleRequests /\ s.kind = "create" /\ s.phase = "ok" /\ s.who = r.who
  BY <1>2, <1>3, <1>4 DEF RoleRequests, RolesPage!Modals
<1>6. row \in RolesPage!Row /\ row.made /\ row.perms = {}
  BY DEF RolesPage!Row
<1>8. db' = [db EXCEPT ![i] = row] /\ RolesPage!Reply(r, s)
  BY <1>1
<1> HIDE DEF s, row
<1>7. /\ wire \ {r} \subseteq wire' /\ wire' \subseteq (wire \ {r}) \cup {s}
      /\ \A q \in wire' \ wire : q = s /\ s.who = "desk"
  BY <1>5, <1>8, RoleAnswered
<1>9. RoleStored(db') /\ db'[i] = row /\ \A j \in Roles \ {i} : db'[j] = db[j]
  BY <1>3, <1>6, <1>8, RoleRowSaved DEF RoleServerPart
<1>10. /\ hist' \in RoleHists /\ hist'.born = hist.born \cup {i} /\ hist'.meant = hist.meant
       /\ hist'.torn = hist.torn
  BY <1>1, <1>3 DEF RoleServerPart, RoleHists
<1>11. ~RoleFills(s) /\ ~RoleFills(r) /\ RolesPage!Holds(s)'
  BY <1>2, <1>5 DEF RoleFills, RolesPage!Holds
<1>12. ASSUME NEW j \in Roles PROVE RolesPage!GrantsInv(j)'
  <2>1. RolesPage!Filling(j)' = RolesPage!Filling(j) \ {r} /\ r \notin RolesPage!Filling(j)
    BY <1>7, <1>11, RoleFillingLess DEF RolesPage!Filling, RoleFills
  <2>2. CASE j # i
    BY <1>9, <1>10, <2>1, <2>2, RoleGrantsStill DEF RoleServerPart
  <2>3. CASE j = i
    <3>1. RolesPage!GrantsInv(i) /\ ~db[i].made /\ db[i] = RolesPage!NotMade
      BY <1>3 DEF RoleServerPart, RolesPage!GrantsInv, RoleStored
    <3>2. db'[i].made /\ db'[i].perms = {} /\ db[i].perms = {}
      BY <1>6, <1>9, <3>1 DEF RolesPage!NotMade
    <3> QED
      BY <1>10, <2>1, <2>3, <3>1, <3>2 DEF RolesPage!GrantsInv
  <2> QED
    BY <2>2, <2>3
<1>13. RoleServerPart'
  BY <1>5, <1>7, <1>9, <1>10, <1>11, <1>12, RoleServerStep
<1> QED
  BY <1>2, <1>13, RolePageAlike DEF RolePagePart

LEMMA RoleReadRoleKeeps ==
  ASSUME RolePagePart, RoleServerPart, NEW r \in wire, RolesPage!ReadRole(r)
  PROVE  RolePagePart' /\ RoleServerPart'
<1> DEFINE s == [r EXCEPT !.phase = "read", !.row = db[r.id]]
<1>1. /\ r.kind = "edit" /\ r.phase = "sent" /\ wire' = (wire \ {r}) \cup {s}
      /\ UNCHANGED <<db, shown, due, dialog, form, hist>>
  BY DEF RolesPage!ReadRole, RolesPage!Replace
<1>2. r \in RolesPage!Modals /\ r.id \in Roles
  BY <1>1 DEF RoleServerPart, RoleRequests, RolesPage!Toggles, RolesPage!Saves, RolesPage!Holds
<1>3. db[r.id] \in RolesPage!Row /\ r.id \in hist.born
  BY <1>2 DEF RoleServerPart, RoleStored, RolesPage!GrantsInv, RolesPage!ReadRole, RolesPage!Existing
<1>4. s \in RoleRequests /\ s.kind = "edit" /\ s.phase = "read" /\ s.row = db[r.id] /\ s.id = r.id
  BY <1>1, <1>2, <1>3 DEF RoleRequests, RolesPage!Modals
<1> HIDE DEF s
<1>5. RolesPage!Holds(s) /\ ~RoleFills(s) /\ ~RoleFills(r)
  BY <1>1, <1>2, <1>3, <1>4 DEF RolesPage!Holds, RoleFills
<1>6. RoleServerPart'
  BY <1>1, <1>4, <1>5, RoleServerQuiet DEF RoleServerPart
<1> QED
  BY <1>1, <1>6, RolePageAlike DEF RolePagePart

\* A step that answers a request which filled nothing, and changes one role.
LEMMA RoleStep ==
  ASSUME RoleServerPart, NEW r \in wire, ~RoleFills(r), NEW phase \in {"ok", "error"}, RolesPage!Answer(r,
             phase), r.kind # "save",
         NEW i \in Roles, RoleStored(db'), \A j \in Roles \ {i} : db'[j] = db[j],
         hist' \in RoleHists, hist'.born = hist.born, hist'.torn = hist.torn,
         \A j \in Roles \ {i} : hist'.meant[j] = hist.meant[j],
         RolesPage!Filling(i)' = RolesPage!Filling(i) => RolesPage!GrantsInv(i)'
  PROVE  RoleServerPart'
<1> DEFINE s == [r EXCEPT !.phase = phase]
<1>1. r \in RoleRequests /\ RolesPage!Holds(r)
  BY DEF RoleServerPart
<1>2. s \in RoleRequests /\ s.phase = phase /\ s.who = r.who /\ s.kind = r.kind /\ s.id = r.id
  BY <1>1, RoleMoved
<1>3. wire \ {r} \subseteq wire' /\ wire' \subseteq (wire \ {r}) \cup {s} /\ \A q \in wire' \ wire : q = s
          /\ s.who = "desk"
  BY <1>2, RoleAnswered
<1> HIDE DEF s
<1>4. RolesPage!Holds(s)' /\ ~RoleFills(s)
  BY <1>1, <1>2 DEF RolesPage!Holds, RoleFills
<1>5. \A j : RolesPage!Filling(j)' = RolesPage!Filling(j)
  BY <1>3, <1>4, RoleFillingAlike
<1>6. \A j \in Roles : RolesPage!GrantsInv(j)'
  BY <1>5, RoleGrantsStill DEF RoleServerPart
<1> QED
  BY <1>2, <1>3, <1>4, <1>6, RoleServerStep

\* The row as it was read: what it grants, and was meant to, stays, and is nothing
\* if the role is gone.
LEMMA RoleSaveRoleKeeps ==
  ASSUME RolePagePart, RoleServerPart, NEW r \in wire, RolesPage!SaveRole(r)
  PROVE  RolePagePart' /\ RoleServerPart'
<1>1. r.kind = "edit" /\ r.phase = "read" /\ UNCHANGED <<shown, due, dialog, form, hist>>
  BY DEF RolesPage!SaveRole
<1>2. r.id \in Roles /\ r.row \in RolesPage!Row /\ r.id \in hist.born /\ ~RoleFills(r)
  BY <1>1 DEF RoleServerPart, RolesPage!Holds, RoleFills
<1>3. RolePagePart'
  BY <1>1, RolePageAlike DEF RolePagePart
<1>4. CASE UNCHANGED db /\ RolesPage!Answer(r, "error")
  BY <1>1, <1>2, <1>3, <1>4, RoleAnswerQuiet
<1> DEFINE i == r.id
           row == [made |-> TRUE, active |-> r.row.active, perms |-> db[i].perms]
<1>5. CASE db' = [db EXCEPT ![i] = row] /\ RolesPage!Answer(r, "ok")
  <2>1. row \in RolesPage!Row /\ row.made /\ row.perms = db[i].perms
    BY <1>2 DEF RolesPage!Row, RoleServerPart, RoleStored
  <2> HIDE DEF row
  <2>2. RoleStored(db') /\ db'[i] = row /\ \A j \in Roles \ {i} : db'[j] = db[j]
    BY <1>2, <1>5, <2>1, RoleRowSaved DEF RoleServerPart
  <2>3. ~db[i].made => db[i].perms = {}
    BY <1>2 DEF RoleServerPart, RoleStored, RolesPage!NotMade
  <2>4. ASSUME RolesPage!Filling(i)' = RolesPage!Filling(i) PROVE RolesPage!GrantsInv(i)'
    BY <1>1, <1>2, <2>1, <2>2, <2>3, <2>4 DEF RoleServerPart, RolesPage!GrantsInv
  <2>5. hist' \in RoleHists
    BY <1>1 DEF RoleServerPart
  <2> QED
    BY <1>1, <1>2, <1>3, <1>5, <2>2, <2>4, <2>5, RoleStep
<1> QED
  BY <1>4, <1>5 DEF RolesPage!SaveRole

LEMMA RoleServeDeleteKeeps ==
  ASSUME RolePagePart, RoleServerPart, NEW r \in wire, RolesPage!ServeDelete(r)
  PROVE  RolePagePart' /\ RoleServerPart'
<1> DEFINE i == r.id
<1>1. /\ r.kind = "delete" /\ r.phase = "sent" /\ UNCHANGED <<shown, due, dialog, form>> /\ RolesPage!Answer(r,
             "ok")
      /\ db' = [db EXCEPT ![i] = RolesPage!NotMade] /\ hist' = [hist EXCEPT !.meant[i] = {}]
      /\ i \in Roles /\ i \notin BuiltIn
  BY DEF RolesPage!ServeDelete, RolesPage!Existing
<1>2. RolesPage!NotMade \in RolesPage!Row /\ ~RolesPage!NotMade.made /\ RolesPage!NotMade.perms = {}
          /\ ~RoleFills(r)
  BY <1>1 DEF RolesPage!NotMade, RolesPage!Row, RoleFills
<1>3. RoleStored(db') /\ db'[i] = RolesPage!NotMade /\ \A j \in Roles \ {i} : db'[j] = db[j]
  BY <1>1, <1>2, RoleRowSaved DEF RoleServerPart
<1>4. /\ hist' \in RoleHists /\ hist'.born = hist.born /\ hist'.torn = hist.torn /\ hist'.meant[i] = {}
      /\ \A j \in Roles \ {i} : hist'.meant[j] = hist.meant[j]
  BY <1>1 DEF RoleServerPart, RoleHists
<1>5. ASSUME RolesPage!Filling(i)' = RolesPage!Filling(i) PROVE RolesPage!GrantsInv(i)'
  <2>1. RolesPage!GrantsInv(i)
    BY <1>1 DEF RoleServerPart
  <2> QED
    BY <1>2, <1>3, <1>4, <1>5, <2>1 DEF RolesPage!GrantsInv
<1>6. RoleServerPart'
  BY <1>1, <1>2, <1>3, <1>4, <1>5, RoleStep
<1> QED
  BY <1>1, <1>6, RolePageAlike DEF RolePagePart

LEMMA RoleServeToggleKeeps ==
  ASSUME RolePagePart, RoleServerPart, NEW r \in wire, RolesPage!ServeToggle(r)
  PROVE  RolePagePart' /\ RoleServerPart'
<1> DEFINE i == r.id
           row == [db[i] EXCEPT !.active = r.to]
<1>1. /\ r.kind = "toggle" /\ r.phase = "sent" /\ UNCHANGED <<shown, due, dialog, form,
             hist>> /\ RolesPage!Answer(r, "ok")
      /\ db' = [db EXCEPT ![i].active = r.to] /\ i \in Roles /\ db[i].made
  BY DEF RolesPage!ServeToggle, RolesPage!Existing
<1>2. r.to \in BOOLEAN /\ ~RoleFills(r)
  BY <1>1 DEF RoleServerPart, RoleRequests, RolesPage!Modals, RolesPage!Toggles, RolesPage!Saves, RoleFills
<1>3. row \in RolesPage!Row /\ row.made = db[i].made /\ row.perms = db[i].perms
  BY <1>1, <1>2 DEF RoleServerPart, RoleStored, RolesPage!Row
<1>4. db' = [db EXCEPT ![i] = row]
  BY <1>1
<1> HIDE DEF row
<1>5. RoleStored(db') /\ db'[i] = row /\ \A j \in Roles \ {i} : db'[j] = db[j]
  BY <1>1, <1>3, <1>4, RoleRowSaved DEF RoleServerPart
<1>6. ASSUME RolesPage!Filling(i)' = RolesPage!Filling(i) PROVE RolesPage!GrantsInv(i)'
  BY <1>1, <1>3, <1>5, <1>6, RoleGrantsStill DEF RoleServerPart
<1>7. hist' \in RoleHists
  BY <1>1 DEF RoleServerPart
<1>8. RoleServerPart'
  BY <1>1, <1>2, <1>5, <1>6, <1>7, RoleStep
<1> QED
  BY <1>1, <1>8, RolePageAlike DEF RolePagePart

\* -- a role is filled

\* A request starts to fill role i.
LEMMA RoleFillStarts ==
  ASSUME RoleServerPart, NEW r \in wire, ~RoleFills(r), NEW s \in RoleRequests, RoleFills(s), NEW i \in Roles,
             s.new = i,
         wire' = (wire \ {r}) \cup {s}, RoleStored(db'), \A j \in Roles \ {i} : db'[j] = db[j],
         hist' \in RoleHists, hist.born \subseteq hist'.born, hist.torn \subseteq hist'.torn,
             hist'.meant = hist.meant,
         RolesPage!Holds(s)', RolesPage!Filling(i)' = RolesPage!Filling(i) \cup {s} => RolesPage!GrantsInv(i)'
  PROVE  RoleServerPart'
<1>1. ASSUME NEW j \in Roles \ {i} PROVE RolesPage!GrantsInv(j)'
  <2>1. \A q \in RolesPage!Filling(j)' : q \in RolesPage!Filling(j)
    BY DEF RolesPage!Filling
  <2>2. \A q \in RolesPage!Filling(j) : q \in RolesPage!Filling(j)'
    BY DEF RolesPage!Filling, RoleFills
  <2>3. RolesPage!Filling(j)' = RolesPage!Filling(j)
    BY <2>1, <2>2
  <2> QED
    BY <2>3, RoleGrantsStill DEF RoleServerPart
<1>2. RolesPage!Filling(i)' = RolesPage!Filling(i) \cup {s}
  <2>1. \A q \in RolesPage!Filling(i)' : q \in RolesPage!Filling(i) \cup {s}
    BY DEF RolesPage!Filling
  <2>2. \A q \in RolesPage!Filling(i) \cup {s} : q \in RolesPage!Filling(i)'
    BY DEF RolesPage!Filling, RoleFills
  <2> QED
    BY <2>1, <2>2
<1>3. s.phase \notin {"ok", "error"}
  BY DEF RoleFills
<1> QED
  BY <1>1, <1>2, <1>3, RoleServerStep

\* A request that filled a role is answered.
LEMMA RoleFillEnds ==
  ASSUME RoleServerPart, NEW r \in wire, RoleFills(r), NEW s \in RoleRequests, ~RoleFills(s), s.who = r.who,
         RolesPage!Reply(r, s) \/ \E phase : s = [r EXCEPT !.phase = phase] /\ RolesPage!Answer(r, phase),
         RoleStored(db'), \A j \in Roles \ {r.new} : db'[j] = db[j],
         hist' \in RoleHists, hist'.born = hist.born, hist.torn \subseteq hist'.torn,
         \A j \in Roles \ {r.new} : hist'.meant[j] = hist.meant[j],
         RolesPage!Holds(s)',
             r.new \in Roles
                 /\ RolesPage!Filling(r.new)' = RolesPage!Filling(r.new) \ {r} => RolesPage!GrantsInv(r.new)'
  PROVE  RoleServerPart'
<1>1. wire \ {r} \subseteq wire' /\ wire' \subseteq (wire \ {r}) \cup {s} /\ \A q \in wire' \ wire : q = s
          /\ s.who = "desk"
  BY RoleAnswered
<1>2. \A j : RolesPage!Filling(j)' = RolesPage!Filling(j) \ {r}
  BY <1>1, RoleFillingLess
<1>3. ASSUME NEW j \in Roles \ {r.new} PROVE RolesPage!GrantsInv(j)'
  <2>1. r \notin RolesPage!Filling(j)
    BY DEF RolesPage!Filling
  <2> QED
    BY <1>2, <2>1, RoleGrantsStill DEF RoleServerPart
<1> QED
  BY <1>1, <1>2, <1>3, RoleServerStep

\* Of a role nothing tore, the request that fills it is the only one.
LEMMA RoleOnlyFiller ==
  ASSUME RoleServerPart, NEW r \in wire, RoleFills(r)
  PROVE  /\ r.new \in Roles /\ r.new \in hist.born /\ r \in RolesPage!Filling(r.new) /\ RolesPage!Holds(r)
                /\ r \in RoleRequests
         /\ r.new \notin hist.torn => RolesPage!Filling(r.new) \ {r} = {} /\ db[r.new].perms = {}
<1>1. r.new \in Roles /\ r.new \in hist.born /\ RolesPage!Holds(r) /\ r \in RoleRequests
  BY DEF RoleServerPart, RoleHists, RolesPage!Holds, RoleFills
<1>2. r \in RolesPage!Filling(r.new)
  BY DEF RolesPage!Filling, RoleFills
<1>3. RolesPage!GrantsInv(r.new)
  BY <1>1 DEF RoleServerPart
<1> QED
  BY <1>1, <1>2, <1>3 DEF RolesPage!GrantsInv

LEMMA RoleClearGrantsKeeps ==
  ASSUME RolesPage!RoleAssumption, RolePagePart, RoleServerPart, NEW r \in wire, RolesPage!ClearGrants(r)
  PROVE  RolePagePart' /\ RoleServerPart'
<1> DEFINE i == r.id
           row == [db[i] EXCEPT !.perms = {}]
<1>0. PICK s : s = [r EXCEPT !.phase = "read", !.old = db[i].perms, !.new = i]
  OBVIOUS
<1>1. /\ r.kind = "save" /\ r.phase = "sent" /\ UNCHANGED <<shown, due, dialog, form>>
      /\ i \in Roles /\ db[i].made /\ wire' = (wire \ {r}) \cup {s}
      /\ db' = [db EXCEPT ![i] = row]
      /\ hist' = [hist EXCEPT !.torn = @ \cup {j \in {i} : RolesPage!BeingFilled(j, r)}]
  BY <1>0 DEF RolesPage!ClearGrants, RolesPage!Existing, RolesPage!Replace
<1>2. r \in RolesPage!Saves /\ RolesPage!Holds(r)
  BY <1>1 DEF RoleServerPart, RoleRequests, RolesPage!Modals, RolesPage!Toggles
<1>3. row \in RolesPage!Row /\ row.made /\ row.perms = {} /\ db[i].perms \in SUBSET Grants
  BY <1>1 DEF RoleServerPart, RoleStored, RolesPage!Row
<1>4. /\ s \in RoleRequests /\ s.kind = "save" /\ s.phase = "read" /\ s.new = i /\ s.id = i /\ s.old = db[i].perms
      /\ s.set = r.set /\ s.base = r.base /\ s.ticked = r.ticked
  BY <1>0, <1>1, <1>2, <1>3 DEF RoleRequests, RolesPage!Saves
<1> HIDE DEF row
<1>5. RoleStored(db') /\ db'[i] = row /\ \A j \in Roles \ {i} : db'[j] = db[j]
  BY <1>1, <1>3, RoleRowSaved DEF RoleServerPart
<1>6. /\ hist' \in RoleHists /\ hist'.born = hist.born /\ hist'.meant = hist.meant /\ hist.torn \subseteq hist'.torn
      /\ RolesPage!BeingFilled(i, r) => i \in hist'.torn
  BY <1>1 DEF RoleServerPart, RoleHists
<1>7. RolesPage!GrantsInv(i) /\ i \in hist.born
  BY <1>1 DEF RoleServerPart, RolesPage!GrantsInv
<1>8. ~RoleFills(r) /\ RoleFills(s)
  BY <1>1, <1>4 DEF RoleFills
<1>12. r.kind = "save" /\ (s.base # None => s.set = RolesPage!SymDiff(s.base, s.ticked))
  BY <1>1, <1>2, <1>4 DEF RolesPage!Holds
<1>13. RolesPage!Holds(s)'
  BY <1>3, <1>4, <1>6, <1>7, <1>12 DEF RolesPage!Holds
<1>9. r \notin RolesPage!Filling(i)
  BY <1>1 DEF RolesPage!Filling
<1>10. ASSUME RolesPage!Filling(i)' = RolesPage!Filling(i) \cup {s} PROVE RolesPage!GrantsInv(i)'
  <2>1. i \notin hist'.torn => RolesPage!Filling(i) = {}
    BY <1>6, <1>9 DEF RolesPage!BeingFilled
  <2> QED
    BY <1>3, <1>5, <1>6, <1>7, <1>10, <2>1 DEF RolesPage!GrantsInv
<1>11. RoleServerPart'
  <2>1. i \in Roles /\ wire' = (wire \ {r}) \cup {s}
    BY <1>1
  <2> HIDE DEF i
  <2> QED
    BY <1>4, <1>5, <1>6, <1>8, <1>10, <1>13, <2>1, RoleFillStarts
<1> QED
  BY <1>1, <1>11, RolePageAlike DEF RolePagePart

\* It fills a role nobody else can be filling.
LEMMA RoleMakeCloneKeeps ==
  ASSUME RolesPage!RoleAssumption, RolePagePart, RoleServerPart, NEW r \in wire, RolesPage!MakeClone(r)
  PROVE  RolePagePart' /\ RoleServerPart'
<1> DEFINE row == [made |-> TRUE, active |-> TRUE, perms |-> {}]
<1>1. PICK i \in RolesPage!New : /\ db' = [db EXCEPT ![i] = row]
                       /\ hist' = [hist EXCEPT !.born = @ \cup {i}]
                       /\ RolesPage!Replace(r, [r EXCEPT !.phase = "read", !.new = i])
  BY DEF RolesPage!MakeClone
<1> DEFINE s == [r EXCEPT !.phase = "read", !.new = i]
<1>2. /\ r.kind = "clone" /\ r.phase = "sent" /\ UNCHANGED <<shown, due, dialog, form>>
      /\ r.id \in Roles /\ db[r.id].made /\ wire' = (wire \ {r}) \cup {s}
  BY <1>1 DEF RolesPage!MakeClone, RolesPage!Existing, RolesPage!Replace
<1>3. i \in Roles /\ i \notin hist.born /\ r.id # i
  BY <1>2 DEF RolesPage!New, RoleServerPart, RolesPage!GrantsInv
<1>4. r \in RolesPage!Modals /\ RolesPage!Holds(r)
  BY <1>2 DEF RoleServerPart, RoleRequests, RolesPage!Toggles, RolesPage!Saves
<1>5. s \in RoleRequests /\ s.kind = "clone" /\ s.phase = "read" /\ s.new = i /\ s.id = r.id
  BY <1>2, <1>3, <1>4 DEF RoleRequests, RolesPage!Modals
<1>6. row \in RolesPage!Row /\ row.made /\ row.perms = {}
  BY DEF RolesPage!Row
<1> HIDE DEF s, row
<1>7. RoleStored(db') /\ db'[i] = row /\ \A j \in Roles \ {i} : db'[j] = db[j]
  BY <1>1, <1>3, <1>6, RoleRowSaved DEF RoleServerPart
<1>8. /\ hist' \in RoleHists /\ hist'.born = hist.born \cup {i} /\ hist'.meant = hist.meant
      /\ hist'.torn = hist.torn
  BY <1>1, <1>3 DEF RoleServerPart, RoleHists
<1>9. ~RoleFills(r) /\ RoleFills(s) /\ RolesPage!Holds(s)'
  BY <1>2, <1>3, <1>4, <1>5, <1>8 DEF RoleFills, RolesPage!Holds
<1>10. RolesPage!Filling(i) = {}
  BY <1>3 DEF RolesPage!Filling, RoleServerPart, RolesPage!Holds
<1>11. ASSUME RolesPage!Filling(i)' = RolesPage!Filling(i) \cup {s} PROVE RolesPage!GrantsInv(i)'
  BY <1>6, <1>7, <1>8, <1>10, <1>11 DEF RolesPage!GrantsInv
<1>12. RoleServerPart'
  BY <1>2, <1>3, <1>5, <1>7, <1>8, <1>9, <1>11, RoleFillStarts
<1> QED
  BY <1>2, <1>12, RolePageAlike DEF RolePagePart

\* The answer to a request that filled a role and did not end well: where it counts,
\* the role is torn.
LEMMA RoleTearKeeps ==
  ASSUME RoleServerPart, NEW r \in wire, RoleFills(r), RolesPage!Answer(r, "error"), db' = db, hist' \in RoleHists,
         hist'.born = hist.born, hist'.meant = hist.meant, hist.torn \subseteq hist'.torn,
         db[r.new].made => r.new \in hist'.torn
  PROVE  RoleServerPart'
<1> DEFINE s == [r EXCEPT !.phase = "error"]
<1>1. r.new \in Roles /\ RolesPage!Holds(r) /\ r \in RoleRequests
  BY RoleOnlyFiller
<1>2. /\ s \in RoleRequests /\ s.phase = "error" /\ s.who = r.who /\ s.kind = r.kind /\ s.id = r.id
      /\ r.kind = "save" => s.set = r.set /\ s.base = r.base /\ s.ticked = r.ticked /\ s.got = r.got
  BY <1>1, RoleMoved
<1>3. \E phase : s = [r EXCEPT !.phase = phase] /\ RolesPage!Answer(r, phase)
  OBVIOUS
<1> HIDE DEF s
<1>4. RolesPage!Holds(s)' /\ ~RoleFills(s)
  BY <1>1, <1>2 DEF RolesPage!Holds, RoleFills
<1>5. ASSUME RolesPage!Filling(r.new)' = RolesPage!Filling(r.new) \ {r} PROVE RolesPage!GrantsInv(r.new)'
  <2>1. RolesPage!GrantsInv(r.new) /\ (~db[r.new].made => db[r.new].perms = {})
    BY <1>1 DEF RoleServerPart, RoleStored, RolesPage!NotMade
  <2> QED
    BY <1>5, <2>1 DEF RolesPage!GrantsInv
<1>6. RoleStored(db')
  BY DEF RoleServerPart
<1> QED
  BY <1>2, <1>3, <1>4, <1>5, <1>6, RoleFillEnds

\* What the admin meant is what is ticked, unless somebody granted something
\* between the two statements.
LEMMA RoleInsertGrantsKeeps ==
  ASSUME RolesPage!RoleAssumption, RolePagePart, RoleServerPart, NEW r \in wire, RolesPage!InsertGrants(r)
  PROVE  RolePagePart' /\ RoleServerPart'
<1> DEFINE i == r.id
<1>1. r.kind = "save" /\ r.phase = "read" /\ UNCHANGED <<shown, due, dialog, form>>
  BY DEF RolesPage!InsertGrants
<1>2. RolePagePart'
  BY <1>1, RolePageAlike DEF RolePagePart
<1>3. RoleFills(r) /\ r \in RolesPage!Saves
  BY <1>1 DEF RoleFills, RoleServerPart, RoleRequests, RolesPage!Modals, RolesPage!Toggles
<1>4. RolesPage!Holds(r) /\ r.new = i /\ i \in Roles /\ r.old \in SUBSET Grants
  BY <1>1, <1>3, RoleOnlyFiller DEF RolesPage!Holds
<1>5. CASE db[i].made /\ r.set \cap db[i].perms = {}
  <2>1. PICK perms \in SUBSET Grants : perms = db[i].perms \cup r.set
    BY <1>3, <1>4 DEF RoleServerPart, RoleStored, RolesPage!Row, RolesPage!Saves
  <2>2. PICK got \in RolesPage!Card : got = [active |-> db[i].active, perms |-> perms]
    BY <1>4 DEF RoleServerPart, RoleStored, RolesPage!Row, RolesPage!Card
  <2> DEFINE row == [db[i] EXCEPT !.perms = perms]
             s == [r EXCEPT !.phase = "ok", !.got = got]
  <2>3. db' = [db EXCEPT ![i] = row] /\ RolesPage!Reply(r,
            s) /\ hist' = [hist EXCEPT !.meant[i] = RolesPage!Meant(r)]
    BY <1>1, <1>5, <2>1, <2>2 DEF RolesPage!InsertGrants
  <2>4. row \in RolesPage!Row /\ row.made /\ row.perms = perms
    BY <1>4, <1>5 DEF RoleServerPart, RoleStored, RolesPage!Row
  <2>5. /\ s \in RoleRequests /\ s.kind = "save" /\ s.phase = "ok" /\ s.got = got /\ s.who = r.who
        /\ s.set = r.set /\ s.base = r.base /\ s.ticked = r.ticked
    BY <1>1, <1>3 DEF RoleRequests, RolesPage!Saves
  <2> HIDE DEF row, s
  <2>6. RoleStored(db') /\ db'[i] = row /\ \A j \in Roles \ {i} : db'[j] = db[j]
    BY <1>4, <2>3, <2>4, RoleRowSaved DEF RoleServerPart
  <2>7. RolesPage!Meant(r) \in SUBSET Grants
    BY <1>3, <1>4, RoleSymDiffTyped DEF RolesPage!Meant, RolesPage!Saves
  <2>8. /\ hist' \in RoleHists /\ hist'.born = hist.born /\ hist'.torn = hist.torn
               /\ hist'.meant[i] = RolesPage!Meant(r)
        /\ \A j \in Roles \ {i} : hist'.meant[j] = hist.meant[j]
    BY <1>4, <2>3, <2>7 DEF RoleServerPart, RoleHists
  <2>9. r.base # None => r.set = RolesPage!SymDiff(r.base, r.ticked)
    BY <1>1, <1>4 DEF RolesPage!Holds
  <2>10. RolesPage!Meant(r) = r.set
    BY <1>4, <2>9 DEF RolesPage!Meant, RolesPage!RoleAssumption
  <2>11. ~RoleFills(s) /\ RolesPage!Holds(s)'
    BY <2>5, <2>9 DEF RoleFills, RolesPage!Holds
  <2>12. ASSUME RolesPage!Filling(i)' = RolesPage!Filling(i) \ {r} PROVE RolesPage!GrantsInv(i)'
    <3>1. i \in hist.born /\ (i \notin hist.torn => RolesPage!Filling(i)' = {} /\ db[i].perms = {})
      BY <1>3, <1>4, <2>12, RoleOnlyFiller
    <3>2. db'[i].made /\ (i \notin hist.torn => db'[i].perms = hist'.meant[i])
      BY <2>1, <2>4, <2>6, <2>8, <2>10, <3>1
    <3> QED
      BY <2>8, <3>1, <3>2 DEF RolesPage!GrantsInv
  <2>13. RoleServerPart'
    <3> HIDE DEF i
    <3> QED
      BY <1>3, <1>4, <2>3, <2>5, <2>6, <2>8, <2>11, <2>12, RoleFillEnds
  <2> QED
    BY <1>2, <2>13
<1>6. CASE ~(db[i].made /\ r.set \cap db[i].perms = {})
  <2>1. RolesPage!Answer(r,
            "error") /\ hist' = [hist EXCEPT !.torn = @ \cup {j \in {i} : db[j].made}] /\ UNCHANGED db
    BY <1>6 DEF RolesPage!InsertGrants
  <2>2. /\ hist' \in RoleHists /\ hist'.born = hist.born /\ hist'.meant = hist.meant
               /\ hist.torn \subseteq hist'.torn
        /\ db[i].made => i \in hist'.torn
    BY <1>4, <2>1 DEF RoleServerPart, RoleHists
  <2> QED
    BY <1>2, <1>3, <1>4, <2>1, <2>2, RoleTearKeeps
<1> QED
  BY <1>5, <1>6

\* The clone of a role nobody is at grants, and was meant to, what its source does.
LEMMA RoleCopyGrantsKeeps ==
  ASSUME RolesPage!RoleAssumption, RolePagePart, RoleServerPart, NEW r \in wire, RolesPage!CopyGrants(r)
  PROVE  RolePagePart' /\ RoleServerPart'
<1>1. r.kind = "clone" /\ r.phase = "read" /\ UNCHANGED <<shown, due, dialog, form>>
  BY DEF RolesPage!CopyGrants
<1>2. RolePagePart'
  BY <1>1, RolePageAlike DEF RolePagePart
<1>3. RoleFills(r) /\ r \in RolesPage!Modals
  BY <1>1 DEF RoleFills, RoleServerPart, RoleRequests, RolesPage!Toggles, RolesPage!Saves
<1>4. RolesPage!Holds(r) /\ r.new \in Roles /\ r.id \in Roles /\ r.new # r.id
  BY <1>1, <1>3, RoleOnlyFiller DEF RolesPage!Holds
<1> DEFINE i == r.new
<1>5. CASE db[i].made /\ db[r.id].perms \cap db[i].perms = {}
  <2>1. PICK perms \in SUBSET Grants : perms = db[i].perms \cup db[r.id].perms
    BY <1>4 DEF RoleServerPart, RoleStored, RolesPage!Row
  <2> DEFINE row == [db[i] EXCEPT !.perms = perms]
             s == [r EXCEPT !.phase = "ok", !.id = i]
  <2>2. /\ db' = [db EXCEPT ![i] = row] /\ RolesPage!Reply(r, s)
        /\ hist' = [hist EXCEPT !.meant[i] = hist.meant[r.id],
                                !.torn = @ \cup {j \in {i} : r.id \in hist.torn \/ RolesPage!BeingFilled(r.id, r)}]
    BY <1>5, <2>1 DEF RolesPage!CopyGrants
  <2>3. row \in RolesPage!Row /\ row.made /\ row.perms = perms
    BY <1>4, <1>5 DEF RoleServerPart, RoleStored, RolesPage!Row
  <2>4. s \in RoleRequests /\ s.kind = "clone" /\ s.phase = "ok" /\ s.who = r.who /\ s.id = i
    BY <1>1, <1>3, <1>4 DEF RoleRequests, RolesPage!Modals
  <2> HIDE DEF row, s
  <2>5. RoleStored(db') /\ db'[i] = row /\ \A j \in Roles \ {i} : db'[j] = db[j]
    BY <1>4, <2>2, <2>3, RoleRowSaved DEF RoleServerPart
  <2>6. /\ hist' \in RoleHists /\ hist'.born = hist.born /\ hist.torn \subseteq hist'.torn
        /\ hist'.meant[i] = hist.meant[r.id] /\ \A j \in Roles \ {i} : hist'.meant[j] = hist.meant[j]
        /\ r.id \in hist.torn \/ RolesPage!BeingFilled(r.id, r) => i \in hist'.torn
    BY <1>4, <2>2 DEF RoleServerPart, RoleHists
  <2>7. ~RoleFills(s) /\ RolesPage!Holds(s)'
    BY <1>4, <2>4 DEF RoleFills, RolesPage!Holds
  <2>8. ASSUME RolesPage!Filling(i)' = RolesPage!Filling(i) \ {r} PROVE RolesPage!GrantsInv(i)'
    <3>1. i \in hist.born /\ (i \notin hist.torn => RolesPage!Filling(i)' = {} /\ db[i].perms = {})
      BY <1>3, <2>8, RoleOnlyFiller
    <3>2. r \notin RolesPage!Filling(r.id)
      BY <1>4 DEF RolesPage!Filling
    <3>3. i \notin hist'.torn => r.id \notin hist.torn /\ RolesPage!Filling(r.id) = {}
      BY <2>6, <3>2 DEF RolesPage!BeingFilled
    <3>4. i \notin hist'.torn => db[r.id].perms = hist.meant[r.id]
      BY <1>4, <3>3 DEF RoleServerPart, RolesPage!GrantsInv
    <3>5. db'[i].made /\ (i \notin hist'.torn => db'[i].perms = hist'.meant[i] /\ RolesPage!Filling(i)' = {})
      BY <2>1, <2>3, <2>5, <2>6, <3>1, <3>4
    <3> QED
      BY <2>6, <3>1, <3>5 DEF RolesPage!GrantsInv
  <2>9. RoleServerPart'
    BY <1>3, <1>4, <2>2, <2>4, <2>5, <2>6, <2>7, <2>8, RoleFillEnds
  <2> QED
    BY <1>2, <2>9
<1>6. CASE ~(db[i].made /\ db[r.id].perms \cap db[i].perms = {})
  <2>1. RolesPage!Answer(r,
            "error") /\ hist' = [hist EXCEPT !.torn = @ \cup {j \in {i} : db[j].made}] /\ UNCHANGED db
    BY <1>6 DEF RolesPage!CopyGrants
  <2>2. /\ hist' \in RoleHists /\ hist'.born = hist.born /\ hist'.meant = hist.meant
               /\ hist.torn \subseteq hist'.torn
        /\ db[i].made => i \in hist'.torn
    BY <1>4, <2>1 DEF RoleServerPart, RoleHists
  <2> QED
    BY <1>2, <1>3, <2>1, <2>2, RoleTearKeeps
<1> QED
  BY <1>5, <1>6

LEMMA RoleBreakKeeps ==
  ASSUME RolePagePart, RoleServerPart, NEW r \in wire, RolesPage!Break(r)
  PROVE  RolePagePart' /\ RoleServerPart'
<1>1. /\ RoleFills(r) /\ RolesPage!Answer(r, "error") /\ hist' = [hist EXCEPT !.torn = @ \cup {r.new}]
      /\ UNCHANGED <<db, shown, due, dialog, form>>
  BY DEF RolesPage!Break, RoleFills
<1>2. r.new \in Roles
  BY <1>1, RoleOnlyFiller
<1>3. /\ hist' \in RoleHists /\ hist'.born = hist.born /\ hist'.meant = hist.meant /\ hist.torn \subseteq hist'.torn
      /\ r.new \in hist'.torn
  BY <1>1, <1>2 DEF RoleServerPart, RoleHists
<1> QED
  BY <1>1, <1>3, RoleTearKeeps, RolePageAlike DEF RolePagePart

\* -- the page hears

LEMMA RoleSettleKeeps ==
  ASSUME RoleServerPart, NEW r \in wire, r.phase \in {"ok", "error"}, RolesPage!Settle(r), UNCHANGED <<db, hist>>
  PROVE  RoleServerPart'
<1>1. wire' = wire \ {r} /\ ~RoleFills(r)
  BY DEF RolesPage!Settle, RoleFills
<1> QED
  BY <1>1, RoleServerQuiet DEF RoleServerPart

\* The list is asked for again; another role may be selected.
LEMMA RoleInvalidateKeeps ==
  ASSUME RolesPage!RoleAssumption, RolePagePart, NEW f, RoleFormShape(f), RoleSeated(f, RolesPage!Rows),
             RolesPage!InvalidateRoles(f),
         UNCHANGED shown, dialog' = None \/ dialog' \in RolesPage!Dialogs
  PROVE  RolePagePart'
<1>1. due' = {"roles"} /\ form' = [f EXCEPT !.coming = None]
  BY DEF RolesPage!InvalidateRoles
<1>2. /\ RoleFormShape(form') /\ form'.coming = None /\ form'.tab = f.tab /\ form'.selected = f.selected
      /\ form'.matrix = f.matrix
  BY <1>1 DEF RoleFormShape
<1> QED
  BY <1>1, <1>2 DEF RolePagePart, RoleSeated, RolesPage!Rows

LEMMA RoleSelectedSeats ==
  ASSUME RolesPage!RoleAssumption, RolePagePart, NEW i \in Roles \cup {None}
  PROVE  LET f == RolesPage!Seat([form EXCEPT !.selected = i],
             RolesPage!Rows) IN RoleFormShape(f) /\ RoleSeated(f, RolesPage!Rows)
<1> DEFINE f == [form EXCEPT !.selected = i]
<1>1. /\ RoleFormShape(f) /\ f.tab = form.tab /\ f.selected = i /\ f.matrix = form.matrix
      /\ f.coming = form.coming
  BY DEF RolePagePart, RoleFormShape
<1> HIDE DEF f
<1>2. RoleFormShape(RolesPage!Seat(f, RolesPage!Rows)) /\ RoleSeated(RolesPage!Seat(f, RolesPage!Rows),
          RolesPage!Rows)
  BY <1>1, RoleSeatSeats DEF RolePagePart, RoleSeated, RolesPage!Rows
<1> QED
  BY <1>2 DEF f

LEMMA RoleSavedKeeps ==
  ASSUME RolesPage!RoleAssumption, RolePagePart, RoleServerPart, NEW r \in wire,
             RolesPage!HandleRoleSaved(r) \/ RolesPage!HandleCloned(r)
  PROVE  RolePagePart' /\ RoleServerPart'
<1>1. PICK kinds : RolesPage!RoleSaved(r, kinds) /\ r.kind \in {"create", "edit", "clone"}
  BY DEF RolesPage!HandleRoleSaved, RolesPage!HandleCloned
<1>2. /\ r.phase = "ok" /\ RolesPage!Settle(r) /\ UNCHANGED <<db, shown,
             hist>> /\ (dialog' = None \/ dialog' = dialog)
      /\ RolesPage!InvalidateRoles(RolesPage!Seat([form EXCEPT !.selected = r.id], RolesPage!Rows))
  BY <1>1 DEF RolesPage!RoleSaved
<1>3. r.id \in Roles \cup {None}
  BY <1>1 DEF RoleServerPart, RoleRequests, RolesPage!Modals, RolesPage!Toggles, RolesPage!Saves
<1>4. RolePagePart'
  BY <1>2, <1>3, RoleSelectedSeats, RoleInvalidateKeeps DEF RolePagePart
<1> QED
  BY <1>2, <1>4, RoleSettleKeeps

LEMMA RoleHandleDeletedKeeps ==
  ASSUME RolesPage!RoleAssumption, RolePagePart, RoleServerPart, NEW r \in wire, RolesPage!HandleDeleted(r)
  PROVE  RolePagePart' /\ RoleServerPart'
<1>1. PICK selected : RolesPage!InvalidateRoles(RolesPage!Seat([form EXCEPT !.selected = IF selected
          = r.id THEN None ELSE @], RolesPage!Rows))
  BY DEF RolesPage!HandleDeleted
<1>2. /\ r.phase = "ok" /\ RolesPage!Settle(r) /\ UNCHANGED <<db, shown,
             hist>> /\ (dialog' = None \/ dialog' = dialog)
  BY DEF RolesPage!HandleDeleted
<1>3. PICK i \in Roles \cup {None} : i = IF selected = r.id THEN None ELSE form.selected
  BY DEF RolePagePart, RoleSeated
<1>4. RolesPage!InvalidateRoles(RolesPage!Seat([form EXCEPT !.selected = i], RolesPage!Rows))
  BY <1>1, <1>3
<1>5. RolePagePart'
  BY <1>2, <1>4, RoleSelectedSeats, RoleInvalidateKeeps DEF RolePagePart
<1> QED
  BY <1>2, <1>5, RoleSettleKeeps

LEMMA RoleHandleToggledKeeps ==
  ASSUME RolesPage!RoleAssumption, RolePagePart, RoleServerPart, NEW r \in wire,
             RolesPage!HandleToggled(r) \/ RolesPage!HearError(r)
  PROVE  RolePagePart' /\ RoleServerPart'
<1>1. r.phase \in {"ok", "error"} /\ RolesPage!Settle(r) /\ UNCHANGED <<db, shown, dialog, hist>>
  BY DEF RolesPage!HandleToggled, RolesPage!HearError
<1>2. CASE RolesPage!HandleToggled(r)
  BY <1>1, <1>2, RoleSettleKeeps, RoleInvalidateKeeps DEF RolesPage!HandleToggled, RolePagePart
<1>3. CASE RolesPage!HearError(r)
  BY <1>1, <1>3, RoleSettleKeeps, RolePageAlike DEF RolesPage!HearError, RolePagePart
<1> QED
  BY <1>2, <1>3

\* What was ticked while the answer was on its way stays ticked: it counts from
\* what the answer says.
LEMMA RolePermissionsSavedKeeps ==
  ASSUME RolesPage!RoleAssumption, RolePagePart, RoleServerPart, NEW r \in wire, RolesPage!HandlePermissionsSaved(r)
  PROVE  RolePagePart' /\ RoleServerPart'
<1> DEFINE m == form.matrix
<1>1. r.kind = "save" /\ r.phase = "ok" /\ RolesPage!Settle(r) /\ UNCHANGED <<db, due, dialog, hist>>
  BY DEF RolesPage!HandlePermissionsSaved
<1>2. r.got \in RolesPage!Card /\ r.got.perms \in SUBSET Grants
  BY <1>1 DEF RoleServerPart, RolesPage!Holds, RolesPage!Card
<1>3. RoleCards(RolesPage!Rows') /\ DOMAIN RolesPage!Rows' = DOMAIN RolesPage!Rows
          /\ shown' = [k \in {"roles"} |-> shown'[k]]
  <2>1. CASE r.id \in DOMAIN RolesPage!Rows
    <3>1. shown' = [shown EXCEPT !["roles"][r.id] = r.got]
      BY <2>1 DEF RolesPage!HandlePermissionsSaved
    <3>2. shown' = [shown EXCEPT !["roles"] = [shown["roles"] EXCEPT ![r.id] = r.got]]
      BY <3>1
    <3>3. shown'["roles"] = [shown["roles"] EXCEPT ![r.id] = r.got] /\ shown' = [k \in {"roles"} |-> shown'[k]]
      BY <3>2 DEF RolePagePart
    <3> QED
      BY <1>2, <2>1, <3>3 DEF RolePagePart, RoleCards, RolesPage!Rows
  <2>2. CASE r.id \notin DOMAIN RolesPage!Rows
    BY <2>2 DEF RolesPage!HandlePermissionsSaved, RolePagePart, RolesPage!Rows
  <2> QED
    BY <2>1, <2>2
<1>4. RoleFormShape(form') /\ RoleSeated(form', RolesPage!Rows') /\ form'.coming = form.coming
  <2>1. CASE form' = form
    BY <1>3, <2>1 DEF RolePagePart, RoleSeated
  <2>2. CASE form' # form
    <3> DEFINE new == [m EXCEPT !.dirty = FALSE, !.base = r.got.perms, !.ticked = RolesPage!SymDiff(m.set,
            r.got.perms)]
    <3>1. m # None /\ m \in RolesPage!Matrices
      BY <2>2 DEF RolesPage!HandlePermissionsSaved, RolePagePart, RoleSeated
    <3>2. form' = [form EXCEPT !.matrix = new]
      BY <2>2, <3>1 DEF RolesPage!HandlePermissionsSaved, RolePagePart, RoleFormShape, RolesPage!Matrices
    <3>3. RolesPage!SymDiff(m.set, r.got.perms) \in SUBSET Grants
      BY <1>2, <3>1, RoleSymDiffTyped DEF RolesPage!Matrices
    <3>4. /\ new \in RolesPage!Matrices /\ new.set = m.set /\ new.base = r.got.perms
          /\ new.ticked = RolesPage!SymDiff(m.set, r.got.perms)
      BY <1>2, <3>1, <3>3 DEF RolesPage!Matrices
    <3>5. new.set = RolesPage!SymDiff(new.base, new.ticked)
      BY <3>4 DEF RolesPage!SymDiff
    <3>6. new # None
      BY <3>4 DEF RolesPage!RoleAssumption
    <3> HIDE DEF new
    <3>7. /\ RoleFormShape(form') /\ form'.matrix = new /\ form'.tab = form.tab /\ form'.selected = form.selected
          /\ form'.coming = form.coming
      BY <3>2 DEF RolePagePart, RoleFormShape
    <3> QED
      BY <1>3, <3>1, <3>4, <3>5, <3>6, <3>7 DEF RolePagePart, RoleSeated
  <2> QED
    BY <2>1, <2>2
<1>5. RolePagePart'
  BY <1>1, <1>3, <1>4 DEF RolePagePart
<1> QED
  BY <1>1, <1>5, RoleSettleKeeps

\* -- the invariant

LEMMA RoleInitIInv == ASSUME RolesPage!RoleAssumption, RolesPage!Init PROVE RolesPage!IInv
<1>1. shown["roles"] = [i \in {} |-> None] /\ DOMAIN RolesPage!Rows = {}
  BY DEF RolesPage!Init, RolesPage!Rows
<1>2. RolePagePart
  BY <1>1 DEF RolesPage!Init, RolePagePart, RoleCards, RoleFormShape, RoleSeated
<1>3. RoleStored(db)
  BY DEF RolesPage!Init, RolesPage!RoleAssumption, RoleStored, RolesPage!Row, RolesPage!NotMade
<1>4. hist \in RoleHists /\ wire = {}
  BY DEF RolesPage!Init, RolesPage!RoleAssumption, RoleHists, RolesPage!Numbers
<1>5. \A i \in Roles : RolesPage!GrantsInv(i)
  BY <1>4 DEF RolesPage!Init, RolesPage!GrantsInv, RolesPage!Filling, RolesPage!NotMade
<1> QED
  BY <1>2, <1>3, <1>4, <1>5, RoleHalves DEF RoleServerPart

LEMMA RoleNextIInv == ASSUME RolesPage!RoleAssumption, RolesPage!IInv,
    [RolesPage!Next]_deskVars PROVE RolesPage!IInv'
<1>1. RolePagePart /\ RoleServerPart
  BY RoleHalves
<1>2. ASSUME UNCHANGED deskVars PROVE RolePagePart' /\ RoleServerPart'
  BY <1>1, <1>2, RolePageAlike, RoleServerAlike DEF deskVars, RolePagePart
<1>3. ASSUME RolesPage!Next PROVE RolePagePart' /\ RoleServerPart'
  <2>1. ASSUME NEW r \in wire,
               \/ RolesPage!ServeRefusal(r) \/ RolesPage!ServeCreate(r) \/ RolesPage!ReadRole(r)
                      \/ RolesPage!SaveRole(r) \/ RolesPage!ServeDelete(r)
               \/ RolesPage!ServeToggle(r) \/ RolesPage!ClearGrants(r) \/ RolesPage!InsertGrants(r)
                      \/ RolesPage!MakeClone(r) \/ RolesPage!CopyGrants(r)
               \/ RolesPage!Break(r)
        PROVE  RolePagePart' /\ RoleServerPart'
    BY <1>1, <2>1, RoleServeRefusalKeeps, RoleServeCreateKeeps, RoleReadRoleKeeps, RoleSaveRoleKeeps,
       RoleServeDeleteKeeps,
       RoleServeToggleKeeps, RoleClearGrantsKeeps, RoleInsertGrantsKeeps, RoleMakeCloneKeeps,
           RoleCopyGrantsKeeps, RoleBreakKeeps
  <2>2. ASSUME NEW r \in wire,
               \/ RolesPage!HandleRoleSaved(r) \/ RolesPage!HandleCloned(r) \/ RolesPage!HandleDeleted(r)
                      \/ RolesPage!HandleToggled(r)
               \/ RolesPage!HandlePermissionsSaved(r) \/ RolesPage!HearError(r)
        PROVE  RolePagePart' /\ RoleServerPart'
    BY <1>1, <2>2, RoleSavedKeeps, RoleHandleDeletedKeeps, RoleHandleToggledKeeps, RolePermissionsSavedKeeps
  <2>3. CASE RolesPage!ReadRoles \/ RolesPage!ShowRoles \/ RolesPage!GiveUp
    BY <1>1, <2>3, RoleReadRolesKeeps, RoleShowRolesKeeps, RoleGiveUpKeeps
  <2>4. CASE RolesPage!SwitchTab \/ RolesPage!OpenCreate \/ RolesPage!CloseModal \/ RolesPage!SubmitModal
                 \/ RolesPage!SelectAll \/ RolesPage!DeselectAll \/ RolesPage!ApplyChanges
    BY <1>1, <2>4, RoleSelectKeeps, RoleOpenKeeps, RoleCloseKeeps, RoleSubmitKeeps, RoleTicksKeep
  <2>5. CASE \E i \in DOMAIN RolesPage!Rows : RolesPage!Select(i) \/ RolesPage!OpenCard(i)
                 \/ RolesPage!ToggleActive(i)
    BY <1>1, <2>5, RoleSelectKeeps, RoleOpenKeeps, RoleSubmitKeeps
  <2>6. CASE \E all \in (SUBSET Grants) \ {{}} : RolesPage!ToggleModule(all)
    BY <1>1, <2>6, RoleTicksKeep
  <2>7. CASE \E i \in RolesPage!Existing : RolesPage!Colleague(i)
    BY <1>1, <2>7, RoleSubmitKeeps
  <2> QED
    BY <1>3, <2>1, <2>2, <2>3, <2>4, <2>5, <2>6, <2>7 DEF RolesPage!Next
<1>4. RolePagePart' /\ RoleServerPart' => RolesPage!IInv'
  BY RoleHalves, PTL
<1> QED
  BY <1>2, <1>3, <1>4

LEMMA RoleInvHolds == ASSUME RolesPage!RoleAssumption PROVE RolesPage!Spec => []RolesPage!IInv
  BY RoleInitIInv, RoleNextIInv, PTL DEF RolesPage!Spec, RolesPage!deskVars, deskVars

\* The page, the roles and the requests under way are of their types.
THEOREM RoleTypeCorrect == ASSUME RolesPage!RoleAssumption PROVE RolesPage!Spec => []RolesPage!TypeOK
<1>1. RolesPage!IInv => RolesPage!TypeOK
  BY DEF RolesPage!IInv
<1> QED
  BY <1>1, RoleInvHolds, PTL

\* A role that no two requests filled at once and no request broke off at grants what
\* it was last meant to.
THEOREM RolesAsTicked == ASSUME RolesPage!RoleAssumption PROVE RolesPage!Spec => []RolesPage!RolesAreAsTicked
<1>1. RolesPage!IInv => RolesPage!RolesAreAsTicked
  BY DEF RolesPage!IInv, RolesPage!GrantsInv, RolesPage!RolesAreAsTicked, RolesPage!Existing
<1> QED
  BY <1>1, RoleInvHolds, PTL

\* ---- the stops of a route --------------------------------------------------------------

\* A set of numbers has a least one: the only induction these proofs need.
LEMMA LeastOf == ASSUME NEW S \in SUBSET Nat, S # {} PROVE \E m \in S : \A n \in S : m <= n
<1> DEFINE R == {p \in Nat \X Nat : p[1] < p[2]}
<1>1. R = OpToRel(<, Nat)
  BY DEF OpToRel
<1>2. IsWellFoundedOn(R, Nat)
  BY <1>1, NatLessThanWellFounded
<1>3. \A x, y \in Nat : y < x => <<y, x>> \in R
  OBVIOUS
<1> HIDE DEF R
<1>4. PICK x \in S : \A y \in S : ~(<<y, x>> \in R)
  BY <1>2, WFMin
<1>5. ASSUME NEW y \in S PROVE x <= y
  <2>1. ~(y < x)
    BY <1>3, <1>4
  <2> QED
    BY <2>1
<1> QED
  BY <1>5

LEMMA GreatestOf ==
  ASSUME NEW S \in SUBSET Nat, S # {}, NEW n \in Nat, \A s \in S : s <= n
  PROVE \E m \in S : \A s \in S : s <= m
<1> DEFINE T == {n - s : s \in S}
<1>0. \A s \in S : s \in Nat /\ s <= n /\ n - s \in Nat
  OBVIOUS
<1>1. T # {} /\ \A t \in T : t \in Nat
  BY <1>0
<1>2. T \in SUBSET Nat
  BY <1>1
<1> SUFFICES ASSUME NEW t \in T, \A u \in T : t <= u PROVE \E m \in S : \A s \in S : s <= m
  BY <1>1, <1>2, LeastOf
<1>3. PICK m \in S : t = n - m
  OBVIOUS
<1>4. ASSUME NEW s \in S PROVE s <= m
  <2>1. n - s \in T /\ s \in Nat /\ m \in Nat
    OBVIOUS
  <2>2. n - m <= n - s
    BY <2>1, <1>3
  <2> QED
    BY <2>1, <2>2
<1> QED
  BY <1>4

\* Stops of a route have a first one and a last one.
LEMMA StopEndsThere ==
  ASSUME NEW S \in SUBSET Stops!OnRoute, S # {}, Stops!TypeOK, Stops!RouteInv
  PROVE  Stops!Lowest(S) # {} /\ Stops!Highest(S) # {}
<1> DEFINE N == {Stops!Stops[i].seq : i \in S}
<1>1. Stops!Stops \in Seq([at: Stops!Points, seq: Nat, state: {"on", "loose", "deleted"}])
          /\ Len(Stops!Stops) \in Nat
  BY DEF Stops!TypeOK, Stops!Stops
<1>2. \A i \in S : Stops!Stops[i].seq \in Nat /\ Stops!Stops[i].seq <= Len(Stops!Stops)
  BY <1>1 DEF Stops!RouteInv, Stops!OnRoute
<1>3. N # {} /\ N \in SUBSET Nat /\ \A n \in N : n <= Len(Stops!Stops)
  BY <1>2
<1>4. PICK low \in N : \A n \in N : low <= n
  BY <1>3, LeastOf
<1>5. PICK high \in N : \A n \in N : n <= high
  BY <1>1, <1>3, GreatestOf
<1>6. PICK i \in S : Stops!Stops[i].seq = low
  OBVIOUS
<1>7. PICK j \in S : Stops!Stops[j].seq = high
  OBVIOUS
<1> QED
  BY <1>4, <1>5, <1>6, <1>7 DEF Stops!Lowest, Stops!Highest

\* Only one stop of a route is first, and only one is last.
LEMMA StopOneEnd ==
  ASSUME Stops!TypeOK, Stops!RouteInv
  PROVE  /\ \A i \in Stops!Lowest(Stops!OnRoute) : Stops!One(Stops!Lowest(Stops!OnRoute)) = i
         /\ \A i \in Stops!Highest(Stops!OnRoute) : Stops!One(Stops!Highest(Stops!OnRoute)) = i
<1>1. \A i \in Stops!OnRoute : Stops!Stops[i].seq \in Nat
  BY DEF Stops!RouteInv, Stops!TypeOK, Stops!OnRoute, Stops!Stops
<1>2. ASSUME NEW i \in Stops!Lowest(Stops!OnRoute), NEW j \in Stops!Lowest(Stops!OnRoute) PROVE i = j
  <2>1. Stops!Stops[i].seq = Stops!Stops[j].seq /\ i \in Stops!OnRoute /\ j \in Stops!OnRoute
    BY <1>1 DEF Stops!Lowest
  <2> QED
    BY <2>1 DEF Stops!RouteInv
<1>3. ASSUME NEW i \in Stops!Highest(Stops!OnRoute), NEW j \in Stops!Highest(Stops!OnRoute) PROVE i = j
  <2>1. Stops!Stops[i].seq = Stops!Stops[j].seq /\ i \in Stops!OnRoute /\ j \in Stops!OnRoute
    BY <1>1 DEF Stops!Highest
  <2> QED
    BY <2>1 DEF Stops!RouteInv
<1>4. \A S : (\A i, j \in S : i = j) => \A i \in S : Stops!One(S) = i
  BY DEF Stops!One
<1> QED
  BY <1>2, <1>3, <1>4

\* ---- what a step that leaves the route alone has to keep -------------------------

\* The route did not change: no stop joined it, left it or was renumbered.
StopSameRoute ==
    /\ Stops!OnRoute' = Stops!OnRoute /\ \A i \in Stops!OnRoute : Stops!Stops'[i] = Stops!Stops[i]
    /\ Len(Stops!Stops') \in Nat /\ Len(Stops!Stops) \in Nat /\ Len(Stops!Stops') >= Len(Stops!Stops)
    /\ DOMAIN Stops!Stops = 1..Len(Stops!Stops) /\ DOMAIN Stops!Stops' = 1..Len(Stops!Stops')
    /\ db'.start = db.start /\ db'.end = db.end /\ db'.locked = db.locked

LEMMA StopSameFits ==
  ASSUME StopSameRoute, NEW p, NEW n
  PROVE  Stops!Fits(p, n)' <=> Stops!Fits(p, n)
BY DEF StopSameRoute, Stops!Fits

LEMMA StopSameCurrent ==
  ASSUME StopSameRoute, NEW r, Stops!Current(r)
  PROVE  Stops!Current(r)'
<1>1. Stops!ReadsNow(r)' <=> Stops!ReadsNow(r)
  BY DEF StopSameRoute, Stops!ReadsNow
<1> QED
  BY <1>1, StopSameFits DEF Stops!Current

LEMMA StopSameSound ==
  ASSUME StopSameRoute, NEW r \in Stops!Requests, Stops!Sound(r)
  PROVE  Stops!Sound(r)'
<1>1. CASE r.kind = "add"
  <2>1. r \in [kind: {"add"}, who: Stops!Whos, phase: Stops!Phases, fresh: BOOLEAN, at: Stops!Points, seq: Nat,
               id: Stops!Ends, shift: [Stops!Ids -> Nat], append: BOOLEAN, start: Stops!Ends, end: Stops!Ends]
    BY <1>1 DEF Stops!Requests
  <2> QED
    BY <1>1, <2>1 DEF StopSameRoute, Stops!Sound, Stops!Moved
<1> QED
  BY <1>1 DEF Stops!Sound

LEMMA StopKeepsRoute ==
  ASSUME Stops!IInv, StopSameRoute, Stops!TypeOK', hist'.stale = hist.stale,
         \A e \in shown'["routes"] \cup form'.saved : e.seq <= Len(Stops!Stops'),
         form'.pin # None => form'.pin.seq <= Len(Stops!Stops') + 1,
         ~hist.stale => (form.pin # None /\ form.pin.fresh => Stops!Fits(form.pin.at, form.pin.seq))',
         \A r \in wire' : Stops!Sound(r)' /\ (~hist.stale => Stops!Current(r)')
  PROVE  Stops!IInv'
<1>1. Stops!RouteInv'
  BY DEF Stops!IInv, Stops!RouteInv, StopSameRoute
<1>2. Stops!NumbersInv'
  BY DEF Stops!NumbersInv
<1>3. ASSUME ~hist.stale PROVE Stops!StopsFollowPath'
  BY <1>3 DEF Stops!IInv, Stops!StopsFollowPath, StopSameRoute
<1>4. Stops!Lowest(Stops!OnRoute)' = Stops!Lowest(Stops!OnRoute)
          /\ Stops!Highest(Stops!OnRoute)' = Stops!Highest(Stops!OnRoute)
  BY DEF Stops!Lowest, Stops!Highest, StopSameRoute
<1>5. ASSUME ~hist.stale PROVE Stops!EndsInv'
  BY <1>4, <1>5 DEF Stops!IInv, Stops!EndsInv, StopSameRoute
<1>6. ASSUME ~hist.stale PROVE Stops!FreshInv'
  BY <1>6 DEF Stops!FreshInv
<1> QED
  BY <1>1, <1>2, <1>3, <1>5, <1>6 DEF Stops!IInv

\* ---- the page --------------------------------------------------------------------

LEMMA ElementOf == ASSUME NEW T, NEW q \in Seq(T) PROVE \A i \in 1..Len(q) : q[i] \in T
OBVIOUS

LEMMA StopShapes ==
  ASSUME Stops!TypeOK
  PROVE  /\ Stops!Stops \in Seq([at: Stops!Points, seq: Nat, state: {"on", "loose", "deleted"}])
         /\ Len(Stops!Stops) \in Nat /\ DOMAIN Stops!Stops = 1..Len(Stops!Stops) /\ Len(Stops!Stops) <= MaxStops
         /\ \A i \in DOMAIN Stops!Stops : Stops!Stops[i] \in [at: Stops!Points, seq: Nat,
                state: {"on", "loose", "deleted"}]
         /\ Stops!OnRoute \subseteq DOMAIN Stops!Stops
<1>1. Stops!Stops \in Seq([at: Stops!Points, seq: Nat, state: {"on", "loose", "deleted"}])
  BY DEF Stops!TypeOK, Stops!Stops
<1>2. Len(Stops!Stops) <= MaxStops
  BY DEF Stops!TypeOK
<1>3. Stops!OnRoute \subseteq DOMAIN Stops!Stops
  BY DEF Stops!OnRoute
<1>4. Len(Stops!Stops) \in Nat /\ DOMAIN Stops!Stops = 1..Len(Stops!Stops)
  BY <1>1
<1>5. \A i \in 1..Len(Stops!Stops) : Stops!Stops[i] \in [at: Stops!Points, seq: Nat,
          state: {"on", "loose", "deleted"}]
  BY <1>1, ElementOf
<1> QED
  BY <1>1, <1>2, <1>3, <1>4, <1>5

LEMMA StopSameTable == ASSUME Stops!TypeOK, UNCHANGED db PROVE StopSameRoute
BY StopShapes DEF StopSameRoute, Stops!Stops, Stops!OnRoute

\* A step of the page alone.
LEMMA StopPageKeeps ==
  ASSUME Stops!IInv, UNCHANGED db, Stops!TypeOK', hist'.stale = hist.stale,
         \A e \in shown'["routes"] \cup form'.saved : e.seq <= Len(Stops!Stops),
         \/ UNCHANGED form.pin
         \/ form'.pin = None
         \/ form'.pin.seq <= Len(Stops!Stops) + 1
              /\ (~hist.stale => (form'.pin.fresh => Stops!Fits(form'.pin.at, form'.pin.seq))),
         \A r \in wire' : Stops!Sound(r) /\ (~hist.stale => Stops!Current(r))
  PROVE  Stops!IInv'
<1>1. StopSameRoute /\ Stops!TypeOK
  BY StopSameTable DEF Stops!IInv
<1>2. Stops!Stops' = Stops!Stops
  BY DEF Stops!Stops
<1>3. \A r \in wire' : r \in Stops!Requests
  BY DEF Stops!TypeOK
<1>4. \A r \in wire' : Stops!Sound(r)' /\ (~hist.stale => Stops!Current(r)')
  BY <1>1, <1>3, StopSameSound, StopSameCurrent
<1>5. form'.pin # None => form'.pin.seq <= Len(Stops!Stops') + 1
  BY <1>2 DEF Stops!IInv, Stops!NumbersInv
<1>6. ASSUME ~hist.stale, form'.pin # None, form'.pin.fresh PROVE Stops!Fits(form.pin.at, form.pin.seq)'
  <2>1. PICK p, n : p = form'.pin.at /\ n = form'.pin.seq
    OBVIOUS
  <2>2. Stops!Fits(p, n)
    BY <1>6, <2>1 DEF Stops!IInv, Stops!FreshInv
  <2>3. Stops!Fits(p, n)'
    BY <1>1, <2>2, StopSameFits
  <2> QED
    BY <2>1, <2>3 DEF Stops!Fits, Stops!OnRoute, Stops!Stops
<1> QED
  BY <1>1, <1>2, <1>4, <1>5, <1>6, StopKeepsRoute

LEMMA StopInvNow ==
  ASSUME Stops!IInv
  PROVE  /\ Stops!TypeOK
         /\ \A e \in shown["routes"] \cup form.saved : e.seq <= Len(Stops!Stops)
         /\ \A r \in wire : Stops!Sound(r) /\ (~hist.stale => Stops!Current(r))
         /\ hist.stale \in BOOLEAN
BY DEF Stops!IInv, Stops!NumbersInv, Stops!FreshInv, Stops!TypeOK

LEMMA StopListingTyped ==
  ASSUME Stops!StopAssumption, Stops!TypeOK, Stops!RouteInv
  PROVE  Stops!Listing \in SUBSET Stops!Entry /\ \A e \in Stops!Listing : e.seq <= Len(Stops!Stops)
<1>1. ASSUME NEW i \in Stops!OnRoute
      PROVE  /\ [id |-> i, at |-> Stops!Stops[i].at, seq |-> Stops!Stops[i].seq] \in Stops!Entry
             /\ Stops!Stops[i].seq <= Len(Stops!Stops)
  <2>1. i \in 1..Len(Stops!Stops) /\ Len(Stops!Stops) <= MaxStops /\ Len(Stops!Stops) \in Nat /\ MaxStops \in Nat
    BY StopShapes DEF Stops!StopAssumption
  <2>2. Stops!Stops[i] \in [at: Stops!Points, seq: Nat, state: {"on", "loose", "deleted"}]
    BY StopShapes
  <2>3. i \in Stops!Ids /\ Stops!Stops[i].at \in Stops!Points /\ Stops!Stops[i].seq \in Nat
    BY <2>1, <2>2 DEF Stops!Ids
  <2> QED
    BY <2>1, <2>3 DEF Stops!RouteInv, Stops!Entry
<1> QED
  BY <1>1 DEF Stops!Listing

LEMMA StopLoadRoutesKeeps == ASSUME Stops!StopAssumption, Stops!IInv, Stops!LoadRoutes PROVE Stops!IInv'
<1>1. Stops!Listing \in SUBSET Stops!Entry /\ \A e \in Stops!Listing : e.seq <= Len(Stops!Stops)
  BY StopListingTyped DEF Stops!IInv
<1>2. shown' = [shown EXCEPT !["routes"] = Stops!Listing] /\ due' = due \ {"routes"} /\ UNCHANGED <<db, dialog,
          form, wire, hist>>
  BY DEF Stops!LoadRoutes, Stops!Arrive
<1>3. shown'["routes"] = Stops!Listing
  BY <1>2 DEF Stops!IInv, Stops!TypeOK
<1>4. Stops!TypeOK'
  BY <1>1, <1>2 DEF Stops!IInv, Stops!TypeOK, Stops!Stops
<1> QED
  BY <1>1, <1>2, <1>3, <1>4, StopInvNow, StopPageKeeps

LEMMA StopBrowseKeeps == ASSUME Stops!IInv, Stops!Browse PROVE Stops!IInv'
<1>1. due' = due \cup {"routes"} /\ UNCHANGED <<db, shown, dialog, form, wire, hist>>
  BY DEF Stops!Browse, Stops!Ask
<1>2. Stops!TypeOK'
  BY <1>1 DEF Stops!IInv, Stops!TypeOK, Stops!Stops
<1> QED
  BY <1>1, <1>2, StopInvNow, StopPageKeeps

LEMMA StopOpenKeeps ==
  ASSUME Stops!IInv, NEW d \in [kind: {"add"}, id: {None}] \cup [kind: {"delete"}, id: Stops!Ids], Stops!Open(d)
  PROVE  Stops!IInv'
<1>1. dialog' = d /\ hist' = [hist EXCEPT !.opens = @ + 1] /\ UNCHANGED <<db, shown, due, form, wire>>
  BY DEF Stops!Open
<1>2. hist' \in [opens: Nat, sends: Nat, stale: BOOLEAN] /\ hist'.stale = hist.stale
  BY <1>1 DEF Stops!IInv, Stops!TypeOK
<1>3. Stops!TypeOK'
  BY <1>1, <1>2 DEF Stops!IInv, Stops!TypeOK, Stops!Stops
<1> QED
  BY <1>1, <1>2, <1>3, StopInvNow, StopPageKeeps

LEMMA StopForgetKeeps ==
  ASSUME Stops!IInv, NEW kept \in {{}, form.saved}, NEW d \in {Stops!AddModal, None}, Stops!Forget(kept, d)
  PROVE  Stops!IInv'
<1>1. form' = [Stops!Blank EXCEPT !.saved = kept] /\ dialog' = d /\ UNCHANGED <<db, shown, due, wire, hist>>
  BY DEF Stops!Forget
<1>2. form' = [pin |-> None, applying |-> None, saved |-> kept]
  BY <1>1 DEF Stops!Blank
<1>3. kept \subseteq form.saved /\ form.saved \in SUBSET Stops!Entry
  BY DEF Stops!IInv, Stops!TypeOK
<1>3a. form' \in [pin: Stops!Pins \cup {None}, applying: Hints \cup {None}, saved: SUBSET Stops!Entry]
  BY <1>2, <1>3
<1>3b. dialog' \in [kind: {"add"}, id: {None}] \cup [kind: {"delete"}, id: Stops!Ids] \cup {None}
  BY <1>1 DEF Stops!AddModal
<1>4. Stops!TypeOK'
  BY <1>1, <1>3a, <1>3b DEF Stops!IInv, Stops!TypeOK, Stops!Stops
<1> QED
  BY <1>1, <1>2, <1>3, <1>4, StopInvNow, StopPageKeeps

LEMMA StopCloseDeleteKeeps == ASSUME Stops!IInv, Stops!CloseDelete PROVE Stops!IInv'
<1>1. dialog' = None /\ UNCHANGED <<db, shown, due, form, wire, hist>>
  BY DEF Stops!CloseDelete
<1>2. Stops!TypeOK'
  BY <1>1 DEF Stops!IInv, Stops!TypeOK, Stops!Stops
<1> QED
  BY <1>1, <1>2, StopInvNow, StopPageKeeps

\* ---- where a stop is put ---------------------------------------------------------

\* What the page computes is a number, one more than the stops at most.
LEMMA StopNumbersBound ==
  ASSUME NEW listed \in SUBSET Stops!Entry, NEW saved \in SUBSET Stops!Entry, NEW p \in Stops!Points, NEW m \in Nat,
         \A e \in listed \cup saved : e.seq <= m,
         NEW n \in Stops!Numbers(listed, saved, p)
  PROVE  n \in Nat /\ n <= m + 1
<1>1. \A e \in Stops!Closest(listed, saved, p) : e.seq \in Nat /\ e.seq <= m
  BY DEF Stops!Closest, Stops!Entry
<1>2. CASE n \in {0, 1}
  BY <1>2
<1>3. CASE n \in {Stops!NextTo(e) : e \in Stops!Closest(listed, saved, p)}
  BY <1>1, <1>3 DEF Stops!NextTo
<1> QED
  BY <1>2, <1>3 DEF Stops!Numbers

\* Computed from what the server has, it fits the place.
LEMMA StopNumbersFit ==
  ASSUME Stops!StopAssumption, Stops!TypeOK, Stops!RouteInv, Stops!StopsFollowPath,
         NEW saved \in SUBSET Stops!Listing, \A s \in saved, e \in Stops!Listing : e.at = s.at => e.seq <= s.seq,
         NEW p \in Stops!Points, NEW n \in Stops!Numbers(Stops!Listing, saved, p)
  PROVE  Stops!Fits(p, n)
<1>0. \A i \in Stops!OnRoute : Stops!Stops[i].seq \in Nat /\ Stops!Stops[i].seq >= 1 /\ Stops!Stops[i].at \in Nat
          /\ p \in Nat
  BY StopShapes DEF Stops!RouteInv, Stops!Points
<1>1. \A i \in Stops!OnRoute : [id |-> i, at |-> Stops!Stops[i].at, seq |-> Stops!Stops[i].seq] \in Stops!Listing
  BY DEF Stops!Listing
<1>2. \A e \in Stops!Listing : \E i \in Stops!OnRoute :
          e = [id |-> i, at |-> Stops!Stops[i].at, seq |-> Stops!Stops[i].seq]
  BY DEF Stops!Listing
<1>3. Stops!Listing \cup saved = Stops!Listing
  OBVIOUS
<1>4. CASE Stops!Listing = {} /\ n = 0
  <2>1. Stops!OnRoute = {}
    BY <1>1, <1>4
  <2> QED
    BY <1>4, <2>1 DEF Stops!Fits
<1>5. CASE Stops!Listing # {} /\ n = 1 /\ \A e \in Stops!Listing : e.at > p
  <2>1. \A i \in Stops!OnRoute : Stops!Stops[i].at > p
    BY <1>1, <1>5
  <2> QED
    BY <1>0, <1>5, <2>1 DEF Stops!Fits
<1>6. ASSUME NEW e \in Stops!Closest(Stops!Listing, saved, p), n = Stops!NextTo(e) PROVE Stops!Fits(p, n)
  <2>1. e \in Stops!Listing /\ e.at <= p /\ \A f \in Stops!Listing : f.at <= p
            => f.at < e.at \/ (f.at = e.at /\ f.seq <= e.seq)
    <3>1. CASE /\ e \in Stops!Listing /\ e.at <= p
               /\ \A f \in {g \in Stops!Listing : g.at <= p} : f.at < e.at \/ (f.at = e.at /\ f.seq <= e.seq)
      BY <3>1
    <3>2. CASE e \in saved /\ e.at <= p /\ \A f \in {g \in Stops!Listing : g.at <= p} : f.at <= e.at
      <4>1. ASSUME NEW f \in Stops!Listing, f.at <= p PROVE f.at < e.at \/ (f.at = e.at /\ f.seq <= e.seq)
        <5>1. f.at <= e.at /\ f.at \in Nat /\ e.at \in Nat
          BY <3>2, <4>1, <1>2, <1>0
        <5>2. f.at = e.at => f.seq <= e.seq
          BY <3>2, <4>1
        <5> QED
          BY <5>1, <5>2
      <4> QED
        BY <3>2, <4>1
    <3> QED
      BY <1>6, <3>1, <3>2 DEF Stops!Closest
  <2>2. PICK k \in Stops!OnRoute : e = [id |-> k, at |-> Stops!Stops[k].at, seq |-> Stops!Stops[k].seq]
    BY <2>1, <1>2
  <2>3. n = Stops!Stops[k].seq + 1 /\ Stops!Stops[k].at <= p
    BY <1>6, <2>1, <2>2 DEF Stops!NextTo
  <2>4. \A i \in Stops!OnRoute : Stops!Stops[i].at <= p =>
          Stops!Stops[i].at < Stops!Stops[k].at
              \/ (Stops!Stops[i].at = Stops!Stops[k].at /\ Stops!Stops[i].seq <= Stops!Stops[k].seq)
    BY <1>1, <2>1, <2>2
  <2>5. ASSUME NEW i \in Stops!OnRoute PROVE IF Stops!Stops[i].seq < n THEN Stops!Stops[i].at <= p
                   ELSE p <= Stops!Stops[i].at
    <3>1. CASE Stops!Stops[i].seq < Stops!Stops[k].seq
      <4>1. Stops!Stops[i].at <= Stops!Stops[k].at
        BY <3>1 DEF Stops!StopsFollowPath
      <4> QED
        BY <3>1, <4>1, <1>0, <2>3
    <3>2. CASE Stops!Stops[i].seq = Stops!Stops[k].seq
      <4>1. i = k
        BY <3>2 DEF Stops!RouteInv
      <4> QED
        BY <4>1, <1>0, <2>3
    <3>3. CASE Stops!Stops[i].seq > Stops!Stops[k].seq
      <4>1. Stops!Stops[k].at <= Stops!Stops[i].at
        BY <3>3, <1>0 DEF Stops!StopsFollowPath
      <4> QED
        BY <3>3, <4>1, <1>0, <2>3, <2>4
    <3> QED
      BY <3>1, <3>2, <3>3, <1>0
  <2>6. n # 0 /\ Stops!Stops[k].seq < n
    BY <1>0, <2>3
  <2> QED
    BY <2>5, <2>6 DEF Stops!Fits
<1> QED
  BY <1>3, <1>4, <1>5, <1>6 DEF Stops!Numbers

LEMMA StopPutPinKeeps ==
  ASSUME Stops!StopAssumption, Stops!IInv, NEW p \in Stops!Points, NEW h \in Hints \cup {None}, Stops!PutPin(p, h)
  PROVE  Stops!IInv'
<1>1. PICK n \in Stops!Numbers(shown["routes"], form.saved, p) :
        form' = [form EXCEPT !.pin = [at |-> p, seq |-> n, fresh |-> Stops!InSync], !.applying = h]
  BY DEF Stops!PutPin
<1>2. UNCHANGED <<db, shown, due, dialog, wire, hist>>
  BY DEF Stops!PutPin
<1>3. PICK b \in BOOLEAN : b = Stops!InSync
  BY DEF Stops!InSync
<1>4. form' = [pin |-> [at |-> p, seq |-> n, fresh |-> b], applying |-> h, saved |-> form.saved]
  BY <1>1, <1>3 DEF Stops!IInv, Stops!TypeOK
<1>5. n \in Nat /\ n <= Len(Stops!Stops) + 1
  BY StopNumbersBound, StopInvNow, StopShapes DEF Stops!TypeOK
<1>6. [at |-> p, seq |-> n, fresh |-> b] \in Stops!Pins
  BY <1>5 DEF Stops!Pins
<1>7. Stops!TypeOK'
  BY <1>2, <1>4, <1>6 DEF Stops!IInv, Stops!TypeOK, Stops!Stops
<1>8. ASSUME ~hist.stale, b PROVE Stops!Fits(p, n)
  <2>1. Stops!InSync
    BY <1>3, <1>8
  <2>2. n \in Stops!Numbers(Stops!Listing, form.saved, p) /\ form.saved \in SUBSET Stops!Listing
        /\ \A s \in form.saved, e \in Stops!Listing : e.at = s.at => e.seq <= s.seq
    BY <2>1 DEF Stops!InSync
  <2>3. Stops!TypeOK /\ Stops!RouteInv /\ Stops!StopsFollowPath
    BY <1>8 DEF Stops!IInv
  <2> QED
    BY <2>2, <2>3, StopNumbersFit
<1>9. form'.pin.seq = n /\ form'.pin.at = p /\ form'.pin.fresh = b /\ form'.saved = form.saved
  BY <1>4
<1> QED
  BY <1>2, <1>5, <1>7, <1>8, <1>9, StopInvNow, StopPageKeeps

\* ---- requests --------------------------------------------------------------------

StopAddRequests ==
    [kind: {"add"}, who: Stops!Whos, phase: Stops!Phases, fresh: BOOLEAN, at: Stops!Points, seq: Nat,
     id: Stops!Ends, shift: [Stops!Ids -> Nat], append: BOOLEAN, start: Stops!Ends, end: Stops!Ends]

LEMMA StopAddTyped == ASSUME NEW r \in Stops!Requests, r.kind = "add" PROVE r \in StopAddRequests
BY DEF Stops!Requests, StopAddRequests

\* A request of the page is sent, or a colleague's.
LEMMA StopSendKeeps ==
  ASSUME Stops!IInv, NEW r \in Stops!Requests, Stops!Send(r), UNCHANGED <<db, shown, due, dialog, form>>,
         Stops!Sound(r), ~hist.stale => Stops!Current(r)
  PROVE  Stops!IInv'
<1>1. wire' = wire \cup {r} /\ hist' = [hist EXCEPT !.sends = @ + 1]
  BY DEF Stops!Send
<1>2. hist' \in [opens: Nat, sends: Nat, stale: BOOLEAN] /\ hist'.stale = hist.stale
  BY <1>1 DEF Stops!IInv, Stops!TypeOK
<1>3. Stops!TypeOK'
  BY <1>1, <1>2 DEF Stops!IInv, Stops!TypeOK, Stops!Stops
<1> QED
  BY <1>1, <1>2, <1>3, StopInvNow, StopPageKeeps

\* Requests of other kinds are sound as they come.
LEMMA StopOtherSound == ASSUME NEW r, r.kind # "add" PROVE Stops!Sound(r) /\ Stops!Current(r)
BY DEF Stops!Sound, Stops!Current

LEMMA StopNewAddTyped ==
  ASSUME NEW who \in Stops!Whos, NEW p \in Stops!Points, NEW n \in Nat, NEW b \in BOOLEAN,
             n <= Len(Stops!Stops) + 1,
         ~hist.stale /\ b => Stops!Fits(p, n)
  PROVE  LET r == Stops!NewAdd(who, p, n, b) IN r \in Stops!Requests /\ Stops!Sound(r)
             /\ (~hist.stale => Stops!Current(r))
<1> DEFINE r == Stops!NewAdd(who, p, n, b)
<1>1. r = [kind |-> "add", who |-> who, phase |-> "sent", fresh |-> b, at |-> p, seq |-> n,
           id |-> None, shift |-> [i \in Stops!Ids |-> 0], append |-> FALSE, start |-> None, end |-> None]
  BY DEF Stops!NewAdd
<1>2. [i \in Stops!Ids |-> 0] \in [Stops!Ids -> Nat]
  OBVIOUS
<1>3. r \in Stops!Requests
  BY <1>1, <1>2 DEF Stops!Requests, Stops!Phases, Stops!Ends
<1>4. Stops!Sound(r)
  BY <1>1 DEF Stops!Sound
<1>5. ASSUME ~hist.stale PROVE Stops!Current(r)
  BY <1>1, <1>5 DEF Stops!Current
<1> QED
  BY <1>3, <1>4, <1>5

LEMMA StopSubmitStopKeeps == ASSUME Stops!IInv, Stops!SubmitStop PROVE Stops!IInv'
<1>1. form.pin # None /\ UNCHANGED <<db, shown, due, dialog, form>>
      /\ Stops!Send(Stops!NewAdd("desk", form.pin.at, form.pin.seq, form.pin.fresh))
  BY DEF Stops!SubmitStop
<1>2. form.pin \in Stops!Pins
  BY <1>1 DEF Stops!IInv, Stops!TypeOK
<1>3. PICK p \in Stops!Points, n \in Nat, b \in BOOLEAN : form.pin = [at |-> p, seq |-> n, fresh |-> b]
  BY <1>2 DEF Stops!Pins
<1>4. form.pin.at = p /\ form.pin.seq = n /\ form.pin.fresh = b
  BY <1>3
<1>5. n <= Len(Stops!Stops) + 1 /\ (~hist.stale /\ b => Stops!Fits(p, n))
  BY <1>1, <1>4 DEF Stops!IInv, Stops!NumbersInv, Stops!FreshInv
<1>6. PICK r : r = Stops!NewAdd("desk", p, n, b)
  OBVIOUS
<1>7. r \in Stops!Requests /\ Stops!Sound(r) /\ (~hist.stale => Stops!Current(r))
  BY <1>5, <1>6, StopNewAddTyped DEF Stops!Whos
<1>8. Stops!Send(r)
  BY <1>1, <1>4, <1>6
<1> QED
  BY <1>1, <1>7, <1>8, StopSendKeeps

LEMMA StopOtherAddsKeeps == ASSUME Stops!StopAssumption, Stops!IInv, NEW p \in Stops!Points,
    Stops!OtherAdds(p) PROVE Stops!IInv'
<1>1. PICK n \in Stops!Numbers(Stops!Listing, {}, p) : Stops!Send(Stops!NewAdd("other", p, n, TRUE))
  BY DEF Stops!OtherAdds
<1>2. UNCHANGED <<db, shown, due, dialog, form>>
  BY DEF Stops!OtherAdds
<1>3. Stops!TypeOK /\ Stops!RouteInv /\ Len(Stops!Stops) \in Nat
  BY StopShapes DEF Stops!IInv
<1>4. Stops!Listing \in SUBSET Stops!Entry /\ \A e \in Stops!Listing \cup {} : e.seq <= Len(Stops!Stops)
  BY <1>3, StopListingTyped
<1>5. n \in Nat /\ n <= Len(Stops!Stops) + 1
  BY <1>3, <1>4, StopNumbersBound
<1>6. ASSUME ~hist.stale PROVE Stops!Fits(p, n)
  <2>1. Stops!StopsFollowPath
    BY <1>6 DEF Stops!IInv
  <2> QED
    BY <1>3, <2>1, StopNumbersFit
<1>7. PICK r : r = Stops!NewAdd("other", p, n, TRUE)
  OBVIOUS
<1>8. r \in Stops!Requests /\ Stops!Sound(r) /\ (~hist.stale => Stops!Current(r))
  BY <1>5, <1>6, <1>7, StopNewAddTyped DEF Stops!Whos
<1>9. Stops!Send(r)
  BY <1>1, <1>7
<1> QED
  BY <1>2, <1>8, <1>9, StopSendKeeps

LEMMA StopDismissalTyped ==
  ASSUME NEW h \in Hints PROVE Stops!Dismissal(h) \in Stops!Requests /\ Stops!Dismissal(h).kind = "dismiss"
BY DEF Stops!Dismissal, Stops!Requests, Stops!Whos, Stops!Phases

LEMMA StopRejectKeeps == ASSUME Stops!IInv, NEW h \in Hints, Stops!HandleRejectSuggestion(h) PROVE Stops!IInv'
<1>1. PICK r : r = Stops!Dismissal(h)
  OBVIOUS
<1>2. r \in Stops!Requests /\ r.kind = "dismiss"
  BY <1>1, StopDismissalTyped
<1>3. Stops!Send(r) /\ UNCHANGED <<db, shown, due, dialog, form>>
  BY <1>1 DEF Stops!HandleRejectSuggestion
<1> QED
  BY <1>2, <1>3, StopOtherSound, StopSendKeeps

LEMMA StopRemoveKeeps == ASSUME Stops!IInv, NEW i \in Stops!Listed \cup Stops!InSession,
    Stops!RemoveFromRoute(i) PROVE Stops!IInv'
<1>1. i \in Stops!Ids
  BY DEF Stops!IInv, Stops!TypeOK, Stops!Listed, Stops!InSession, Stops!Entry
<1>2. PICK session \in BOOLEAN :
        Stops!Send([kind |-> "remove", who |-> "desk", phase |-> "sent", id |-> i, session |-> session])
  BY DEF Stops!RemoveFromRoute
<1>3. PICK r : r = [kind |-> "remove", who |-> "desk", phase |-> "sent", id |-> i, session |-> session]
  OBVIOUS
<1>4. r \in Stops!Requests /\ r.kind = "remove"
  BY <1>1, <1>3 DEF Stops!Requests, Stops!Whos, Stops!Phases
<1>5. Stops!Send(r) /\ UNCHANGED <<db, shown, due, dialog, form>>
  BY <1>2, <1>3 DEF Stops!RemoveFromRoute
<1> QED
  BY <1>4, <1>5, StopOtherSound, StopSendKeeps

LEMMA StopSubmitDeleteKeeps == ASSUME Stops!IInv, Stops!SubmitDelete PROVE Stops!IInv'
<1>1. dialog \notin {None, Stops!AddModal} /\ UNCHANGED <<db, shown, due, dialog, form>>
      /\ Stops!Send([kind |-> "delete", who |-> "desk", phase |-> "sent", id |-> dialog.id])
  BY DEF Stops!SubmitDelete
<1>2. dialog \in [kind: {"delete"}, id: Stops!Ids]
  BY <1>1 DEF Stops!IInv, Stops!TypeOK, Stops!AddModal
<1>3. PICK r : r = [kind |-> "delete", who |-> "desk", phase |-> "sent", id |-> dialog.id]
  OBVIOUS
<1>4. r \in Stops!Requests /\ r.kind = "delete"
  BY <1>2, <1>3 DEF Stops!Requests, Stops!Whos, Stops!Phases
<1> QED
  BY <1>1, <1>3, <1>4, StopOtherSound, StopSendKeeps

\* One request is answered, forgotten or handed on; the others stay.
LEMMA StopWireKeeps ==
  ASSUME Stops!IInv, UNCHANGED <<db, shown, due, dialog, form, hist>>,
         NEW S, \A r \in S : r \in Stops!Requests /\ Stops!Sound(r) /\ (~hist.stale => Stops!Current(r)),
         wire' \subseteq wire \cup S
  PROVE  Stops!IInv'
<1>1. Stops!TypeOK'
  BY DEF Stops!IInv, Stops!TypeOK, Stops!Stops
<1> QED
  BY <1>1, StopInvNow, StopPageKeeps

\* The fields of a request but its phase and its sender.
LEMMA StopRelabelled ==
  ASSUME NEW r \in Stops!Requests, Stops!Sound(r), NEW who \in Stops!Whos, NEW phase \in Stops!Phases,
         r.kind = "add" => (phase = r.phase \/ (r.phase # "sent" /\ phase \in {"ok", "error"})),
         r.kind # "add" => phase # "read",
         ~hist.stale => Stops!Current(r)
  PROVE  LET s == [r EXCEPT !.who = who, !.phase = phase]
         IN s \in Stops!Requests /\ Stops!Sound(s) /\ (~hist.stale => Stops!Current(s))
<1> DEFINE s == [r EXCEPT !.who = who, !.phase = phase]
<1>1. CASE r.kind = "add"
  <2>1. r \in StopAddRequests
    BY <1>1, StopAddTyped
  <2>2. s \in StopAddRequests /\ s.phase = phase
    BY <2>1 DEF StopAddRequests
  <2>3. /\ s.kind = "add" /\ s.fresh = r.fresh /\ s.at = r.at /\ s.seq = r.seq /\ s.id = r.id
        /\ s.shift = r.shift /\ s.append = r.append /\ s.start = r.start /\ s.end = r.end
    BY <2>1 DEF StopAddRequests
  <2>4. Stops!Moved(s) = Stops!Moved(r)
    BY <2>3 DEF Stops!Moved
  <2>5. Stops!Sound(s)
    <3>1. CASE phase = r.phase
      BY <1>1, <2>2, <2>3, <2>4, <3>1 DEF Stops!Sound
    <3>2. CASE r.phase # "sent" /\ phase \in {"ok", "error"}
      BY <1>1, <2>2, <2>3, <2>4, <3>2 DEF Stops!Sound
    <3> QED
      BY <1>1, <3>1, <3>2
  <2>6. Stops!ReadsNow(s) <=> Stops!ReadsNow(r)
    BY <2>3 DEF Stops!ReadsNow
  <2>7. ASSUME ~hist.stale PROVE Stops!Current(s)
    BY <1>1, <2>2, <2>3, <2>6, <2>7 DEF Stops!Current
  <2>8. s \in Stops!Requests
    BY <2>2 DEF Stops!Requests, StopAddRequests
  <2> QED
    BY <2>5, <2>7, <2>8
<1>2. CASE r.kind # "add"
  <2>1. s \in Stops!Requests /\ s.kind = r.kind
    BY <1>2 DEF Stops!Requests
  <2> QED
    BY <1>2, <2>1, StopOtherSound
<1> QED
  BY <1>1, <1>2

LEMMA StopWireRequests == ASSUME Stops!IInv, NEW r \in wire PROVE r \in Stops!Requests /\ Stops!Sound(r)
    /\ (~hist.stale => Stops!Current(r))
BY StopInvNow DEF Stops!TypeOK

LEMMA StopGiveUpKeeps == ASSUME Stops!IInv, Stops!GiveUp PROVE Stops!IInv'
<1>1. PICK r \in wire :
        /\ r.who = "desk" /\ r.phase \in {"sent", "read"}
        /\ wire' = wire \ {r} \/ Stops!Replace(r, [r EXCEPT !.who = "gone"])
        /\ UNCHANGED <<db, shown, due, dialog, form, hist>>
  BY DEF Stops!GiveUp
<1>2. PICK s : s = [r EXCEPT !.who = "gone", !.phase = r.phase]
  OBVIOUS
<1>3. [r EXCEPT !.who = "gone"] = s
  BY <1>2, StopWireRequests DEF Stops!Requests
<1>4. r.phase \in Stops!Phases /\ (r.kind # "add" => r.phase # "read")
  BY StopWireRequests DEF Stops!Requests
<1>5. s \in Stops!Requests /\ Stops!Sound(s) /\ (~hist.stale => Stops!Current(s))
  BY <1>2, <1>4, StopWireRequests, StopRelabelled DEF Stops!Whos
<1>5a. PICK S : S = {s}
  OBVIOUS
<1>6. wire' \subseteq wire \cup S
  BY <1>1, <1>3, <1>5a DEF Stops!Replace
<1>7. UNCHANGED <<db, shown, due, dialog, form, hist>>
  BY <1>1
<1>8. \A q \in S : q \in Stops!Requests /\ Stops!Sound(q) /\ (~hist.stale => Stops!Current(q))
  BY <1>5, <1>5a
<1> QED
  BY <1>6, <1>7, <1>8, StopWireKeeps

\* The server answers a request of the page and drops another's.
LEMMA StopAnswered ==
  ASSUME Stops!IInv, NEW r \in wire, NEW phase \in {"ok", "error"}, r.kind = "add" => r.phase # "sent",
         Stops!Answer(r, phase)
  PROVE  \E S : /\ \A s \in S : s \in Stops!Requests /\ Stops!Sound(s) /\ (~hist.stale => Stops!Current(s))
                /\ wire' \subseteq wire \cup S
<1>1. PICK s : s = [r EXCEPT !.who = r.who, !.phase = phase]
  OBVIOUS
<1>2. [r EXCEPT !.phase = phase] = s /\ r.who \in Stops!Whos
  BY <1>1, StopWireRequests DEF Stops!Requests
<1>2a. phase \in Stops!Phases /\ phase # "read"
  BY DEF Stops!Phases
<1>2b. r \in Stops!Requests /\ Stops!Sound(r) /\ (~hist.stale => Stops!Current(r))
  BY StopWireRequests
<1>2c. r.kind = "add" => (phase = r.phase \/ (r.phase # "sent" /\ phase \in {"ok", "error"}))
  OBVIOUS
<1>2d. r.kind # "add" => phase # "read"
  BY <1>2a
<1>2e. r.who \in Stops!Whos
  BY <1>2
<1>3. s \in Stops!Requests /\ Stops!Sound(s) /\ (~hist.stale => Stops!Current(s))
  BY <1>1, <1>2e, <1>2a, <1>2b, <1>2c, <1>2d, StopRelabelled
<1>4. wire' \subseteq wire \cup {s}
  BY <1>2 DEF Stops!Answer
<1> QED
  BY <1>3, <1>4

LEMMA StopRefuseKeeps ==
  ASSUME Stops!IInv, NEW r \in wire, r.kind = "add" => r.phase # "sent", Stops!Refuse(r)
  PROVE  Stops!IInv'
<1>1. Stops!Answer(r, "error") /\ UNCHANGED <<db, shown, due, dialog, form, hist>>
  BY DEF Stops!Refuse
<1>1a. PICK phase \in {"ok", "error"} : phase = "error"
  OBVIOUS
<1>1b. Stops!Answer(r, phase)
  BY <1>1, <1>1a
<1>2. PICK S : /\ \A s \in S : s \in Stops!Requests /\ Stops!Sound(s) /\ (~hist.stale => Stops!Current(s))
               /\ wire' \subseteq wire \cup S
  BY <1>1b, StopAnswered
<1>3. \A s \in S : s \in Stops!Requests /\ Stops!Sound(s) /\ (~hist.stale => Stops!Current(s))
  BY <1>2
<1>4. wire' \subseteq wire \cup S
  BY <1>2
<1> QED
  BY <1>1, <1>3, <1>4, StopWireKeeps

LEMMA StopFailKeeps == ASSUME Stops!IInv, NEW r \in wire, Stops!Fail(r) PROVE Stops!IInv'
<1>1. PICK S : S = {}
  OBVIOUS
<1>2. wire' \subseteq wire \cup S /\ UNCHANGED <<db, shown, due, dialog, form, hist>>
  BY DEF Stops!Fail, Stops!Settle
<1>3. \A q \in S : q \in Stops!Requests /\ Stops!Sound(q) /\ (~hist.stale => Stops!Current(q))
  BY <1>1
<1> QED
  BY <1>2, <1>3, StopWireKeeps

LEMMA StopSucceedAddKeeps == ASSUME Stops!StopAssumption, Stops!IInv, NEW r \in wire,
    Stops!SucceedAdd(r) PROVE Stops!IInv'
<1>1. r.kind = "add" /\ r.phase = "ok" /\ UNCHANGED <<db, shown, dialog, hist>> /\ due' = due \cup {"routes"}
  BY DEF Stops!SucceedAdd, Stops!Invalidate
<1>2. r \in StopAddRequests /\ Stops!Sound(r)
  BY <1>1, StopWireRequests, StopAddTyped
<1>3. r.seq \in Nat /\ r.seq <= Len(Stops!Stops) /\ r.id \in Stops!Ids
  <2>1. r.seq \in 1..Len(Stops!Stops) /\ r.id \in DOMAIN Stops!Stops /\ Stops!TypeOK
    BY <1>1, <1>2 DEF Stops!Sound, Stops!IInv
  <2> QED
    BY <2>1, StopShapes DEF Stops!StopAssumption, Stops!Ids
<1>4. PICK p : p = IF form.pin = None THEN 1 ELSE form.pin.at
  OBVIOUS
<1>5. p \in Stops!Points
  BY <1>4 DEF Stops!StopAssumption, Stops!IInv, Stops!TypeOK, Stops!Pins, Stops!Points
<1>6. PICK e : e = [id |-> r.id, at |-> p, seq |-> r.seq]
  OBVIOUS
<1>7. e \in Stops!Entry /\ e.seq <= Len(Stops!Stops)
  BY <1>3, <1>5, <1>6 DEF Stops!Entry
<1>8. form' = [pin |-> None, applying |-> None, saved |-> form.saved \cup {e}]
  BY <1>4, <1>6 DEF Stops!SucceedAdd, Stops!Blank
<1>9. form.applying \in Hints \cup {None} /\ form.saved \in SUBSET Stops!Entry
  BY DEF Stops!IInv, Stops!TypeOK
<1>10. PICK S : S = {Stops!Dismissal(h) : h \in {form.applying} \ {None}}
  OBVIOUS
<1>11. \A s \in S : s \in Stops!Requests /\ s.kind = "dismiss"
  BY <1>9, <1>10, StopDismissalTyped
<1>12. wire' \subseteq wire \cup S
  BY <1>10 DEF Stops!SucceedAdd
<1>13. \A s \in wire' : s \in Stops!Requests /\ Stops!Sound(s) /\ (~hist.stale => Stops!Current(s))
  BY <1>11, <1>12, StopWireRequests, StopOtherSound
<1>14. form' \in [pin: Stops!Pins \cup {None}, applying: Hints \cup {None}, saved: SUBSET Stops!Entry]
  BY <1>7, <1>8, <1>9
<1>15. Stops!TypeOK'
  BY <1>1, <1>13, <1>14 DEF Stops!IInv, Stops!TypeOK, Stops!Stops
<1>16. form'.pin = None /\ form'.saved = form.saved \cup {e}
  BY <1>8
<1> QED
  BY <1>1, <1>7, <1>13, <1>15, <1>16, StopInvNow, StopPageKeeps

LEMMA StopSucceedRemoveKeeps == ASSUME Stops!IInv, NEW r \in wire, Stops!SucceedRemove(r) PROVE Stops!IInv'
<1>1. UNCHANGED <<db, shown, dialog, hist>> /\ due' = due \cup {"routes"} /\ wire' \subseteq wire
      /\ form' = [form EXCEPT !.saved = {s \in @ : r.session => s.id # r.id}]
  BY DEF Stops!SucceedRemove, Stops!Invalidate, Stops!Settle
<1>2. form' = [pin |-> form.pin, applying |-> form.applying,
          saved |-> {s \in form.saved : r.session => s.id # r.id}]
  BY <1>1 DEF Stops!IInv, Stops!TypeOK
<1>3. form' \in [pin: Stops!Pins \cup {None}, applying: Hints \cup {None}, saved: SUBSET Stops!Entry]
  BY <1>2 DEF Stops!IInv, Stops!TypeOK
<1>4. Stops!TypeOK'
  BY <1>1, <1>3 DEF Stops!IInv, Stops!TypeOK, Stops!Stops
<1>5. form'.pin = form.pin /\ form'.saved \subseteq form.saved
  BY <1>2
<1> QED
  BY <1>1, <1>4, <1>5, StopInvNow, StopPageKeeps

LEMMA StopSucceedOtherKeeps == ASSUME Stops!IInv, NEW r \in wire, Stops!SucceedOther(r) PROVE Stops!IInv'
<1>1. UNCHANGED <<db, shown, due, form, hist>> /\ wire' \subseteq wire /\ dialog' \in {None, dialog}
  BY DEF Stops!SucceedOther, Stops!Settle
<1>2. Stops!TypeOK'
  BY <1>1 DEF Stops!IInv, Stops!TypeOK, Stops!Stops
<1> QED
  BY <1>1, <1>2, StopInvNow, StopPageKeeps

\* ---- the server: what leaves the route as it is ----------------------------------

\* A suggestion is dismissed.
LEMMA StopServeDismissKeeps == ASSUME Stops!IInv, NEW r \in wire, Stops!ServeDismiss(r) PROVE Stops!IInv'
<1>1. PICK phase \in {"ok", "error"} : Stops!Answer(r, phase)
  BY DEF Stops!ServeDismiss
<1>2. r.kind = "dismiss" /\ db' = [db EXCEPT !.hints = @ \ {r.hint}] /\ UNCHANGED <<shown, due, dialog, form, hist>>
  BY DEF Stops!ServeDismiss
<1>3. PICK S : /\ \A s \in S : s \in Stops!Requests /\ Stops!Sound(s) /\ (~hist.stale => Stops!Current(s))
               /\ wire' \subseteq wire \cup S
  BY <1>1, <1>2, StopAnswered
<1>4. \A s \in wire' : s \in Stops!Requests /\ Stops!Sound(s) /\ (~hist.stale => Stops!Current(s))
  BY <1>3, StopWireRequests
<1>5. /\ db'.stops = db.stops /\ db'.start = db.start /\ db'.end = db.end /\ db'.locked = db.locked
      /\ db'.hints \subseteq db.hints
      /\ db' = [stops |-> db.stops, start |-> db.start, end |-> db.end, locked |-> db.locked, hints |-> db'.hints]
  BY <1>2 DEF Stops!IInv, Stops!TypeOK
<1>6. Stops!Stops' = Stops!Stops
  BY <1>5 DEF Stops!Stops
<1>7. Stops!TypeOK
  BY DEF Stops!IInv
<1>8. db' \in [stops: Seq([at: Stops!Points, seq: Nat, state: {"on", "loose", "deleted"}]),
               start: Stops!Ends, end: Stops!Ends, locked: BOOLEAN, hints: SUBSET Hints]
  BY <1>5, <1>7 DEF Stops!TypeOK
<1>9. Stops!TypeOK'
  BY <1>2, <1>4, <1>6, <1>7, <1>8 DEF Stops!TypeOK
<1>10. StopSameRoute
  BY <1>5, <1>6, <1>7, StopShapes DEF StopSameRoute, Stops!OnRoute
<1>11. \A s \in wire' : Stops!Sound(s)' /\ (~hist.stale => Stops!Current(s)')
  BY <1>4, <1>10, StopSameSound, StopSameCurrent
<1>12. \A e \in shown'["routes"] \cup form'.saved : e.seq <= Len(Stops!Stops')
  BY <1>2, <1>6, StopInvNow
<1>13. form'.pin # None => form'.pin.seq <= Len(Stops!Stops') + 1
  BY <1>2, <1>6 DEF Stops!IInv, Stops!NumbersInv
<1>14. ASSUME ~hist.stale, form.pin # None, form.pin.fresh PROVE Stops!Fits(form.pin.at, form.pin.seq)'
  <2>1. PICK p, n : p = form.pin.at /\ n = form.pin.seq
    OBVIOUS
  <2>2. Stops!Fits(p, n)'
    BY <1>14, <2>1, <1>10, StopSameFits DEF Stops!IInv, Stops!FreshInv
  <2>3. form'.pin.at = p /\ form'.pin.seq = n
    BY <1>2, <2>1
  <2> QED
    BY <2>2, <2>3 DEF Stops!Fits
<1> QED
  BY <1>2, <1>9, <1>10, <1>11, <1>12, <1>13, <1>14, StopKeepsRoute

\* add_stop makes the stop and reads the route: the route itself is as it was.
LEMMA StopServeAddKeeps == ASSUME Stops!StopAssumption, Stops!IInv, NEW r \in wire,
    Stops!ServeAdd(r) PROVE Stops!IInv'
<1> DEFINE n == Len(Stops!Stops)
           above(seq) == IF Stops!Appends(r) THEN {} ELSE {i \in Stops!OnRoute : Stops!Stops[i].seq >= seq}
           shift(seq) == [i \in Stops!Ids |-> IF i \in above(seq) THEN Stops!Stops[i].seq + 1 ELSE 0]
           made == [at |-> r.at, seq |-> 0, state |-> "loose"]
<1>1. r.kind = "add" /\ r.phase = "sent" /\ Len(Stops!Stops) < MaxStops
      /\ db' = [db EXCEPT !.stops = Append(@, made)] /\ UNCHANGED <<shown, due, dialog, form, hist>>
  BY DEF Stops!ServeAdd
<1>2. PICK seq \in Stops!Granted(r) :
        Stops!Replace(r, [r EXCEPT !.phase = "read", !.id = Len(Stops!Stops) + 1, !.seq = seq, !.shift = shift(seq),
                             !.append = Stops!Appends(r), !.start = db.start, !.end = db.end])
  BY DEF Stops!ServeAdd
<1>3. r \in StopAddRequests /\ Stops!Sound(r) /\ (~hist.stale => Stops!Current(r))
  BY <1>1, StopWireRequests, StopAddTyped
<1>4. Stops!TypeOK /\ Stops!RouteInv
  BY DEF Stops!IInv
<1>5. /\ Stops!Stops \in Seq([at: Stops!Points, seq: Nat, state: {"on", "loose", "deleted"}])
      /\ n \in Nat /\ DOMAIN Stops!Stops = 1..n /\ Stops!OnRoute \subseteq 1..n
  BY <1>4, StopShapes
<1>6. \A i \in Stops!OnRoute : Stops!Stops[i].seq \in 1..n
  BY <1>4 DEF Stops!RouteInv
<1>7. seq \in 1..(n + 1)
  <2>1. r.seq \in Nat /\ r.seq <= n + 1
    BY <1>1, <1>3 DEF Stops!Sound, StopAddRequests
  <2>2. CASE r.seq # 0 /\ seq = r.seq
    BY <2>1, <2>2, <1>5
  <2>3. CASE db.locked /\ seq = Stops!Stops[db.end].seq
    <3>1. db.end \in Stops!OnRoute
      BY <2>3, <1>4 DEF Stops!RouteInv
    <3>2. Stops!Stops[db.end].seq \in 1..n
      BY <3>1, <1>6
    <3>3. \A m \in 1..n : m \in 1..(n + 1)
      BY <1>5
    <3> QED
      BY <2>3, <3>2, <3>3
  <2>4. CASE seq = 1
    BY <2>4, <1>5
  <2>5. CASE seq \in {Stops!Stops[i].seq + 1 : i \in Stops!Highest(Stops!OnRoute)}
    BY <2>5, <1>5, <1>6 DEF Stops!Highest
  <2> QED
    BY <2>2, <2>3, <2>4, <2>5 DEF Stops!Granted
<1>8. db' = [stops |-> Append(Stops!Stops, made), start |-> db.start, end |-> db.end, locked |-> db.locked,
          hints |-> db.hints]
  BY <1>1, <1>4 DEF Stops!TypeOK, Stops!Stops
<1>9. Stops!Stops' = Append(Stops!Stops, made) /\ db'.start = db.start /\ db'.end = db.end /\ db'.locked = db.locked
  BY <1>8 DEF Stops!Stops
<1>10. made \in [at: Stops!Points, seq: Nat, state: {"on", "loose", "deleted"}]
  BY <1>3 DEF StopAddRequests
<1> HIDE DEF made
<1>11. /\ Stops!Stops' \in Seq([at: Stops!Points, seq: Nat, state: {"on", "loose", "deleted"}])
       /\ Len(Stops!Stops') = n + 1 /\ DOMAIN Stops!Stops' = 1..(n + 1)
       /\ \A i \in 1..n : Stops!Stops'[i] = Stops!Stops[i]
       /\ Stops!Stops'[n + 1] = made
  BY <1>5, <1>9, <1>10
<1>12. Stops!OnRoute' = Stops!OnRoute
  <2>1. Stops!OnRoute' = {i \in 1..(n + 1) : Stops!Stops'[i].state = "on"}
    BY <1>11 DEF Stops!OnRoute
  <2>2. Stops!OnRoute = {i \in 1..n : Stops!Stops[i].state = "on"}
    BY <1>5 DEF Stops!OnRoute
  <2>3. Stops!Stops'[n + 1].state # "on"
    BY <1>11 DEF made
  <2>4. \A i \in 1..(n + 1) : i \in 1..n \/ i = n + 1
    BY <1>5
  <2>5. \A i \in 1..n : i \in 1..(n + 1)
    BY <1>5
  <2> QED
    BY <2>1, <2>2, <2>3, <2>4, <2>5, <1>11
<1>13. StopSameRoute
  BY <1>5, <1>9, <1>11, <1>12 DEF StopSameRoute
<1>14. PICK s : s = [r EXCEPT !.phase = "read", !.id = Len(Stops!Stops) + 1, !.seq = seq, !.shift = shift(seq),
                              !.append = Stops!Appends(r), !.start = db.start, !.end = db.end]
  OBVIOUS
<1>15. PICK b \in BOOLEAN : b = Stops!Appends(r)
  BY DEF Stops!Appends
<1>16. PICK f : f = shift(seq)
  OBVIOUS
<1>17. f \in [Stops!Ids -> Nat] /\ \A i \in Stops!Ids : f[i] = IF i \in above(seq) THEN Stops!Stops[i].seq + 1
           ELSE 0
  BY <1>5, <1>6, <1>16
<1>18. n + 1 \in Stops!Ids
  BY <1>1, <1>5 DEF Stops!Ids, Stops!StopAssumption
<1>19. db.start \in Stops!Ends /\ db.end \in Stops!Ends /\ db.locked \in BOOLEAN
  BY <1>4 DEF Stops!TypeOK
<1>20. s = [kind |-> "add", who |-> r.who, phase |-> "read", fresh |-> r.fresh, at |-> r.at, seq |-> seq,
            id |-> n + 1, shift |-> f, append |-> b, start |-> db.start, end |-> db.end]
  BY <1>3, <1>14, <1>15, <1>16 DEF StopAddRequests
<1> HIDE DEF shift
<1>21. s \in Stops!Requests
  <2>1. s \in StopAddRequests
    BY <1>3, <1>5, <1>7, <1>17, <1>18, <1>19, <1>20 DEF StopAddRequests, Stops!Phases, Stops!Ends
  <2> QED
    BY <2>1 DEF Stops!Requests, StopAddRequests
<1>22. above(seq) \subseteq Stops!OnRoute /\ \A i \in above(seq) : Stops!Stops[i].seq >= seq
  OBVIOUS
<1>23. Stops!Moved(s) = above(seq)
  <2>1. Stops!Moved(s) = {i \in Stops!Ids : f[i] # 0}
    BY <1>20 DEF Stops!Moved
  <2>2. \A i \in Stops!OnRoute : i \in Stops!Ids /\ Stops!Stops[i].seq + 1 # 0
    BY <1>1, <1>5, <1>6 DEF Stops!Ids, Stops!StopAssumption
  <2> QED
    BY <1>17, <1>22, <2>1, <2>2
<1>24. Stops!Sound(s)'
  <2>1. s.kind = "add" /\ s.phase # "sent" /\ s.seq = seq /\ s.id = n + 1 /\ s.shift = f
    BY <1>20
  <2>2. Stops!Moved(s)' = Stops!Moved(s)
    BY DEF Stops!Moved
  <2>3. \A i \in Stops!Moved(s) : i \in Stops!OnRoute /\ f[i] = Stops!Stops[i].seq + 1 /\ Stops!Stops[i].seq >= seq
    BY <1>17, <1>22, <1>23 DEF Stops!Moved
  <2>4. ASSUME NEW i \in Stops!Moved(s) PROVE f[i] \in (seq + 1)..(n + 1)
    <3>1. PICK m \in 1..n : m = Stops!Stops[i].seq
      BY <2>3, <1>6
    <3>2. f[i] = m + 1 /\ m >= seq
      BY <2>3, <3>1
    <3> QED
      BY <3>1, <3>2, <1>5, <1>7
  <2>5. ASSUME NEW i \in Stops!Moved(s), NEW j \in Stops!Moved(s), f[i] = f[j] PROVE i = j
    <3>1. Stops!Stops[i].seq = Stops!Stops[j].seq
      BY <2>3, <2>5, <1>6
    <3> QED
      BY <2>3, <3>1, <1>4 DEF Stops!RouteInv
  <2> QED
    BY <2>1, <2>2, <2>4, <2>5, <1>5, <1>7, <1>11 DEF Stops!Sound
<1>25. ASSUME ~hist.stale PROVE Stops!Current(s)
  <2> SUFFICES ASSUME r.fresh PROVE Stops!Fits(r.at, seq) /\ Stops!ReadsNow(s)
    BY <1>20 DEF Stops!Current
  <2>1. Stops!Fits(r.at, r.seq)
    BY <1>1, <1>3, <1>25 DEF Stops!Current
  <2>2. r.seq \in Nat
    BY <1>3 DEF StopAddRequests
  <2>3. r.seq = 0 => Stops!OnRoute = {} /\ ~db.locked /\ seq = 1
    BY <1>4, <2>1 DEF Stops!Fits, Stops!RouteInv, Stops!Granted
  <2>4. r.seq # 0 => seq = r.seq
    BY DEF Stops!Granted
  <2>5. Stops!Fits(r.at, seq)
    <3>1. CASE r.seq = 0
      BY <3>1, <2>3 DEF Stops!Fits
    <3>2. CASE r.seq # 0
      BY <3>2, <2>1, <2>4
    <3> QED
      BY <3>1, <3>2
  <2>6. b <=> ~db.locked /\ \A i \in Stops!OnRoute : Stops!Stops[i].seq < seq
    BY <1>15, <2>3, <2>4 DEF Stops!Appends
  <2>7. ASSUME NEW i \in Stops!Ids
        PROVE  f[i] = IF i \in Stops!OnRoute /\ Stops!Stops[i].seq >= seq THEN Stops!Stops[i].seq + 1 ELSE 0
    <3>1. CASE b
      <4>1. i \notin above(seq)
        BY <1>15, <3>1
      <4>2. ASSUME i \in Stops!OnRoute PROVE ~(Stops!Stops[i].seq >= seq)
        <5>1. PICK m \in 1..n : m = Stops!Stops[i].seq
          BY <4>2, <1>6
        <5>2. m < seq
          BY <2>6, <3>1, <4>2, <5>1
        <5> QED
          BY <5>1, <5>2, <1>5, <1>7
      <4> QED
        BY <1>17, <4>1, <4>2
    <3>2. CASE ~b
      BY <1>15, <1>17, <3>2
    <3> QED
      BY <3>1, <3>2
  <2>8. n + 1 \notin Stops!OnRoute
    BY <1>5
  <2>9. Stops!ReadsNow(s)
    BY <1>20, <2>6, <2>7, <2>8 DEF Stops!ReadsNow
  <2> QED
    BY <2>5, <2>9
<1>26. wire' = (wire \ {r}) \cup {s}
  BY <1>2, <1>14 DEF Stops!Replace
<1>27. \A q \in wire' : q \in Stops!Requests /\ Stops!Sound(q)' /\ (~hist.stale => Stops!Current(q)')
  BY <1>13, <1>21, <1>24, <1>25, <1>26, StopWireRequests, StopSameSound, StopSameCurrent
<1>28. db' \in [stops: Seq([at: Stops!Points, seq: Nat, state: {"on", "loose", "deleted"}]),
                start: Stops!Ends, end: Stops!Ends, locked: BOOLEAN, hints: SUBSET Hints]
  <2>1. db.hints \subseteq Hints
    BY <1>4 DEF Stops!TypeOK
  <2> QED
    BY <1>8, <1>9, <1>11, <1>19, <2>1
<1>29. Stops!TypeOK'
  <2>1. Len(Stops!Stops') <= MaxStops
    BY <1>1, <1>5, <1>11 DEF Stops!StopAssumption
  <2> QED
    BY <1>1, <1>4, <1>27, <1>28, <2>1 DEF Stops!TypeOK
<1>30. \A e \in shown'["routes"] \cup form'.saved : e.seq <= Len(Stops!Stops')
  <2>1. \A e \in shown["routes"] \cup form.saved : e.seq \in Nat /\ e.seq <= n
    BY <1>4, StopInvNow DEF Stops!TypeOK, Stops!Entry
  <2> QED
    BY <1>1, <1>5, <1>11, <2>1
<1>31. form'.pin # None => form'.pin.seq <= Len(Stops!Stops') + 1
  <2>1. form.pin # None => form.pin.seq \in Nat /\ form.pin.seq <= n + 1
    BY <1>4 DEF Stops!IInv, Stops!NumbersInv, Stops!TypeOK, Stops!Pins
  <2> QED
    BY <1>1, <1>5, <1>11, <2>1
<1>32. ASSUME ~hist.stale, form.pin # None, form.pin.fresh PROVE Stops!Fits(form.pin.at, form.pin.seq)'
  <2>1. PICK p, m : p = form.pin.at /\ m = form.pin.seq
    OBVIOUS
  <2>2. Stops!Fits(p, m)'
    BY <1>32, <2>1, <1>13, StopSameFits DEF Stops!IInv, Stops!FreshInv
  <2>3. form'.pin.at = p /\ form'.pin.seq = m
    BY <1>1, <2>1
  <2> QED
    BY <2>2, <2>3 DEF Stops!Fits
<1>33. hist'.stale = hist.stale
  BY <1>1
<1>34. ~hist.stale => (form.pin # None /\ form.pin.fresh => Stops!Fits(form.pin.at, form.pin.seq))'
  BY <1>1, <1>32
<1> QED
  BY <1>13, <1>27, <1>29, <1>30, <1>31, <1>33, <1>34, StopKeepsRoute

\* ---- the server: what changes the route ------------------------------------------

StopRow == [at: Stops!Points, seq: Nat, state: {"on", "loose", "deleted"}]

LEMMA AsSequence ==
  ASSUME NEW T, NEW n \in Nat, NEW f \in [1..n -> T]
  PROVE  f \in Seq(T) /\ Len(f) = n
OBVIOUS

LEMMA StopSoundKept ==
  ASSUME NEW r, Stops!Sound(r), Len(Stops!Stops') = Len(Stops!Stops), DOMAIN Stops!Stops' = DOMAIN Stops!Stops
  PROVE  Stops!Sound(r)'
BY DEF Stops!Sound, Stops!Moved

LEMMA StopStaleTyped ==
  ASSUME NEW q \in Stops!Requests, Stops!Sound(q)
  PROVE  /\ Stops!Stale(q) \in Stops!Requests /\ Stops!Sound(Stops!Stale(q))
         /\ Stops!Stale(q).kind = "add" => ~Stops!Stale(q).fresh
<1>1. CASE q.kind = "add"
  <2>1. q \in StopAddRequests
    BY <1>1, StopAddTyped
  <2>2. PICK s : s = [q EXCEPT !.fresh = FALSE]
    OBVIOUS
  <2>3. s \in StopAddRequests /\ s.fresh = FALSE /\ s.kind = "add" /\ s.phase = q.phase /\ s.seq = q.seq
        /\ s.id = q.id /\ s.shift = q.shift
    BY <2>1, <2>2 DEF StopAddRequests
  <2>4. Stops!Moved(s) = Stops!Moved(q)
    BY <2>3 DEF Stops!Moved
  <2>5. Stops!Sound(s)
    BY <1>1, <2>3, <2>4 DEF Stops!Sound
  <2>6. s \in Stops!Requests
    BY <2>3 DEF Stops!Requests, StopAddRequests
  <2> QED
    BY <1>1, <2>2, <2>3, <2>5, <2>6 DEF Stops!Stale
<1>2. CASE q.kind # "add"
  BY <1>2 DEF Stops!Stale
<1> QED
  BY <1>1, <1>2

\* A commit makes what others computed stale, so only the route itself and its
\* ends remain to be looked at.
LEMMA StopWriteKeeps ==
  ASSUME Stops!IInv, NEW r \in wire, r.kind = "add" => r.phase = "read", NEW new, NEW phase \in {"ok", "error"},
         Stops!Write(r, new, phase),
         new \in [stops: Seq(StopRow), start: Stops!Ends, end: Stops!Ends, locked: BOOLEAN, hints: SUBSET Hints],
         Len(new.stops) = Len(Stops!Stops), Stops!RouteInv',
         ~hist.stale /\ (r.kind = "add" => r.fresh) => Stops!StopsFollowPath' /\ Stops!EndsInv'
  PROVE  Stops!IInv'
<1>1. db' = new /\ UNCHANGED <<shown, due, dialog>>
  BY DEF Stops!Write
<1>2. Stops!TypeOK
  BY DEF Stops!IInv
<1>3. Stops!Stops' = new.stops /\ Stops!Stops' \in Seq(StopRow) /\ Len(Stops!Stops') = Len(Stops!Stops)
          /\ DOMAIN Stops!Stops' = DOMAIN Stops!Stops
  BY <1>1, <1>2, StopShapes DEF Stops!Stops
<1>4. PICK s : s = [r EXCEPT !.who = r.who, !.phase = phase]
  OBVIOUS
<1>5. s = [r EXCEPT !.phase = phase] /\ r.who \in Stops!Whos
  BY <1>4, StopWireRequests DEF Stops!Requests
<1>6. s \in Stops!Requests /\ Stops!Sound(s) /\ s.phase = phase
  <2>1. phase \in Stops!Phases /\ phase # "read"
    BY DEF Stops!Phases
  <2>2. r \in Stops!Requests /\ Stops!Sound(r) /\ (~hist.stale => Stops!Current(r))
    BY StopWireRequests
  <2>3. r.kind = "add" => (phase = r.phase \/ (r.phase # "sent" /\ phase \in {"ok", "error"}))
    OBVIOUS
  <2>4. r.kind # "add" => phase # "read"
    BY <2>1
  <2>4a. s = [r EXCEPT !.who = r.who, !.phase = phase]
    BY <1>4
  <2>5. s \in Stops!Requests /\ Stops!Sound(s)
    <3>1. r \in Stops!Requests /\ Stops!Sound(r) /\ (~hist.stale => Stops!Current(r))
      BY <2>2
    <3>2. r.who \in Stops!Whos
      BY <1>5
    <3> QED
      BY <2>1, <2>3, <2>4, <2>4a, <3>1, <3>2, StopRelabelled
  <2>6. s.phase = phase
    BY <1>5, <2>2 DEF Stops!Requests
  <2> QED
    BY <2>5, <2>6
<1>7. \A q \in wire' : q = s \/ \E w \in wire : q = Stops!Stale(w)
  BY <1>5 DEF Stops!Write
<1>8. \A q \in wire' : q \in Stops!Requests /\ Stops!Sound(q)
          /\ (q.kind = "add" => q.phase \in {"ok", "error"} \/ ~q.fresh)
  BY <1>6, <1>7, StopWireRequests, StopStaleTyped
<1>9. \A q \in wire' : Stops!Sound(q)' /\ Stops!Current(q)'
  <2>1. ASSUME NEW q \in wire' PROVE Stops!Sound(q)'
    BY <1>3, <1>8, StopSoundKept
  <2>2. ASSUME NEW q \in wire' PROVE Stops!Current(q)'
    BY <1>8 DEF Stops!Current
  <2> QED
    BY <2>1, <2>2
<1>10. /\ form' \in [pin: Stops!Pins \cup {None}, applying: Hints \cup {None}, saved: SUBSET Stops!Entry]
       /\ form'.saved = form.saved
       /\ form'.pin # None => form.pin # None /\ form'.pin.seq = form.pin.seq /\ ~form'.pin.fresh
  <2>1. form \in [pin: Stops!Pins \cup {None}, applying: Hints \cup {None}, saved: SUBSET Stops!Entry]
    BY <1>2 DEF Stops!TypeOK
  <2>2. CASE form.pin = None
    BY <2>1, <2>2 DEF Stops!Write
  <2>3. CASE form.pin # None
    <3>1. form.pin \in Stops!Pins
      BY <2>1, <2>3
    <3>2. PICK pin : pin = [form.pin EXCEPT !.fresh = FALSE]
      OBVIOUS
    <3>3. pin \in Stops!Pins /\ pin.seq = form.pin.seq /\ pin.fresh = FALSE
      BY <3>1, <3>2 DEF Stops!Pins
    <3>4. form' = [form EXCEPT !.pin.fresh = FALSE]
      BY <2>3 DEF Stops!Write
    <3>6. form' = [pin |-> pin, applying |-> form.applying, saved |-> form.saved]
      BY <2>1, <3>2, <3>4
    <3> QED
      BY <2>1, <2>3, <3>3, <3>6
  <2> QED
    BY <2>2, <2>3
<1>11. PICK b \in BOOLEAN : b = (hist.stale \/ (r.kind = "add" /\ ~r.fresh))
  OBVIOUS
<1>12. hist' = [hist EXCEPT !.stale = b]
  BY <1>11 DEF Stops!Write
<1>13. hist' \in [opens: Nat, sends: Nat, stale: BOOLEAN] /\ hist'.stale = b
  BY <1>2, <1>12 DEF Stops!TypeOK
<1>14. Stops!TypeOK'
  BY <1>1, <1>2, <1>3, <1>8, <1>10, <1>13 DEF Stops!TypeOK, StopRow
<1>15. Stops!NumbersInv'
  BY <1>1, <1>3, <1>9, <1>10 DEF Stops!IInv, Stops!NumbersInv
<1>16. Stops!FreshInv'
  BY <1>9, <1>10 DEF Stops!FreshInv
<1>17. ~hist'.stale => ~hist.stale /\ (r.kind = "add" => r.fresh)
  BY <1>11, <1>13
<1> QED
  BY <1>14, <1>15, <1>16, <1>17 DEF Stops!IInv

LEMMA StopOffRoute ==
  ASSUME Stops!TypeOK, NEW i \in Stops!Ids, NEW state \in {"loose", "deleted"}, Stops!Stops' = Stops!Off(i, state)
  PROVE  /\ Stops!Off(i, state) \in Seq(StopRow) /\ Len(Stops!Off(i, state)) = Len(Stops!Stops)
         /\ Stops!OnRoute' = Stops!OnRoute \ {i} /\ \A k \in Stops!OnRoute \ {i} : Stops!Stops'[k] = Stops!Stops[k]
<1>1. Len(Stops!Stops) \in Nat /\ DOMAIN Stops!Stops = 1..Len(Stops!Stops)
          /\ Stops!OnRoute \subseteq DOMAIN Stops!Stops
      /\ \A k \in DOMAIN Stops!Stops : Stops!Stops[k] \in StopRow
  BY StopShapes DEF StopRow
<1>2. ASSUME NEW k \in 1..Len(Stops!Stops)
      PROVE  (IF k = i THEN [at |-> Stops!Stops[i].at, seq |-> 0, state |-> state] ELSE Stops!Stops[k]) \in StopRow
  BY <1>1 DEF StopRow
<1>3. Stops!Off(i, state) \in [1..Len(Stops!Stops) -> StopRow]
  BY <1>1, <1>2 DEF Stops!Off
<1>4. Stops!Off(i, state) \in Seq(StopRow) /\ Len(Stops!Off(i, state)) = Len(Stops!Stops)
  BY <1>1, <1>3, AsSequence
<1>5. \A k \in 1..Len(Stops!Stops) : Stops!Stops'[k] =
        IF k = i THEN [at |-> Stops!Stops[i].at, seq |-> 0, state |-> state] ELSE Stops!Stops[k]
  BY <1>1 DEF Stops!Off
<1>6. DOMAIN Stops!Stops' = DOMAIN Stops!Stops
  BY DEF Stops!Off
<1>7. Stops!OnRoute' = {k \in DOMAIN Stops!Stops' : Stops!Stops'[k].state = "on"}
  BY DEF Stops!OnRoute
<1>8. Stops!OnRoute' = Stops!OnRoute \ {i}
  BY <1>1, <1>5, <1>6, <1>7 DEF Stops!OnRoute
<1> QED
  BY <1>1, <1>4, <1>5, <1>8

LEMMA StopOneOf == ASSUME NEW S PROVE IF S = {} THEN Stops!One(S) = None ELSE Stops!One(S) \in S
BY DEF Stops!One

\* A stop leaves the route: the others stay in order, and the ends are looked
\* up again where a stop that left may have been one.
LEMMA StopDetachKeeps ==
  ASSUME Stops!StopAssumption, Stops!IInv, NEW r \in wire, r.kind \in {"remove", "delete"},
         NEW i \in Stops!Ids, NEW state \in {"loose", "deleted"}, NEW recompute \in BOOLEAN,
         db.locked /\ i \in Stops!OnRoute => i # db.start /\ i # db.end,
         ~db.locked /\ i \in Stops!OnRoute => recompute,
         Stops!Write(r, Stops!Detach(i, state, recompute), "ok")
  PROVE  Stops!IInv'
<1> DEFINE left == Stops!OnRoute \ {i}
<1>1. Stops!TypeOK /\ Stops!RouteInv
  BY DEF Stops!IInv
<1>2. db \in [stops: Seq(StopRow), start: Stops!Ends, end: Stops!Ends, locked: BOOLEAN, hints: SUBSET Hints]
  BY <1>1 DEF Stops!TypeOK, StopRow
<1>3. PICK start, end :
        /\ start = (IF recompute THEN Stops!One(Stops!Lowest(left)) ELSE db.start)
        /\ end = (IF recompute THEN Stops!One(Stops!Highest(left)) ELSE db.end)
  OBVIOUS
<1>4. Stops!Detach(i, state, recompute) =
        [stops |-> Stops!Off(i, state), start |-> start, end |-> end, locked |-> db.locked, hints |-> db.hints]
  BY <1>2, <1>3 DEF Stops!Detach
<1>5. db' = Stops!Detach(i, state, recompute)
  BY DEF Stops!Write
<1>6. Stops!Stops' = Stops!Off(i, state) /\ db'.start = start /\ db'.end = end /\ db'.locked = db.locked
  BY <1>4, <1>5 DEF Stops!Stops
<1>7. /\ Stops!Off(i, state) \in Seq(StopRow) /\ Len(Stops!Off(i, state)) = Len(Stops!Stops)
      /\ Stops!OnRoute' = left /\ \A k \in left : Stops!Stops'[k] = Stops!Stops[k]
  BY <1>1, <1>6, StopOffRoute
<1>8. left # {} => Stops!Lowest(left) # {} /\ Stops!Highest(left) # {}
  BY <1>1, StopEndsThere
<1>9. recompute => IF left = {} THEN start = None /\ end = None
                               ELSE start \in Stops!Lowest(left) /\ end \in Stops!Highest(left)
  <2>1. left = {} => Stops!Lowest(left) = {} /\ Stops!Highest(left) = {}
    BY DEF Stops!Lowest, Stops!Highest
  <2> QED
    BY <1>3, <1>8, <2>1, StopOneOf
<1>10. Stops!Lowest(left) \subseteq left /\ Stops!Highest(left) \subseteq left /\ left \subseteq Stops!OnRoute
           /\ Stops!OnRoute \subseteq Stops!Ids
  BY <1>1, StopShapes DEF Stops!Lowest, Stops!Highest, Stops!StopAssumption, Stops!Ids
<1>11. start \in Stops!Ends /\ end \in Stops!Ends
  BY <1>2, <1>3, <1>9, <1>10 DEF Stops!Ends
<1>12. Stops!Detach(i, state, recompute)
         \in [stops: Seq(StopRow), start: Stops!Ends, end: Stops!Ends, locked: BOOLEAN, hints: SUBSET Hints]
  BY <1>2, <1>4, <1>7, <1>11
<1>13. Len(Stops!Detach(i, state, recompute).stops) = Len(Stops!Stops)
  BY <1>4, <1>7
<1>14. Stops!RouteInv'
  <2>1. Len(Stops!Stops') = Len(Stops!Stops)
    BY <1>6, <1>7
  <2>2. \A k \in Stops!OnRoute' : Stops!Stops'[k].seq \in 1..Len(Stops!Stops')
    BY <1>1, <1>7, <2>1 DEF Stops!RouteInv
  <2>3. \A j, k \in Stops!OnRoute' : Stops!Stops'[j].seq = Stops!Stops'[k].seq => j = k
    BY <1>1, <1>7 DEF Stops!RouteInv
  <2>4. ASSUME db.locked PROVE start \in left /\ end \in left
    <3>1. db.start \in Stops!OnRoute /\ db.end \in Stops!OnRoute
      BY <1>1, <2>4 DEF Stops!RouteInv
    <3>2. db.start # i /\ db.end # i
      BY <2>4, <3>1
    <3>3. left # {}
      BY <3>1, <3>2
    <3> QED
      BY <1>3, <1>9, <1>10, <3>1, <3>2, <3>3
  <2> QED
    BY <1>6, <1>7, <2>2, <2>3, <2>4 DEF Stops!RouteInv
<1>15. Stops!Lowest(Stops!OnRoute)' = Stops!Lowest(left) /\ Stops!Highest(Stops!OnRoute)' = Stops!Highest(left)
  BY <1>7 DEF Stops!Lowest, Stops!Highest
<1>16. ASSUME ~hist.stale PROVE Stops!StopsFollowPath' /\ Stops!EndsInv'
  <2>1. Stops!StopsFollowPath /\ Stops!EndsInv
    BY <1>16 DEF Stops!IInv
  <2>2. Stops!StopsFollowPath'
    BY <1>7, <2>1 DEF Stops!StopsFollowPath
  <2>3. ASSUME ~db.locked
        PROVE  IF left = {} THEN start = None /\ end = None
                            ELSE start \in Stops!Lowest(left) /\ end \in Stops!Highest(left)
    <3>1. CASE recompute
      BY <1>9, <3>1
    <3>2. CASE ~recompute
      <4>1. left = Stops!OnRoute /\ start = db.start /\ end = db.end
        BY <1>3, <2>3, <3>2
      <4> QED
        BY <2>1, <2>3, <4>1 DEF Stops!EndsInv
    <3> QED
      BY <3>1, <3>2
  <2>4. Stops!EndsInv'
    BY <1>6, <1>7, <1>15, <2>3 DEF Stops!EndsInv
  <2> QED
    BY <2>2, <2>4
<1>17. r.kind # "add"
  OBVIOUS
<1>18. PICK phase \in {"ok", "error"} : phase = "ok"
  OBVIOUS
<1>18a. PICK new : new = Stops!Detach(i, state, recompute)
  OBVIOUS
<1>19. Stops!Write(r, new, phase)
  BY <1>18, <1>18a
<1> QED
  BY <1>12, <1>13, <1>14, <1>16, <1>17, <1>18a, <1>19, StopWriteKeeps

LEMMA StopServeRemoveKeeps == ASSUME Stops!StopAssumption, Stops!IInv, NEW r \in wire,
    Stops!ServeRemove(r) PROVE Stops!IInv'
<1>1. r.kind = "remove" /\ r.phase = "sent"
  BY DEF Stops!ServeRemove
<1>2. r.id \in Stops!Ids /\ db.locked \in BOOLEAN
  BY <1>1, StopWireRequests DEF Stops!Requests, Stops!IInv, Stops!TypeOK
<1>3. CASE Stops!Refuse(r)
  BY <1>1, <1>3, StopRefuseKeeps
<1>4. CASE /\ ~(r.id \notin Stops!OnRoute \/ (db.locked /\ r.id \in {db.start, db.end}))
           /\ Stops!Write(r, Stops!Detach(r.id, "loose", ~db.locked), "ok")
  <2>1. PICK i \in Stops!Ids, recompute \in BOOLEAN, state \in {"loose", "deleted"} :
          i = r.id /\ recompute = ~db.locked /\ state = "loose"
    BY <1>2
  <2>2. Stops!Write(r, Stops!Detach(i, state, recompute), "ok")
    BY <1>4, <2>1
  <2>3. db.locked /\ i \in Stops!OnRoute => i # db.start /\ i # db.end
    BY <1>4, <2>1
  <2>4. ~db.locked /\ i \in Stops!OnRoute => recompute
    BY <2>1
  <2> QED
    BY <1>1, <2>2, <2>3, <2>4, StopDetachKeeps
<1> QED
  BY <1>3, <1>4 DEF Stops!ServeRemove

LEMMA StopServeDeleteKeeps == ASSUME Stops!StopAssumption, Stops!IInv, NEW r \in wire,
    Stops!ServeDelete(r) PROVE Stops!IInv'
<1>1. r.kind = "delete" /\ r.phase = "sent"
  BY DEF Stops!ServeDelete
<1>2. r.id \in Stops!Ids
  BY <1>1, StopWireRequests DEF Stops!Requests
<1>3. CASE Stops!Refuse(r)
  BY <1>1, <1>3, StopRefuseKeeps
<1>4. CASE /\ ~(Stops!Stops[r.id].state = "deleted" \/ (r.id \in Stops!OnRoute /\ r.id \in {db.start, db.end}))
           /\ Stops!Write(r, Stops!Detach(r.id, "deleted", r.id \in Stops!OnRoute), "ok")
  <2>0. PICK recompute \in BOOLEAN : recompute = (r.id \in Stops!OnRoute)
    <3>1. CASE r.id \in Stops!OnRoute
      <4>1. TRUE = (r.id \in Stops!OnRoute)
        BY <3>1
      <4> QED
        BY <4>1
    <3>2. CASE r.id \notin Stops!OnRoute
      <4>1. FALSE = (r.id \in Stops!OnRoute)
        BY <3>2
      <4> QED
        BY <4>1
    <3> QED
      BY <3>1, <3>2
  <2>1. PICK i \in Stops!Ids, state \in {"loose", "deleted"} : i = r.id /\ state = "deleted"
    BY <1>2
  <2>2. Stops!Write(r, Stops!Detach(i, state, recompute), "ok")
    BY <1>4, <2>0, <2>1
  <2>3. db.locked /\ i \in Stops!OnRoute => i # db.start /\ i # db.end
    BY <1>4, <2>1
  <2>4. ~db.locked /\ i \in Stops!OnRoute => recompute
    BY <2>0, <2>1
  <2> QED
    BY <1>1, <2>2, <2>3, <2>4, StopDetachKeeps
<1> QED
  BY <1>3, <1>4 DEF Stops!ServeDelete

\* The rows once a stop was put on the route.
LEMMA StopInsertedRoute ==
  ASSUME Stops!StopAssumption, Stops!TypeOK, NEW r \in StopAddRequests, Stops!Sound(r), r.phase # "sent",
             Stops!Moved(r) \subseteq Stops!OnRoute,
         Stops!Stops' = Stops!Inserted(r)
  PROVE  /\ Stops!Inserted(r) \in Seq(StopRow) /\ Len(Stops!Inserted(r)) = Len(Stops!Stops)
         /\ Stops!OnRoute' = Stops!OnRoute \cup {r.id}
                /\ Stops!Stops'[r.id] = [at |-> r.at, seq |-> r.seq, state |-> "on"]
         /\ \A k \in Stops!OnRoute : k # r.id => /\ Stops!Stops'[k].at = Stops!Stops[k].at
                                                 /\ Stops!Stops'[k].seq = IF k \in Stops!Moved(r) THEN r.shift[k]
                                                        ELSE Stops!Stops[k].seq
<1>1. Len(Stops!Stops) \in Nat /\ DOMAIN Stops!Stops = 1..Len(Stops!Stops)
          /\ Stops!OnRoute \subseteq DOMAIN Stops!Stops
      /\ \A k \in DOMAIN Stops!Stops : Stops!Stops[k] \in StopRow
  BY StopShapes DEF StopRow
<1>2. r.kind = "add" /\ r.at \in Stops!Points /\ r.seq \in Nat /\ r.shift \in [Stops!Ids -> Nat]
  BY DEF StopAddRequests
<1>3. r.id \in DOMAIN Stops!Stops
  BY <1>2 DEF Stops!Sound
<1>4. \A k \in DOMAIN Stops!Stops : k \in Stops!Ids
  BY <1>1, StopShapes DEF Stops!StopAssumption, Stops!Ids
<1>5. ASSUME NEW k \in DOMAIN Stops!Stops
      PROVE  /\ [Stops!Stops[k] EXCEPT !.seq = r.shift[k]] \in StopRow
             /\ [Stops!Stops[k] EXCEPT !.seq = r.shift[k]].at = Stops!Stops[k].at
             /\ [Stops!Stops[k] EXCEPT !.seq = r.shift[k]].state = Stops!Stops[k].state
             /\ [Stops!Stops[k] EXCEPT !.seq = r.shift[k]].seq = r.shift[k]
  <2>1. Stops!Stops[k] \in StopRow /\ r.shift[k] \in Nat
    BY <1>1, <1>2, <1>4
  <2> QED
    BY <2>1 DEF StopRow
<1>6. [at |-> r.at, seq |-> r.seq, state |-> "on"] \in StopRow
  BY <1>2 DEF StopRow
<1>7. Stops!Inserted(r) \in [1..Len(Stops!Stops) -> StopRow]
  BY <1>1, <1>5, <1>6 DEF Stops!Inserted
<1>8. Stops!Inserted(r) \in Seq(StopRow) /\ Len(Stops!Inserted(r)) = Len(Stops!Stops)
  BY <1>1, <1>7, AsSequence
<1>9. DOMAIN Stops!Stops' = DOMAIN Stops!Stops /\ \A k \in DOMAIN Stops!Stops : Stops!Stops'[k] =
        IF k = r.id THEN [at |-> r.at, seq |-> r.seq, state |-> "on"]
        ELSE IF k \in Stops!Moved(r) THEN [Stops!Stops[k] EXCEPT !.seq = r.shift[k]]
        ELSE Stops!Stops[k]
  BY DEF Stops!Inserted
<1>10. Stops!Stops'[r.id] = [at |-> r.at, seq |-> r.seq, state |-> "on"]
  BY <1>3, <1>9
<1>11. \A k \in DOMAIN Stops!Stops : k # r.id =>
         /\ Stops!Stops'[k].at = Stops!Stops[k].at /\ Stops!Stops'[k].state = Stops!Stops[k].state
         /\ Stops!Stops'[k].seq = IF k \in Stops!Moved(r) THEN r.shift[k] ELSE Stops!Stops[k].seq
  BY <1>5, <1>9
<1>12. Stops!OnRoute' = {k \in DOMAIN Stops!Stops : Stops!Stops'[k].state = "on"}
  BY <1>9 DEF Stops!OnRoute
<1>13. Stops!OnRoute' = Stops!OnRoute \cup {r.id}
  <2>1. Stops!Stops'[r.id].state = "on"
    BY <1>10
  <2>2. \A k \in DOMAIN Stops!Stops : k # r.id => (k \in Stops!OnRoute' <=> k \in Stops!OnRoute)
    BY <1>11, <1>12 DEF Stops!OnRoute
  <2> QED
    BY <1>1, <1>3, <1>12, <2>1, <2>2
<1> QED
  BY <1>1, <1>8, <1>10, <1>11, <1>13

\* Where what was computed still holds, the stops before the place stay, the
\* others move up by one.
LEMMA StopInsertedInOrder ==
  ASSUME Stops!StopAssumption, Stops!IInv, ~hist.stale, NEW r \in wire, r.kind = "add", r.phase = "read", r.fresh,
         Stops!OnRoute' = Stops!OnRoute \cup {r.id},
             Stops!Stops'[r.id] = [at |-> r.at, seq |-> r.seq, state |-> "on"],
         \A k \in Stops!OnRoute : k # r.id => /\ Stops!Stops'[k].at = Stops!Stops[k].at
                                              /\ Stops!Stops'[k].seq = IF k \in Stops!Moved(r) THEN r.shift[k]
                                                     ELSE Stops!Stops[k].seq,
         db'.locked = db.locked,
         ~db.locked => /\ db'.start = IF r.seq = 1 \/ r.start = None THEN r.id ELSE r.start
                       /\ db'.end = IF r.append THEN r.id ELSE r.end
  PROVE  Stops!StopsFollowPath' /\ Stops!EndsInv'
<1> DEFINE n == r.seq
           at(k) == Stops!Stops[k].at
           seq(k) == Stops!Stops[k].seq
           new(k) == Stops!Stops'[k].seq
<1>1. Stops!TypeOK /\ Stops!RouteInv /\ Stops!StopsFollowPath /\ Stops!EndsInv
  BY DEF Stops!IInv
<1>2. Stops!Fits(r.at, n) /\ Stops!ReadsNow(r) /\ r \in StopAddRequests
  BY StopWireRequests, StopAddTyped DEF Stops!Current
<1>3. \A k \in Stops!OnRoute : k \in Stops!Ids /\ seq(k) \in Nat /\ at(k) \in Nat /\ seq(k) >= 1
  BY <1>1, StopShapes DEF Stops!RouteInv, Stops!Points, Stops!Ids, Stops!StopAssumption
<1>4. n \in Nat /\ n >= 1 /\ r.at \in Nat
  BY <1>2, StopWireRequests DEF StopAddRequests, Stops!Points, Stops!Sound
<1>5. r.id \notin Stops!OnRoute /\ (n > 1 => \E k \in Stops!OnRoute : seq(k) < n)
      /\ \A k \in Stops!OnRoute : IF seq(k) < n THEN at(k) <= r.at ELSE r.at <= at(k)
  BY <1>2 DEF Stops!Fits, Stops!ReadsNow
<1>6. \A k \in Stops!OnRoute : new(k) = (IF seq(k) < n THEN seq(k) ELSE seq(k) + 1) /\ Stops!Stops'[k].at = at(k)
  <2>1. ASSUME NEW k \in Stops!OnRoute
        PROVE  new(k) = (IF seq(k) < n THEN seq(k) ELSE seq(k) + 1) /\ Stops!Stops'[k].at = at(k)
    <3>1. r.shift[k] = IF seq(k) >= n THEN seq(k) + 1 ELSE 0
      BY <1>2, <1>3 DEF Stops!ReadsNow
    <3>2. k \in Stops!Moved(r) <=> seq(k) >= n
      BY <1>3, <1>4, <3>1 DEF Stops!Moved
    <3>3. k # r.id
      BY <1>5
    <3> QED
      BY <1>3, <1>4, <3>1, <3>2, <3>3
  <2> QED
    BY <2>1
<1>7. new(r.id) = n /\ Stops!Stops'[r.id].at = r.at
  OBVIOUS
<1>8. Stops!StopsFollowPath'
  <2>1. ASSUME NEW i \in Stops!OnRoute, NEW j \in Stops!OnRoute,
                   new(i) < new(j) PROVE Stops!Stops'[i].at <= Stops!Stops'[j].at
    <3>1. seq(i) < seq(j)
      BY <1>3, <1>4, <1>6, <2>1
    <3>2. at(i) <= at(j)
      BY <1>1, <3>1 DEF Stops!StopsFollowPath
    <3> QED
      BY <1>6, <3>2
  <2>2. ASSUME NEW i \in Stops!OnRoute, new(i) < n PROVE Stops!Stops'[i].at <= r.at
    BY <1>3, <1>4, <1>5, <1>6, <2>2
  <2>3. ASSUME NEW j \in Stops!OnRoute, n < new(j) PROVE r.at <= Stops!Stops'[j].at
    BY <1>3, <1>4, <1>5, <1>6, <2>3
  <2>4. ASSUME NEW i \in Stops!OnRoute', NEW j \in Stops!OnRoute',
                   new(i) < new(j) PROVE Stops!Stops'[i].at <= Stops!Stops'[j].at
    BY <1>4, <1>7, <2>1, <2>2, <2>3, <2>4
  <2> QED
    BY <2>4 DEF Stops!StopsFollowPath
<1>9. ASSUME ~db.locked PROVE db'.start \in Stops!Lowest(Stops!OnRoute)'
                 /\ db'.end \in Stops!Highest(Stops!OnRoute)'
  <2>1. r.start = db.start /\ r.end = db.end /\ (r.append <=> \A k \in Stops!OnRoute : seq(k) < n)
    BY <1>2, <1>9 DEF Stops!ReadsNow
  <2>2. Stops!Lowest(Stops!OnRoute)' = {i \in Stops!OnRoute' : \A j \in Stops!OnRoute' : new(i) <= new(j)}
    BY DEF Stops!Lowest
  <2>3. Stops!Highest(Stops!OnRoute)' = {i \in Stops!OnRoute' : \A j \in Stops!OnRoute' : new(j) <= new(i)}
    BY DEF Stops!Highest
  <2>4. Stops!OnRoute # {} => /\ db.start \in Stops!OnRoute /\ \A k \in Stops!OnRoute : seq(db.start) <= seq(k)
                              /\ db.end \in Stops!OnRoute /\ \A k \in Stops!OnRoute : seq(k) <= seq(db.end)
    BY <1>1, <1>9 DEF Stops!EndsInv, Stops!Lowest, Stops!Highest
  <2>5. db.start = None => Stops!OnRoute = {}
    BY <1>3, <2>4 DEF Stops!StopAssumption
  <2>6. db'.start \in {i \in Stops!OnRoute' : \A j \in Stops!OnRoute' : new(i) <= new(j)}
    <3>1. CASE n = 1
      <4>1. \A j \in Stops!OnRoute' : n <= new(j)
        BY <1>3, <1>4, <1>6, <1>7, <3>1
      <4> QED
        BY <1>7, <1>9, <3>1, <4>1
    <3>2. CASE Stops!OnRoute = {}
      <4>1. n = 1 /\ Stops!OnRoute' = {r.id} /\ db'.start = r.id
        BY <1>4, <1>5, <1>9, <3>2
      <4> QED
        BY <1>4, <1>7, <4>1
    <3>3. CASE n # 1 /\ Stops!OnRoute # {}
      <4>1. PICK k \in Stops!OnRoute : seq(k) < n
        BY <1>4, <1>5, <3>3
      <4>2. db.start \in Stops!OnRoute /\ seq(db.start) < n /\ \A j \in Stops!OnRoute : seq(db.start) <= seq(j)
        BY <1>3, <1>4, <2>4, <3>3, <4>1
      <4>3. new(db.start) = seq(db.start)
        BY <1>6, <4>2
      <4>4. \A j \in Stops!OnRoute : new(db.start) <= new(j)
        BY <1>3, <1>4, <1>6, <4>2, <4>3
      <4>5. new(db.start) <= new(r.id)
        BY <1>3, <1>4, <1>7, <4>2, <4>3
      <4>6. db'.start = db.start
        BY <1>9, <2>1, <2>5, <3>3
      <4> QED
        BY <4>2, <4>4, <4>5, <4>6
    <3> QED
      BY <3>1, <3>2, <3>3
  <2>7. db'.end \in {i \in Stops!OnRoute' : \A j \in Stops!OnRoute' : new(j) <= new(i)}
    <3>1. CASE r.append
      <4>1. \A j \in Stops!OnRoute : new(j) <= n
        BY <1>3, <1>4, <1>6, <2>1, <3>1
      <4>2. db'.end = r.id
        BY <1>9, <3>1
      <4> QED
        BY <1>4, <1>7, <4>1, <4>2
    <3>2. CASE ~r.append
      <4>1. PICK k \in Stops!OnRoute : ~(seq(k) < n)
        BY <2>1, <3>2
      <4>2. db.end \in Stops!OnRoute /\ seq(db.end) >= n /\ \A j \in Stops!OnRoute : seq(j) <= seq(db.end)
        BY <1>3, <1>4, <2>4, <4>1
      <4>3. new(db.end) = seq(db.end) + 1
        BY <1>3, <1>4, <1>6, <4>2
      <4>4. \A j \in Stops!OnRoute : new(j) <= new(db.end)
        BY <1>3, <1>4, <1>6, <4>2, <4>3
      <4>5. new(r.id) <= new(db.end)
        BY <1>3, <1>4, <1>7, <4>2, <4>3
      <4>6. db'.end = db.end
        BY <1>9, <2>1, <3>2
      <4> QED
        BY <4>2, <4>4, <4>5, <4>6
    <3> QED
      BY <3>1, <3>2
  <2> QED
    BY <2>2, <2>3, <2>6, <2>7
<1>10. Stops!OnRoute' # {}
  OBVIOUS
<1> QED
  BY <1>8, <1>9, <1>10 DEF Stops!EndsInv

LEMMA StopRewritten ==
  ASSUME NEW d \in [stops: Seq(StopRow), start: Stops!Ends, end: Stops!Ends, locked: BOOLEAN, hints: SUBSET Hints],
         NEW a \in Seq(StopRow), NEW b \in Stops!Ends, NEW c \in Stops!Ends,
         NEW x, x = [d EXCEPT !.stops = a, !.start = b, !.end = c]
  PROVE  /\ x \in [stops: Seq(StopRow), start: Stops!Ends, end: Stops!Ends, locked: BOOLEAN, hints: SUBSET Hints]
         /\ x.stops = a /\ x.start = b /\ x.end = c /\ x.locked = d.locked
OBVIOUS

\* Rows that got their new numbers: those the first error left unsaved keep theirs.
LEMMA StopShiftedRoute ==
  ASSUME Stops!StopAssumption, Stops!TypeOK, Stops!RouteInv, NEW r \in StopAddRequests, Stops!Sound(r),
             r.phase # "sent",
         Stops!Stops' = Stops!Shifted(r)
  PROVE  /\ Stops!Shifted(r) \in Seq(StopRow) /\ Len(Stops!Shifted(r)) = Len(Stops!Stops)
                /\ Stops!OnRoute' = Stops!OnRoute
         /\ \A k \in Stops!OnRoute : Stops!Stops'[k].seq \in 1..Len(Stops!Stops)
         /\ \A j, k \in Stops!OnRoute : Stops!Stops'[j].seq = Stops!Stops'[k].seq => j = k
<1>1. Len(Stops!Stops) \in Nat /\ DOMAIN Stops!Stops = 1..Len(Stops!Stops)
          /\ Stops!OnRoute \subseteq DOMAIN Stops!Stops
      /\ \A k \in DOMAIN Stops!Stops : Stops!Stops[k] \in StopRow
  BY StopShapes DEF StopRow
<1>2. r.kind = "add" /\ r.seq \in Nat /\ r.shift \in [Stops!Ids -> Nat]
  BY DEF StopAddRequests
<1>3. \A k \in DOMAIN Stops!Stops : k \in Stops!Ids
  BY <1>1, StopShapes DEF Stops!StopAssumption, Stops!Ids
<1>4. ASSUME NEW k \in DOMAIN Stops!Stops
      PROVE  /\ [Stops!Stops[k] EXCEPT !.seq = r.shift[k]] \in StopRow
             /\ [Stops!Stops[k] EXCEPT !.seq = r.shift[k]].state = Stops!Stops[k].state
             /\ [Stops!Stops[k] EXCEPT !.seq = r.shift[k]].seq = r.shift[k]
  <2>1. Stops!Stops[k] \in StopRow /\ r.shift[k] \in Nat
    BY <1>1, <1>2, <1>3
  <2> QED
    BY <2>1 DEF StopRow
<1>5. Stops!Shifted(r) \in [1..Len(Stops!Stops) -> StopRow]
  BY <1>1, <1>4 DEF Stops!Shifted
<1>6. Stops!Shifted(r) \in Seq(StopRow) /\ Len(Stops!Shifted(r)) = Len(Stops!Stops)
  BY <1>1, <1>5, AsSequence
<1>7. DOMAIN Stops!Stops' = DOMAIN Stops!Stops /\ \A k \in DOMAIN Stops!Stops : Stops!Stops'[k] =
        IF k \in Stops!Cleared(r) THEN [Stops!Stops[k] EXCEPT !.seq = r.shift[k]] ELSE Stops!Stops[k]
  BY DEF Stops!Shifted
<1>8. \A k \in DOMAIN Stops!Stops : /\ Stops!Stops'[k].state = Stops!Stops[k].state
                             /\ Stops!Stops'[k].seq = IF k \in Stops!Cleared(r) THEN r.shift[k]
                                    ELSE Stops!Stops[k].seq
  BY <1>4, <1>7
<1>9. Stops!OnRoute' = {k \in DOMAIN Stops!Stops : Stops!Stops'[k].state = "on"}
  BY <1>7 DEF Stops!OnRoute
<1>10. Stops!OnRoute' = Stops!OnRoute
  BY <1>8, <1>9 DEF Stops!OnRoute
<1>11. /\ \A i \in Stops!Moved(r) : r.shift[i] \in Nat /\ r.shift[i] \in 1..Len(Stops!Stops)
       /\ \A i, j \in Stops!Moved(r) : r.shift[i] = r.shift[j] => i = j
  <2>1. r.seq \in 1..Len(Stops!Stops) /\ \A i \in Stops!Moved(r) : r.shift[i] \in (r.seq + 1)..Len(Stops!Stops)
    BY <1>2 DEF Stops!Sound
  <2>2. \A m \in 1..Len(Stops!Stops) : \A s \in (m + 1)..Len(Stops!Stops) : s \in 1..Len(Stops!Stops) /\ s \in Nat
    BY <1>1
  <2>3. \A i, j \in Stops!Moved(r) : r.shift[i] = r.shift[j] => i = j
    BY <1>2 DEF Stops!Sound
  <2> QED
    BY <2>1, <2>2, <2>3
<1>12. Stops!Cleared(r) \subseteq Stops!Moved(r)
  BY DEF Stops!Cleared
<1>13. \A k \in Stops!OnRoute : Stops!Stops'[k].seq \in 1..Len(Stops!Stops)
  BY <1>1, <1>8, <1>11, <1>12 DEF Stops!RouteInv
<1>14. ASSUME NEW i \in Stops!Cleared(r), NEW j \in Stops!OnRoute,
                  j \notin Stops!Cleared(r) PROVE Stops!Stops[j].seq # r.shift[i]
  <2>1. i \notin Stops!Blocked(r)
    BY <1>11, <1>12 DEF Stops!Cleared
  <2>2. i \in Stops!Moved(r) /\ i # j
    BY <1>12, <1>14
  <2>3. CASE j \notin Stops!Moved(r)
    BY <2>1, <2>2, <2>3 DEF Stops!Blocked
  <2>4. CASE j \in Stops!Moved(r)
    <3>1. PICK b \in Stops!Blocked(r) : ~(r.shift[b] < r.shift[j])
      BY <1>14, <2>4 DEF Stops!Cleared
    <3>2. r.shift[b] < r.shift[i] /\ b \in Stops!Moved(r)
      BY <3>1 DEF Stops!Cleared, Stops!Blocked
    <3>3. r.shift[j] < r.shift[i]
      BY <1>11, <2>2, <2>4, <3>1, <3>2
    <3> QED
      BY <2>1, <2>2, <3>3 DEF Stops!Blocked
  <2> QED
    BY <2>3, <2>4
<1>15. ASSUME NEW j \in Stops!OnRoute, NEW k \in Stops!OnRoute,
                  Stops!Stops'[j].seq = Stops!Stops'[k].seq PROVE j = k
  <2>1. /\ Stops!Stops'[j].seq = (IF j \in Stops!Cleared(r) THEN r.shift[j] ELSE Stops!Stops[j].seq)
        /\ Stops!Stops'[k].seq = (IF k \in Stops!Cleared(r) THEN r.shift[k] ELSE Stops!Stops[k].seq)
    BY <1>1, <1>8
  <2>2. CASE j \in Stops!Cleared(r) /\ k \in Stops!Cleared(r)
    BY <1>11, <1>12, <1>15, <2>1, <2>2
  <2>3. CASE j \notin Stops!Cleared(r) /\ k \notin Stops!Cleared(r)
    BY <1>15, <2>1, <2>3 DEF Stops!RouteInv
  <2>4. CASE j \in Stops!Cleared(r) /\ k \notin Stops!Cleared(r)
    BY <1>14, <1>15, <2>1, <2>4
  <2>5. CASE j \notin Stops!Cleared(r) /\ k \in Stops!Cleared(r)
    BY <1>14, <1>15, <2>1, <2>5
  <2> QED
    BY <2>2, <2>3, <2>4, <2>5
<1> QED
  BY <1>6, <1>10, <1>13, <1>15

\* Where what was read still holds there is room.
LEMMA StopReadsHaveRoom ==
  ASSUME Stops!StopAssumption, Stops!TypeOK, Stops!RouteInv, NEW r \in StopAddRequests, Stops!ReadsNow(r)
  PROVE  Stops!HasRoom(r)
<1>1. \A i \in Stops!OnRoute : i \in Stops!Ids /\ Stops!Stops[i].seq \in Nat
  BY StopShapes DEF Stops!RouteInv, Stops!Ids, Stops!StopAssumption
<1>2. r.seq \in Nat
  BY DEF StopAddRequests
<1>3. \A i \in Stops!Ids : r.shift[i] = IF i \in Stops!OnRoute
          /\ Stops!Stops[i].seq >= r.seq THEN Stops!Stops[i].seq + 1 ELSE 0
  BY DEF Stops!ReadsNow
<1>4. \A i \in Stops!OnRoute : (i \in Stops!Moved(r) <=> Stops!Stops[i].seq >= r.seq)
  BY <1>1, <1>2, <1>3 DEF Stops!Moved
<1>5. \A i \in Stops!Moved(r) : i \in Stops!OnRoute /\ r.shift[i] = Stops!Stops[i].seq + 1
          /\ Stops!Stops[i].seq >= r.seq
  BY <1>3 DEF Stops!Moved
<1>6. ASSUME NEW i \in Stops!Moved(r), NEW j \in Stops!OnRoute, Stops!Stops[j].seq = r.shift[i],
             j \notin Stops!Moved(r) \/ r.shift[j] < r.shift[i]
      PROVE  FALSE
  <2>1. Stops!Stops[j].seq = Stops!Stops[i].seq + 1 /\ Stops!Stops[i].seq >= r.seq /\ Stops!Stops[i].seq \in Nat
            /\ Stops!Stops[j].seq \in Nat
    BY <1>1, <1>5, <1>6
  <2>2. j \in Stops!Moved(r)
    BY <1>2, <1>4, <2>1
  <2>3. r.shift[j] = Stops!Stops[j].seq + 1 /\ r.shift[i] = Stops!Stops[i].seq + 1
    BY <1>5, <2>2
  <2> QED
    BY <1>6, <2>1, <2>2, <2>3
<1>7. Stops!Blocked(r) = {}
  BY <1>5, <1>6 DEF Stops!Blocked
<1>8. \A j \in Stops!OnRoute \ Stops!Moved(r) : Stops!Stops[j].seq # r.seq
  BY <1>1, <1>2, <1>4
<1> QED
  BY <1>7, <1>8 DEF Stops!HasRoom

LEMMA StopSaveAddKeeps == ASSUME Stops!StopAssumption, Stops!IInv, NEW r \in wire,
    Stops!SaveAdd(r) PROVE Stops!IInv'
<1> DEFINE start == IF db.locked THEN db.start ELSE IF r.seq = 1 \/ r.start = None THEN r.id ELSE r.start
           end == IF db.locked THEN db.end ELSE IF r.append THEN r.id ELSE r.end
<1>1. r.kind = "add" /\ r.phase = "read"
  BY DEF Stops!SaveAdd
<1>2. CASE Stops!Refuse(r)
  BY <1>1, <1>2, StopRefuseKeeps
<1>2a. r \in StopAddRequests /\ Stops!Sound(r) /\ (~hist.stale => Stops!Current(r))
  BY <1>1, StopWireRequests, StopAddTyped
<1>2b. r.phase # "sent"
  BY <1>1
<1>3. Stops!TypeOK /\ Stops!RouteInv
  BY DEF Stops!IInv
<1>4. db \in [stops: Seq(StopRow), start: Stops!Ends, end: Stops!Ends, locked: BOOLEAN, hints: SUBSET Hints]
  BY <1>3 DEF Stops!TypeOK, StopRow
<1>5. CASE Stops!HasRoom(r) /\ Stops!Write(r,
               [db EXCEPT !.stops = Stops!Inserted(r), !.start = start, !.end = end], "ok")
  <2>1. /\ Stops!Moved(r) \subseteq Stops!OnRoute
               /\ \A j \in Stops!OnRoute \ Stops!Moved(r) : Stops!Stops[j].seq # r.seq
        /\ \A i \in Stops!Moved(r), j \in Stops!OnRoute \ Stops!Moved(r) : i # j => Stops!Stops[j].seq # r.shift[i]
        /\ Stops!Write(r, [db EXCEPT !.stops = Stops!Inserted(r), !.start = start, !.end = end], "ok")
    BY <1>5 DEF Stops!HasRoom, Stops!Blocked
  <2>2. PICK new : new = [db EXCEPT !.stops = Stops!Inserted(r), !.start = start, !.end = end]
    OBVIOUS
  <2>2a. PICK phase \in {"ok", "error"} : phase = "ok"
    OBVIOUS
  <2>3. Stops!Write(r, new, phase)
    BY <2>1, <2>2, <2>2a
  <2>4. db' = new
    BY <2>3 DEF Stops!Write
  <2>5. new.stops = Stops!Inserted(r) /\ new.start = start /\ new.end = end /\ new.locked = db.locked
    <3> HIDE DEF start, end
    <3> QED
      BY <1>4, <2>2
  <2>5a. Stops!Stops' = Stops!Inserted(r) /\ db'.start = start /\ db'.end = end /\ db'.locked = db.locked
    BY <2>4, <2>5 DEF Stops!Stops
  <2>6. r \in StopAddRequests /\ Stops!Sound(r) /\ r.phase # "sent"
    BY <1>2a, <1>2b
  <2>8. /\ Stops!Inserted(r) \in Seq(StopRow) /\ Len(Stops!Inserted(r)) = Len(Stops!Stops)
        /\ Stops!OnRoute' = Stops!OnRoute \cup {r.id}
               /\ Stops!Stops'[r.id] = [at |-> r.at, seq |-> r.seq, state |-> "on"]
        /\ \A k \in Stops!OnRoute : k # r.id => /\ Stops!Stops'[k].at = Stops!Stops[k].at
                                                /\ Stops!Stops'[k].seq = IF k \in Stops!Moved(r) THEN r.shift[k]
                                                       ELSE Stops!Stops[k].seq
    BY <1>3, <2>1, <2>5a, <2>6, StopInsertedRoute
  <2>9. r.id \in Stops!Ids /\ r.start \in Stops!Ends /\ r.end \in Stops!Ends
    <3>1. r.id \in DOMAIN Stops!Stops
      BY <1>1, <2>6 DEF Stops!Sound
    <3> QED
      BY <1>3, <2>6, <3>1, StopShapes DEF StopAddRequests, Stops!StopAssumption, Stops!Ids
  <2>10. start \in Stops!Ends /\ end \in Stops!Ends
    BY <1>4, <2>9 DEF Stops!Ends
  <2>11. new \in [stops: Seq(StopRow), start: Stops!Ends, end: Stops!Ends, locked: BOOLEAN, hints: SUBSET Hints]
    <3> HIDE DEF start, end
    <3> QED
      BY <1>4, <2>2, <2>8, <2>10, StopRewritten
  <2>13. Stops!RouteInv'
    <3>1. Len(Stops!Stops') = Len(Stops!Stops) /\ Len(Stops!Stops) \in Nat
      BY <1>3, <2>5a, <2>8, StopShapes
    <3>2. /\ r.seq \in 1..Len(Stops!Stops)
          /\ \A i \in Stops!Moved(r) : r.shift[i] \in (r.seq + 1)..Len(Stops!Stops)
          /\ \A i, j \in Stops!Moved(r) : r.shift[i] = r.shift[j] => i = j
      BY <1>1, <2>6 DEF Stops!Sound
    <3>3. \A i \in Stops!OnRoute : Stops!Stops[i].seq \in 1..Len(Stops!Stops)
      BY <1>3 DEF Stops!RouteInv
    <3>4. Stops!Stops'[r.id].seq = r.seq
      BY <2>8
    <3>5. \A k \in Stops!OnRoute : k # r.id
              => Stops!Stops'[k].seq = IF k \in Stops!Moved(r) THEN r.shift[k] ELSE Stops!Stops[k].seq
      BY <2>8
    <3>6. \A m \in 1..Len(Stops!Stops) : \A s \in (m + 1)..Len(Stops!Stops) : s \in 1..Len(Stops!Stops) /\ s # m
      BY <3>1
    <3>7. \A i \in Stops!Moved(r) : r.shift[i] \in 1..Len(Stops!Stops) /\ r.shift[i] # r.seq
      BY <3>2, <3>6
    <3>8. ASSUME NEW k \in Stops!OnRoute, k # r.id PROVE Stops!Stops'[k].seq \in 1..Len(Stops!Stops)
                     /\ Stops!Stops'[k].seq # r.seq
      <4>1. CASE k \in Stops!Moved(r)
        BY <3>5, <3>7, <3>8, <4>1
      <4>2. CASE k \notin Stops!Moved(r)
        BY <2>1, <3>3, <3>5, <3>8, <4>2
      <4> QED
        BY <4>1, <4>2
    <3>9. ASSUME NEW j \in Stops!OnRoute, NEW k \in Stops!OnRoute, j # r.id, k # r.id,
                     Stops!Stops'[j].seq = Stops!Stops'[k].seq
          PROVE  j = k
      <4>1. Stops!Stops'[j].seq = (IF j \in Stops!Moved(r) THEN r.shift[j] ELSE Stops!Stops[j].seq)
            /\ Stops!Stops'[k].seq = IF k \in Stops!Moved(r) THEN r.shift[k] ELSE Stops!Stops[k].seq
        BY <3>5, <3>9
      <4>2. CASE j \in Stops!Moved(r) /\ k \in Stops!Moved(r)
        BY <3>2, <3>9, <4>1, <4>2
      <4>3. CASE j \notin Stops!Moved(r) /\ k \notin Stops!Moved(r)
        BY <1>3, <3>9, <4>1, <4>3 DEF Stops!RouteInv
      <4>4. CASE j \in Stops!Moved(r) /\ k \notin Stops!Moved(r)
        BY <2>1, <3>9, <4>1, <4>4
      <4>5. CASE j \notin Stops!Moved(r) /\ k \in Stops!Moved(r)
        BY <2>1, <3>9, <4>1, <4>5
      <4> QED
        BY <4>2, <4>3, <4>4, <4>5
    <3>10. \A i \in Stops!OnRoute' : Stops!Stops'[i].seq \in 1..Len(Stops!Stops')
      BY <2>8, <3>1, <3>2, <3>4, <3>8
    <3>11. \A i, j \in Stops!OnRoute' : Stops!Stops'[i].seq = Stops!Stops'[j].seq => i = j
      BY <2>8, <3>4, <3>8, <3>9
    <3>12. db.locked => start \in Stops!OnRoute /\ end \in Stops!OnRoute
      BY <1>3 DEF Stops!RouteInv
    <3> QED
      BY <2>5a, <2>8, <3>10, <3>11, <3>12 DEF Stops!RouteInv
  <2>14. ASSUME ~hist.stale, r.fresh PROVE Stops!StopsFollowPath' /\ Stops!EndsInv'
    <3>1. ~db.locked => /\ db'.start = IF r.seq = 1 \/ r.start = None THEN r.id ELSE r.start
                        /\ db'.end = IF r.append THEN r.id ELSE r.end
      BY <2>5a
    <3> HIDE DEF start, end
    <3> QED
      BY <1>1, <2>5a, <2>8, <2>14, <3>1, StopInsertedInOrder
  <2>15. Len(new.stops) = Len(Stops!Stops)
    BY <2>5, <2>8
  <2>16. r.kind = "add" => r.phase = "read"
    BY <1>1
  <2>17. ~hist.stale /\ (r.kind = "add" => r.fresh) => Stops!StopsFollowPath' /\ Stops!EndsInv'
    BY <1>1, <2>14
  <2> QED
    BY <2>3, <2>11, <2>13, <2>15, <2>16, <2>17, StopWriteKeeps
<1>6. CASE ~Stops!HasRoom(r) /\ Stops!Write(r, [db EXCEPT !.stops = Stops!Shifted(r)], "error")
  <2>1. PICK new : new = [db EXCEPT !.stops = Stops!Shifted(r)]
    OBVIOUS
  <2>1a. PICK phase \in {"ok", "error"} : phase = "error"
    OBVIOUS
  <2>2. Stops!Write(r, new, phase) /\ db' = new
    BY <1>6, <2>1, <2>1a DEF Stops!Write
  <2>3. new = [stops |-> Stops!Shifted(r), start |-> db.start, end |-> db.end, locked |-> db.locked,
            hints |-> db.hints]
    BY <1>4, <2>1
  <2>4. Stops!Stops' = Stops!Shifted(r) /\ db'.start = db.start /\ db'.end = db.end /\ db'.locked = db.locked
    BY <2>2, <2>3 DEF Stops!Stops
  <2>5. /\ Stops!Shifted(r) \in Seq(StopRow) /\ Len(Stops!Shifted(r)) = Len(Stops!Stops)
               /\ Stops!OnRoute' = Stops!OnRoute
        /\ \A k \in Stops!OnRoute : Stops!Stops'[k].seq \in 1..Len(Stops!Stops)
        /\ \A j, k \in Stops!OnRoute : Stops!Stops'[j].seq = Stops!Stops'[k].seq => j = k
    BY <1>2a, <1>2b, <1>3, <2>4, StopShiftedRoute
  <2>6. new \in [stops: Seq(StopRow), start: Stops!Ends, end: Stops!Ends, locked: BOOLEAN, hints: SUBSET Hints]
    BY <1>4, <2>3, <2>5
  <2>7. Len(new.stops) = Len(Stops!Stops)
    BY <2>3, <2>5
  <2>8. Stops!RouteInv'
    BY <1>3, <2>4, <2>5 DEF Stops!RouteInv
  <2>9. ASSUME ~hist.stale, r.fresh PROVE FALSE
    <3>1. Stops!ReadsNow(r)
      BY <1>1, <1>2a, <2>9 DEF Stops!Current
    <3> QED
      BY <1>2a, <1>3, <1>6, <3>1, StopReadsHaveRoom
  <2>10. ~hist.stale /\ (r.kind = "add" => r.fresh) => Stops!StopsFollowPath' /\ Stops!EndsInv'
    BY <1>1, <2>9
  <2>11. r.kind = "add" => r.phase = "read"
    BY <1>1
  <2> QED
    BY <2>2, <2>6, <2>7, <2>8, <2>10, <2>11, StopWriteKeeps
<1> QED
  BY <1>2, <1>5, <1>6 DEF Stops!SaveAdd

\* ---- every behaviour -------------------------------------------------------------

LEMMA StopInitHolds == ASSUME Stops!StopAssumption, Stops!Init PROVE Stops!IInv
<1>1. PICK locked \in BOOLEAN, two \in BOOLEAN :
        /\ locked => two
        /\ db = [stops |-> IF two THEN <<[at |-> 1, seq |-> 1, state |-> "on"],
                                         [at |-> Length, seq |-> 2, state |-> "on"]>>
                                  ELSE <<>>,
                 start |-> IF two THEN 1 ELSE None, end |-> IF two THEN 2 ELSE None,
                 locked |-> locked, hints |-> Hints]
  BY DEF Stops!Init
<1>2. /\ shown = [routes |-> Stops!Listing] /\ due = {} /\ dialog = None /\ form = Stops!Blank /\ wire = {}
      /\ hist = [opens |-> 0, sends |-> 0, stale |-> FALSE]
  BY DEF Stops!Init
<1>3. 1 \in Stops!Points /\ Length \in Stops!Points /\ 1 <= Length /\ 1 \in Stops!Ids /\ 2 \in Stops!Ids
          /\ Length \in Nat
  BY DEF Stops!StopAssumption, Stops!Points, Stops!Ids
<1>4. form = [pin |-> None, applying |-> None, saved |-> {}]
  BY <1>2 DEF Stops!Blank
<1>5. ASSUME Stops!Listing \in SUBSET Stops!Entry PROVE shown \in [{"routes"} -> SUBSET Stops!Entry]
                 /\ shown["routes"] = Stops!Listing
  BY <1>2, <1>5
<1>6. CASE two
  <2>1. PICK a, b : a = [at |-> 1, seq |-> 1, state |-> "on"] /\ b = [at |-> Length, seq |-> 2, state |-> "on"]
    OBVIOUS
  <2>2. a \in StopRow /\ b \in StopRow /\ a.state = "on" /\ b.state = "on" /\ a.seq = 1 /\ b.seq = 2
        /\ a.at = 1 /\ b.at = Length
    BY <1>3, <2>1 DEF StopRow
  <2>3. db = [stops |-> <<a, b>>, start |-> 1, end |-> 2, locked |-> locked, hints |-> Hints]
    BY <1>1, <1>6, <2>1
  <2>4. Stops!Stops = <<a, b>> /\ db.start = 1 /\ db.end = 2
    BY <2>3 DEF Stops!Stops
  <2>5. <<a, b>> \in Seq(StopRow) /\ Len(Stops!Stops) = 2 /\ DOMAIN Stops!Stops = 1..2 /\ Stops!Stops[1] = a
            /\ Stops!Stops[2] = b
    BY <2>2, <2>4
  <2>6. 1..2 = {1, 2}
    OBVIOUS
  <2>7. Stops!OnRoute = {1, 2}
    BY <2>2, <2>5, <2>6 DEF Stops!OnRoute
  <2>8. Stops!Listing = {[id |-> 1, at |-> 1, seq |-> 1], [id |-> 2, at |-> Length, seq |-> 2]}
    BY <2>2, <2>5, <2>7 DEF Stops!Listing
  <2>9. Stops!Listing \in SUBSET Stops!Entry /\ \A e \in Stops!Listing : e.seq <= 2
    BY <1>3, <2>8 DEF Stops!Entry
  <2>10. db \in [stops: Seq(StopRow), start: Stops!Ends, end: Stops!Ends, locked: BOOLEAN, hints: SUBSET Hints]
    BY <1>3, <2>3, <2>5 DEF Stops!Ends
  <2>11. Stops!TypeOK
    BY <1>2, <1>4, <1>5, <2>5, <2>9, <2>10 DEF Stops!TypeOK, StopRow, Stops!StopAssumption
  <2>12. Stops!RouteInv
    BY <2>2, <2>4, <2>5, <2>6, <2>7 DEF Stops!RouteInv
  <2>13. Stops!NumbersInv
    BY <1>2, <1>4, <1>5, <2>5, <2>9 DEF Stops!NumbersInv
  <2>14. Stops!StopsFollowPath
    BY <1>3, <2>2, <2>5, <2>7 DEF Stops!StopsFollowPath
  <2>15. Stops!EndsInv
    BY <2>2, <2>4, <2>5, <2>7 DEF Stops!EndsInv, Stops!Lowest, Stops!Highest
  <2>16. Stops!FreshInv
    BY <1>2, <1>4 DEF Stops!FreshInv
  <2> QED
    BY <2>11, <2>12, <2>13, <2>14, <2>15, <2>16 DEF Stops!IInv
<1>7. CASE ~two
  <2>1. db = [stops |-> <<>>, start |-> None, end |-> None, locked |-> locked, hints |-> Hints] /\ ~locked
    BY <1>1, <1>7
  <2>2. Stops!Stops = <<>> /\ Len(Stops!Stops) = 0 /\ DOMAIN Stops!Stops = {} /\ db.start = None /\ db.end = None
            /\ ~db.locked
    BY <2>1 DEF Stops!Stops
  <2>3. Stops!OnRoute = {} /\ Stops!Listing = {}
    BY <2>2 DEF Stops!OnRoute, Stops!Listing
  <2>4. db \in [stops: Seq(StopRow), start: Stops!Ends, end: Stops!Ends, locked: BOOLEAN, hints: SUBSET Hints]
    BY <2>1 DEF Stops!Ends
  <2>5. Stops!TypeOK
    BY <1>2, <1>4, <1>5, <2>2, <2>3, <2>4 DEF Stops!TypeOK, StopRow, Stops!StopAssumption
  <2>6. Stops!RouteInv /\ Stops!StopsFollowPath /\ Stops!EndsInv
    BY <2>2, <2>3 DEF Stops!RouteInv, Stops!StopsFollowPath, Stops!EndsInv
  <2>7. Stops!NumbersInv /\ Stops!FreshInv
    BY <1>2, <1>4, <1>5, <2>3 DEF Stops!NumbersInv, Stops!FreshInv
  <2> QED
    BY <2>5, <2>6, <2>7 DEF Stops!IInv
<1> QED
  BY <1>6, <1>7

LEMMA StopStepKeeps == ASSUME Stops!StopAssumption, Stops!IInv, [Stops!Next]_deskVars PROVE Stops!IInv'
<1>1. form.applying \in Hints \cup {None} /\ db.hints \subseteq Hints
  BY DEF Stops!IInv, Stops!TypeOK
<1>2. CASE Stops!LoadRoutes
  BY <1>2, StopLoadRoutesKeeps
<1>3. CASE Stops!Browse
  BY <1>3, StopBrowseKeeps
<1>4. CASE Stops!HandleOpen
  BY <1>4, StopOpenKeeps DEF Stops!HandleOpen, Stops!AddModal
<1>5. CASE Stops!SelectRoute
  BY <1>5, StopForgetKeeps DEF Stops!SelectRoute
<1>6. CASE Stops!CancelPin
  BY <1>6, StopForgetKeeps DEF Stops!CancelPin
<1>7. CASE Stops!HandleCloseModal
  BY <1>7, StopForgetKeeps DEF Stops!HandleCloseModal
<1>8. CASE Stops!SubmitStop
  BY <1>8, StopSubmitStopKeeps
<1>9. CASE Stops!CloseDelete
  BY <1>9, StopCloseDeleteKeeps
<1>10. CASE Stops!SubmitDelete
  BY <1>10, StopSubmitDeleteKeeps
<1>11. CASE Stops!GiveUp
  BY <1>11, StopGiveUpKeeps
<1>12. ASSUME NEW p \in Stops!Points, Stops!HandleMapClick(p) PROVE Stops!IInv'
  BY <1>1, <1>12, StopPutPinKeeps DEF Stops!HandleMapClick
<1>13. ASSUME NEW p \in Stops!Points, Stops!HandlePendingStopDrag(p) PROVE Stops!IInv'
  BY <1>1, <1>13, StopPutPinKeeps DEF Stops!HandlePendingStopDrag
<1>14. ASSUME NEW p \in Stops!Points, Stops!OtherAdds(p) PROVE Stops!IInv'
  BY <1>14, StopOtherAddsKeeps
<1>15. ASSUME NEW h \in db.hints, Stops!HandleApplySuggestion(h) PROVE Stops!IInv'
  <2>1. h \in Hints /\ h \in Stops!Points
    BY <1>1 DEF Stops!StopAssumption
  <2> QED
    BY <1>15, <2>1, StopPutPinKeeps DEF Stops!HandleApplySuggestion
<1>16. ASSUME NEW h \in db.hints, Stops!HandleRejectSuggestion(h) PROVE Stops!IInv'
  BY <1>1, <1>16, StopRejectKeeps
<1>17. ASSUME NEW i \in Stops!Listed \cup Stops!InSession, Stops!RemoveFromRoute(i) PROVE Stops!IInv'
  BY <1>17, StopRemoveKeeps
<1>18. ASSUME NEW i \in Stops!Listed, Stops!OpenDelete(i) PROVE Stops!IInv'
  <2>1. i \in Stops!Ids
    BY DEF Stops!IInv, Stops!TypeOK, Stops!Listed, Stops!Entry
  <2>2. PICK d \in [kind: {"delete"}, id: Stops!Ids] : d = [kind |-> "delete", id |-> i]
    BY <2>1
  <2> QED
    BY <1>18, <2>2, StopOpenKeeps DEF Stops!OpenDelete
<1>19. ASSUME NEW r \in wire, Stops!ServeAdd(r) PROVE Stops!IInv'
  BY <1>19, StopServeAddKeeps
<1>20. ASSUME NEW r \in wire, Stops!SaveAdd(r) PROVE Stops!IInv'
  BY <1>20, StopSaveAddKeeps
<1>21. ASSUME NEW r \in wire, Stops!ServeRemove(r) PROVE Stops!IInv'
  BY <1>21, StopServeRemoveKeeps
<1>22. ASSUME NEW r \in wire, Stops!ServeDelete(r) PROVE Stops!IInv'
  BY <1>22, StopServeDeleteKeeps
<1>23. ASSUME NEW r \in wire, Stops!ServeDismiss(r) PROVE Stops!IInv'
  BY <1>23, StopServeDismissKeeps
<1>24. ASSUME NEW r \in wire, Stops!SucceedAdd(r) PROVE Stops!IInv'
  BY <1>24, StopSucceedAddKeeps
<1>25. ASSUME NEW r \in wire, Stops!SucceedRemove(r) PROVE Stops!IInv'
  BY <1>25, StopSucceedRemoveKeeps
<1>26. ASSUME NEW r \in wire, Stops!SucceedOther(r) PROVE Stops!IInv'
  BY <1>26, StopSucceedOtherKeeps
<1>27. ASSUME NEW r \in wire, Stops!Fail(r) PROVE Stops!IInv'
  BY <1>27, StopFailKeeps
<1>28. CASE UNCHANGED deskVars
  <2>1. UNCHANGED <<db, shown, due, dialog, form, wire, hist>>
    BY <1>28 DEF deskVars
  <2>2. Stops!TypeOK'
    BY <2>1 DEF Stops!IInv, Stops!TypeOK, Stops!Stops
  <2> QED
    BY <2>1, <2>2, StopInvNow, StopPageKeeps
<1> QED
  BY <1>2, <1>3, <1>4, <1>5, <1>6, <1>7, <1>8, <1>9, <1>10, <1>11, <1>12, <1>13, <1>14, <1>15, <1>16,
     <1>17, <1>18, <1>19, <1>20, <1>21, <1>22, <1>23, <1>24, <1>25, <1>26, <1>27, <1>28 DEF Stops!Next

LEMMA StopInvariance == ASSUME Stops!StopAssumption PROVE Stops!Spec => []Stops!IInv
<1>1. Stops!Init => Stops!IInv
  BY StopInitHolds
<1>2. Stops!IInv /\ [Stops!Next]_deskVars => Stops!IInv'
  BY StopStepKeeps
<1> QED
  BY <1>1, <1>2, PTL DEF Stops!Spec, Stops!deskVars, deskVars

\* The page's type is right in every state.
THEOREM StopTypeCorrect == ASSUME Stops!StopAssumption PROVE Stops!Spec => []Stops!TypeOK
<1>1. Stops!IInv => Stops!TypeOK
  BY DEF Stops!IInv
<1> QED
  BY <1>1, StopInvariance, PTL

\* Stops follow the path unless a place was computed from what was out of date.
THEOREM StopsInOrder == ASSUME Stops!StopAssumption PROVE Stops!Spec => []Stops!InOrderUnlessStale
<1>1. Stops!IInv => Stops!InOrderUnlessStale
  BY DEF Stops!IInv, Stops!InOrderUnlessStale
<1> QED
  BY <1>1, StopInvariance, PTL

\* So long as that is so, a route drawn without ends has its first and last
\* stop for ends.
THEOREM StopEnds == ASSUME Stops!StopAssumption PROVE Stops!Spec => []Stops!EndsAreFirstAndLast
<1>1. ASSUME Stops!IInv, ~db.locked, ~hist.stale PROVE db.start = Stops!FirstStop /\ db.end = Stops!LastStop
  <2>1. Stops!TypeOK /\ Stops!RouteInv /\ Stops!EndsInv
    BY <1>1 DEF Stops!IInv
  <2>2. CASE Stops!OnRoute = {}
    <3>1. Stops!Lowest(Stops!OnRoute) = {} /\ Stops!Highest(Stops!OnRoute) = {}
      BY <2>2 DEF Stops!Lowest, Stops!Highest
    <3> QED
      BY <1>1, <2>1, <2>2, <3>1, StopOneOf DEF Stops!EndsInv, Stops!FirstStop, Stops!LastStop
  <2>3. CASE Stops!OnRoute # {}
    BY <1>1, <2>1, <2>3, StopOneEnd DEF Stops!EndsInv, Stops!FirstStop, Stops!LastStop
  <2> QED
    BY <2>2, <2>3
<1>2. Stops!IInv => Stops!EndsAreFirstAndLast
  BY <1>1 DEF Stops!EndsAreFirstAndLast
<1> QED
  BY <1>2, StopInvariance, PTL
=============================================================================

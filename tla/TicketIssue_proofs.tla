------------------------- MODULE TicketIssue_proofs -------------------------
(***************************************************************************)
(* What holds of TicketIssue for any number of keys, retries and sales.    *)
(* The inductive invariant ties the three places an attempt leaves a trace *)
(* in: the request that owns the reservation, the reservation itself and   *)
(* the POSTs made under the key.                                           *)
(***************************************************************************)
EXTENDS TicketIssue, TLAPS

\* A request owns a reservation only from SET NX to its answer, and awaits a POST
\* sent for its own key.
CallInv ==
    \A k \in Keys, a \in Attempts :
        /\ call[k][a].step \in {"idle", "wait"} => ~call[k][a].owns
        /\ call[k][a].step = "await" =>
               /\ call[k][a].post \in Posts
               /\ post[call[k][a].post].key = k
               /\ post[call[k][a].post].status # "unsent"

\* A POST is sent under a key, one that is refused made no ticket, and one that is
\* posted has its ticket and its entry in the journal.
PostInv ==
    \A p \in Posts :
        /\ post[p].status = "unsent" <=> post[p].key = None
        /\ post[p].status \in {"unsent", "sent", "refused"} => ~post[p].ticket
        /\ post[p].status = "posted" =>
               /\ post[p].ticket
               /\ post[p].number \in 1..Len(journal)
               /\ journal[post[p].number] = p

\* Results are those of posted POSTs, under the key they were sent with.
ResultInv ==
    \A k \in Keys, p \in Posts :
        cell[k] = p \/ p \in answered[k] => post[p].key = k /\ post[p].status = "posted"

\* As long as k has not lapsed: only the owner of its reservation proxies, there is
\* one owner, and at most one POST under k was not refused, the owner's own.
KeyInv ==
    \A k \in Keys \ lapsed :
        /\ \A a \in Attempts : call[k][a].step \in {"proxy", "await"} => call[k][a].owns
        /\ \A a, b \in Attempts : call[k][a].owns /\ call[k][b].owns => a = b
        /\ \A a \in Attempts : call[k][a].owns => cell[k] = "IN_PROGRESS"
        /\ \A a \in Attempts, p \in Posts :
               call[k][a].owns /\ post[p].key = k /\ post[p].status # "refused" =>
                   call[k][a].step = "await" /\ call[k][a].post = p
        /\ \A p, q \in Posts :
               /\ post[p].key = k /\ post[p].status # "refused"
               /\ post[q].key = k /\ post[q].status # "refused"
               => p = q
        /\ \A p \in Posts :
               cell[k] = "absent" /\ post[p].key = k => post[p].status = "refused"

IInv == TypeOK /\ CallInv /\ PostInv /\ ResultInv /\ KeyInv
-----------------------------------------------------------------------------
\* Nothing is reserved, sent or answered at the start.
LEMMA InitIInv == Init => IInv
  BY IssueAssumption
  DEF Init, IInv, TypeOK, CallInv, PostInv, ResultInv, KeyInv, Call, NoCall, Post, NoPost, Status

\* Every step of a request, of Django or of Redis keeps the inductive invariant.
LEMMA NextIInv == IInv /\ [Next]_vars => IInv'
<1> SUFFICES ASSUME IInv, [Next]_vars PROVE IInv'
  OBVIOUS
<1> USE IssueAssumption DEF IInv
<1>1. ASSUME NEW k \in Keys, NEW a \in Attempts, Reserve(k, a)
      PROVE  IInv'
  <2>1. TypeOK'
    BY <1>1 DEF Reserve, Move, TypeOK, CallInv, Call, Post, Status
  <2>2. CallInv'
    BY <1>1 DEF Reserve, Move, TypeOK, CallInv, PostInv
  <2>3. PostInv'
    BY <1>1 DEF Reserve, Move, TypeOK, CallInv, PostInv, Post
  <2>4. ResultInv'
    BY <1>1 DEF Reserve, Move, TypeOK, CallInv, PostInv, ResultInv
  <2>5. KeyInv'
    BY <1>1 DEF Reserve, Move, TypeOK, CallInv, PostInv, ResultInv, KeyInv
  <2> QED
    BY <2>1, <2>2, <2>3, <2>4, <2>5 DEF IInv
<1>2. ASSUME NEW k \in Keys, NEW a \in Attempts, Lose(k, a)
      PROVE  IInv'
  <2>1. TypeOK'
    BY <1>2 DEF Lose, Move, TypeOK, CallInv, Call, Post, Status
  <2>2. CallInv'
    BY <1>2 DEF Lose, Move, TypeOK, CallInv, PostInv
  <2>3. PostInv'
    BY <1>2 DEF Lose, Move, TypeOK, CallInv, PostInv, Post
  <2>4. ResultInv'
    BY <1>2 DEF Lose, Move, TypeOK, CallInv, PostInv, ResultInv
  <2>5. KeyInv'
    BY <1>2 DEF Lose, Move, TypeOK, CallInv, PostInv, ResultInv, KeyInv
  <2> QED
    BY <2>1, <2>2, <2>3, <2>4, <2>5 DEF IInv
<1>3. ASSUME NEW k \in Keys, NEW a \in Attempts, Wait(k, a)
      PROVE  IInv'
  <2>1. TypeOK'
    <3>1. answered' \in [Keys -> SUBSET Posts]
      BY <1>3 DEF Wait, Give, TypeOK
    <3>2. call' \in [Keys -> [Attempts -> Call]]
      BY <1>3 DEF Wait, End, Move, TypeOK, Call
    <3> QED
      BY <1>3, <3>1, <3>2 DEF Wait, TypeOK
  <2>2. CallInv'
    BY <1>3 DEF Wait, Give, End, Move, TypeOK, CallInv, PostInv
  <2>3. PostInv'
    BY <1>3 DEF Wait, Give, End, Move, TypeOK, CallInv, PostInv, Post
  <2>4. ResultInv'
    <3>1. CASE cell[k] \in Posts
      BY <1>3, <3>1 DEF Wait, Give, TypeOK, ResultInv
    <3>2. CASE cell[k] \notin Posts
      BY <1>3, <3>2 DEF Wait, ResultInv
    <3> QED
      BY <3>1, <3>2
  <2>5. KeyInv'
    BY <1>3 DEF Wait, Give, End, Move, TypeOK, CallInv, PostInv, ResultInv, KeyInv
  <2> QED
    BY <2>1, <2>2, <2>3, <2>4, <2>5 DEF IInv
<1>4. ASSUME NEW k \in Keys, NEW a \in Attempts, Degrade(k, a)
      PROVE  IInv'
  <2>1. TypeOK'
    BY <1>4 DEF Degrade, Move, TypeOK, CallInv, Call, Post, Status
  <2>2. CallInv'
    BY <1>4 DEF Degrade, Move, TypeOK, CallInv, PostInv
  <2>3. PostInv'
    BY <1>4 DEF Degrade, Move, TypeOK, CallInv, PostInv, Post
  <2>4. ResultInv'
    BY <1>4 DEF Degrade, Move, TypeOK, CallInv, PostInv, ResultInv
  <2>5. KeyInv'
    BY <1>4 DEF Degrade, Move, TypeOK, CallInv, PostInv, ResultInv, KeyInv
  <2> QED
    BY <2>1, <2>2, <2>3, <2>4, <2>5 DEF IInv
<1>5. ASSUME NEW k \in Keys, NEW a \in Attempts, NEW p \in Posts, Proxy(k, a, p)
      PROVE  IInv'
  <2>1. TypeOK'
    BY <1>5 DEF Proxy, Move, TypeOK, CallInv, Call, Post, Status
  <2>2. CallInv'
    BY <1>5 DEF Proxy, Move, TypeOK, CallInv, PostInv
  <2>3. PostInv'
    BY <1>5 DEF Proxy, Move, TypeOK, CallInv, PostInv, Post
  <2>4. ResultInv'
    BY <1>5 DEF Proxy, Move, TypeOK, CallInv, PostInv, ResultInv
  <2>5. KeyInv'
    BY <1>5 DEF Proxy, Move, TypeOK, CallInv, PostInv, ResultInv, KeyInv
  <2> QED
    BY <2>1, <2>2, <2>3, <2>4, <2>5 DEF IInv
<1>6. ASSUME NEW k \in Keys, NEW a \in Attempts, Answer(k, a)
      PROVE  IInv'
  <2>1. TypeOK'
    BY <1>6 DEF Answer, Outcome, Give, End, Move, TypeOK, CallInv, Call, Post, Status
  <2>2. CallInv'
    BY <1>6 DEF Answer, Outcome, Give, End, Move, TypeOK, CallInv, PostInv
  <2>3. PostInv'
    BY <1>6 DEF Answer, Outcome, Give, End, Move, TypeOK, CallInv, PostInv, Post
  <2>4. ResultInv'
    BY <1>6 DEF Answer, Outcome, Give, End, Move, TypeOK, CallInv, PostInv, ResultInv
  <2>5. KeyInv'
    BY <1>6 DEF Answer, Outcome, Give, End, Move, TypeOK, CallInv, PostInv, ResultInv, KeyInv
  <2> QED
    BY <2>1, <2>2, <2>3, <2>4, <2>5 DEF IInv
<1>7. ASSUME NEW k \in Keys, NEW a \in Attempts, Release(k, a)
      PROVE  IInv'
  <2>1. TypeOK'
    <3>1. call' \in [Keys -> [Attempts -> Call]]
      BY <1>7 DEF Release, End, Move, TypeOK, Call
    <3>2. cell' \in [Keys -> {"absent", "IN_PROGRESS"} \cup Posts]
      BY <1>7 DEF Release, TypeOK
    <3> QED
      BY <1>7, <3>1, <3>2 DEF Release, TypeOK
  <2>2. CallInv'
    BY <1>7 DEF Release, Outcome, End, Move, TypeOK, CallInv, PostInv
  <2>3. PostInv'
    BY <1>7 DEF Release, Outcome, End, Move, TypeOK, CallInv, PostInv, Post
  <2>4. ResultInv'
    BY <1>7 DEF Release, Outcome, End, Move, TypeOK, CallInv, PostInv, ResultInv
  <2>5. KeyInv'
    BY <1>7 DEF Release, Outcome, End, Move, TypeOK, CallInv, PostInv, ResultInv, KeyInv
  <2> QED
    BY <2>1, <2>2, <2>3, <2>4, <2>5 DEF IInv
<1>8. ASSUME NEW k \in Keys, NEW a \in Attempts, PassThrough(k, a)
      PROVE  IInv'
  <2>1. TypeOK'
    BY <1>8 DEF PassThrough, Outcome, End, Move, TypeOK, CallInv, Call, Post, Status
  <2>2. CallInv'
    BY <1>8 DEF PassThrough, Outcome, End, Move, TypeOK, CallInv, PostInv
  <2>3. PostInv'
    BY <1>8 DEF PassThrough, Outcome, End, Move, TypeOK, CallInv, PostInv, Post
  <2>4. ResultInv'
    BY <1>8 DEF PassThrough, Outcome, End, Move, TypeOK, CallInv, PostInv, ResultInv
  <2>5. KeyInv'
    BY <1>8 DEF PassThrough, Outcome, End, Move, TypeOK, CallInv, PostInv, ResultInv, KeyInv
  <2> QED
    BY <2>1, <2>2, <2>3, <2>4, <2>5 DEF IInv
<1>9. ASSUME NEW k \in Keys, NEW a \in Attempts, Drop(k, a)
      PROVE  IInv'
  <2>1. TypeOK'
    BY <1>9 DEF Drop, End, Move, TypeOK, CallInv, Call, Post, Status
  <2>2. CallInv'
    BY <1>9 DEF Drop, End, Move, TypeOK, CallInv, PostInv
  <2>3. PostInv'
    BY <1>9 DEF Drop, End, Move, TypeOK, CallInv, PostInv, Post
  <2>4. ResultInv'
    BY <1>9 DEF Drop, End, Move, TypeOK, CallInv, PostInv, ResultInv
  <2>5. KeyInv'
    BY <1>9 DEF Drop, End, Move, TypeOK, CallInv, PostInv, ResultInv, KeyInv
  <2> QED
    BY <2>1, <2>2, <2>3, <2>4, <2>5 DEF IInv
<1>10. ASSUME NEW k \in Keys, Expire(k)
      PROVE  IInv'
  <2>1. TypeOK'
    BY <1>10 DEF Expire, Owned, TypeOK, CallInv, Call, Post, Status
  <2>2. CallInv'
    BY <1>10 DEF Expire, Owned, TypeOK, CallInv, PostInv
  <2>3. PostInv'
    BY <1>10 DEF Expire, Owned, TypeOK, CallInv, PostInv, Post
  <2>4. ResultInv'
    BY <1>10 DEF Expire, Owned, TypeOK, CallInv, PostInv, ResultInv
  <2>5. KeyInv'
    BY <1>10 DEF Expire, Owned, TypeOK, CallInv, PostInv, ResultInv, KeyInv
  <2> QED
    BY <2>1, <2>2, <2>3, <2>4, <2>5 DEF IInv
<1>11. ASSUME NEW p \in Posts, Refuse(p)
      PROVE  IInv'
  <2>1. TypeOK'
    BY <1>11 DEF Refuse, Become, TypeOK, CallInv, Call, Post, Status
  <2>2. CallInv'
    BY <1>11 DEF Refuse, Become, TypeOK, CallInv, PostInv
  <2>3. PostInv'
    BY <1>11 DEF Refuse, Become, TypeOK, CallInv, PostInv, Post
  <2>4. ResultInv'
    BY <1>11 DEF Refuse, Become, TypeOK, CallInv, PostInv, ResultInv
  <2>5. KeyInv'
    BY <1>11 DEF Refuse, Become, TypeOK, CallInv, PostInv, ResultInv, KeyInv
  <2> QED
    BY <2>1, <2>2, <2>3, <2>4, <2>5 DEF IInv
<1>12. ASSUME NEW p \in Posts, Insert(p)
      PROVE  IInv'
  <2>1. TypeOK'
    BY <1>12 DEF Insert, Become, TypeOK, CallInv, Call, Post, Status
  <2>2. CallInv'
    BY <1>12 DEF Insert, Become, TypeOK, CallInv, PostInv
  <2>3. PostInv'
    BY <1>12 DEF Insert, Become, TypeOK, CallInv, PostInv, Post
  <2>4. ResultInv'
    BY <1>12 DEF Insert, Become, TypeOK, CallInv, PostInv, ResultInv
  <2>5. KeyInv'
    BY <1>12 DEF Insert, Become, TypeOK, CallInv, PostInv, ResultInv, KeyInv
  <2> QED
    BY <2>1, <2>2, <2>3, <2>4, <2>5 DEF IInv
<1>13. ASSUME NEW p \in Posts, ReadNumber(p)
      PROVE  IInv'
  <2>1. TypeOK'
    BY <1>13 DEF ReadNumber, Become, TypeOK, CallInv, Call, Post, Status
  <2>2. CallInv'
    BY <1>13 DEF ReadNumber, Become, TypeOK, CallInv, PostInv
  <2>3. PostInv'
    BY <1>13 DEF ReadNumber, Become, TypeOK, CallInv, PostInv, Post
  <2>4. ResultInv'
    BY <1>13 DEF ReadNumber, Become, TypeOK, CallInv, PostInv, ResultInv
  <2>5. KeyInv'
    BY <1>13 DEF ReadNumber, Become, TypeOK, CallInv, PostInv, ResultInv, KeyInv
  <2> QED
    BY <2>1, <2>2, <2>3, <2>4, <2>5 DEF IInv
<1>14. ASSUME NEW p \in Posts, PostEntry(p)
      PROVE  IInv'
  <2>1. CASE post[p].number = Len(journal) + 1
    <3>1. /\ post' = [post EXCEPT ![p] = [status |-> "posted", key |-> post[p].key,
                                        ticket |-> TRUE, number |-> post[p].number]]
          /\ journal' = Append(journal, p)
          /\ post[p].status = "numbered"
          /\ UNCHANGED <<cell, call, answered, lapsed>>
      BY <1>14, <2>1 DEF PostEntry, Become
    <3>2. /\ Len(journal') = Len(journal) + 1
          /\ journal'[Len(journal) + 1] = p
          /\ \A n \in 1..Len(journal) : journal'[n] = journal[n]
          /\ journal' \in Seq(Posts)
          /\ Len(journal) \in Nat
      BY <3>1 DEF TypeOK
    <3>3. TypeOK'
      BY <3>1, <3>2 DEF TypeOK, Post, Status
    <3>4. CallInv'
      BY <3>1 DEF TypeOK, CallInv, PostInv
    <3>5. PostInv'
      <4>1. ASSUME NEW q \in Posts, post'[q].status = "posted"
            PROVE  /\ post'[q].ticket
                   /\ post'[q].number \in 1..Len(journal')
                   /\ journal'[post'[q].number] = q
        <5>1. CASE q = p
          BY <2>1, <3>1, <3>2, <5>1 DEF TypeOK
        <5>2. CASE q # p
          BY <3>1, <3>2, <4>1, <5>2 DEF TypeOK, PostInv
        <5> QED
          BY <5>1, <5>2
      <4> QED
        BY <3>1, <4>1 DEF TypeOK, PostInv
    <3>6. ResultInv'
      BY <3>1 DEF TypeOK, ResultInv
    <3>7. KeyInv'
      BY <3>1 DEF TypeOK, KeyInv
    <3> QED
      BY <3>3, <3>4, <3>5, <3>6, <3>7
  <2>2. CASE post[p].number # Len(journal) + 1
    <3>1. /\ post' = [post EXCEPT ![p] = [status |-> "broken", key |-> post[p].key,
                                        ticket |-> post[p].ticket, number |-> 0]]
          /\ post[p].status = "numbered"
          /\ UNCHANGED <<cell, call, journal, answered, lapsed>>
      BY <1>14, <2>2 DEF PostEntry, Become
    <3>2. TypeOK'
      BY <3>1 DEF TypeOK, Post, Status
    <3>3. CallInv'
      BY <3>1 DEF TypeOK, CallInv, PostInv
    <3>4. PostInv'
      BY <3>1 DEF TypeOK, PostInv
    <3>5. ResultInv'
      BY <3>1 DEF TypeOK, ResultInv
    <3>6. KeyInv'
      BY <3>1 DEF TypeOK, KeyInv
    <3> QED
      BY <3>2, <3>3, <3>4, <3>5, <3>6
  <2> QED
    BY <2>1, <2>2
<1>15. ASSUME NEW p \in Posts, Crash(p)
      PROVE  IInv'
  <2>1. /\ post' = [post EXCEPT ![p] = [status |-> "broken", key |-> post[p].key,
                                      ticket |-> post[p].ticket, number |-> 0]]
        /\ post[p].status \in {"sent", "inserted", "numbered"}
        /\ journal' = journal \/ journal' = Append(journal, p)
        /\ UNCHANGED <<cell, call, answered, lapsed>>
    BY <1>15 DEF Crash, Become
  <2>2. /\ journal' \in Seq(Posts)
        /\ Len(journal) \in Nat
        /\ Len(journal') \in Nat
        /\ Len(journal) <= Len(journal')
        /\ \A n \in 1..Len(journal) : journal'[n] = journal[n]
    <3>1. CASE journal' = journal
      BY <3>1 DEF TypeOK
    <3>2. CASE journal' = Append(journal, p)
      BY <3>2 DEF TypeOK
    <3> QED
      BY <2>1, <3>1, <3>2
  <2>3. TypeOK'
    BY <2>1, <2>2 DEF TypeOK, Post, Status
  <2>4. CallInv'
    BY <2>1 DEF TypeOK, CallInv, PostInv
  <2>5. PostInv'
    BY <2>1, <2>2 DEF TypeOK, PostInv, Post
  <2>6. ResultInv'
    BY <2>1 DEF TypeOK, ResultInv
  <2>7. KeyInv'
    BY <2>1 DEF TypeOK, KeyInv
  <2> QED
    BY <2>3, <2>4, <2>5, <2>6, <2>7
<1>16. CASE UNCHANGED vars
  BY <1>16 DEF vars, Call, CallInv, KeyInv, Post, PostInv, ResultInv, Status, TypeOK, IInv, Tickets, Owned
<1> QED
  BY <1>1, <1>2, <1>3, <1>4, <1>5, <1>6, <1>7, <1>8, <1>9, <1>10, <1>11, <1>12, <1>13, <1>14, <1>15, <1>16 DEF Next, Request, Progress, Django
-----------------------------------------------------------------------------
\* The inductive invariant holds of every behaviour.
LEMMA AlwaysIInv == Spec => []IInv
  BY InitIInv, NextIInv, PTL DEF Spec

\* Every component of the state keeps its type, whatever fails.
THEOREM IssueTypeCorrect == Spec => []TypeOK
<1>1. IInv => TypeOK
  BY DEF IInv
<1> QED
  BY AlwaysIInv, <1>1, PTL

\* router.py:477-480: with any number of concurrent retries, lost answers and refused
\* attempts, a key is issued two tickets only if its reservation lapsed.
THEOREM DuplicatesLapsed == Spec => []DuplicateNeedsLapse
<1>1. IInv => DuplicateNeedsLapse
  BY DEF IInv, PostInv, KeyInv, DuplicateNeedsLapse, Tickets
<1> QED
  BY AlwaysIInv, <1>1, PTL

\* A client, or Redis, never holds a 2xx answer for a ticket without its journal entry.
THEOREM AnswersArePosted == Spec => []AnsweredIsPosted
<1>1. IInv => AnsweredIsPosted
  BY DEF IInv, PostInv, ResultInv, AnsweredIsPosted, Tickets
<1> QED
  BY AlwaysIInv, <1>1, PTL

-----------------------------------------------------------------------------
\* When nothing is lost, the reservation of a key has one owner, who alone proxies.
OwnerInv ==
    \A k \in Keys, a \in Attempts :
        /\ call[k][a].step \in {"proxy", "await"} => call[k][a].owns
        /\ call[k][a].owns => cell[k] = "IN_PROGRESS"
        /\ \A b \in Attempts : call[k][a].owns /\ call[k][b].owns => a = b

\* Some request still awaits the answer to POST p.
Awaited(p) ==
    \E k \in Keys, a \in Attempts : call[k][a].step = "await" /\ call[k][a].post = p

\* An unfinished POST is awaited.
AwaitInv ==
    \A p \in Posts : post[p].status \in {"sent", "inserted", "numbered"} => Awaited(p)

\* A group ticket exists once its POST is posted, which is awaited still or stored.
OnceInv ==
    \A p \in Posts : post[p].key \in Groups =>
        /\ post[p].status # "inserted"
        /\ post[p].ticket => post[p].status = "posted"
        /\ post[p].status = "posted" => cell[post[p].key] = p \/ Awaited(p)

GroupInv == OwnerInv /\ AwaitInv /\ OnceInv

\* Nothing is owned or sent at the start.
LEMMA InitGroupInv == Init => GroupInv
  BY IssueAssumption DEF Init, GroupInv, OwnerInv, AwaitInv, OnceInv, NoCall, NoPost

\* A step of one request leaves every POST awaited that it did not await itself.
LEMMA AwaitKept ==
  ASSUME TypeOK, NEW k \in Keys, NEW a \in Attempts, NEW step, NEW owns, NEW p,
         Move(k, a, step, owns, p), NEW q \in Posts, Awaited(q),
         call[k][a].step # "await" \/ call[k][a].post # q
  PROVE  Awaited(q)'
<1>1. PICK l \in Keys, b \in Attempts : call[l][b].step = "await" /\ call[l][b].post = q
  BY DEF Awaited
<1>2. call'[l][b] = call[l][b]
  BY <1>1 DEF Move, TypeOK
<1> QED
  BY <1>1, <1>2 DEF Awaited

\* Without faults every step keeps it.
LEMMA NextGroupInv ==
  ASSUME Faults = {}
  PROVE  IInv /\ GroupInv /\ [Next]_vars => GroupInv'
<1> SUFFICES ASSUME IInv, GroupInv, [Next]_vars PROVE GroupInv'
  OBVIOUS
<1> USE IssueAssumption DEF IInv
<1>1. ASSUME NEW k \in Keys, NEW a \in Attempts, Reserve(k, a)
      PROVE  GroupInv'
  <2>1. OwnerInv'
    BY <1>1 DEF Reserve, Move, TypeOK, GroupInv, OwnerInv
  <2>2. AwaitInv'
    <3>1. \A q \in Posts : Awaited(q) => Awaited(q)'
      BY <1>1, AwaitKept DEF Reserve
    <3> QED
      BY <1>1, <3>1 DEF Reserve, GroupInv, AwaitInv
  <2>3. OnceInv'
    <3>1. \A q \in Posts : Awaited(q) => Awaited(q)'
      BY <1>1, AwaitKept DEF Reserve
    <3> QED
      BY <1>1, <3>1 DEF Reserve, TypeOK, PostInv, GroupInv, OnceInv
  <2> QED
    BY <2>1, <2>2, <2>3 DEF GroupInv
<1>2. ASSUME NEW k \in Keys, NEW a \in Attempts, Lose(k, a)
      PROVE  GroupInv'
  <2>1. OwnerInv'
    BY <1>2 DEF Lose, Move, TypeOK, GroupInv, OwnerInv
  <2>2. AwaitInv'
    <3>1. \A q \in Posts : Awaited(q) => Awaited(q)'
      BY <1>2, AwaitKept DEF Lose
    <3> QED
      BY <1>2, <3>1 DEF Lose, GroupInv, AwaitInv
  <2>3. OnceInv'
    <3>1. \A q \in Posts : Awaited(q) => Awaited(q)'
      BY <1>2, AwaitKept DEF Lose
    <3> QED
      BY <1>2, <3>1 DEF Lose, TypeOK, PostInv, GroupInv, OnceInv
  <2> QED
    BY <2>1, <2>2, <2>3 DEF GroupInv
<1>3. ASSUME NEW k \in Keys, NEW a \in Attempts, Wait(k, a)
      PROVE  GroupInv'
  <2>1. OwnerInv'
    BY <1>3 DEF Wait, Give, End, Move, TypeOK, GroupInv, OwnerInv
  <2>2. AwaitInv'
    <3>1. \A q \in Posts : Awaited(q) => Awaited(q)'
      BY <1>3, AwaitKept DEF Wait, End
    <3> QED
      BY <1>3, <3>1 DEF Wait, GroupInv, AwaitInv
  <2>3. OnceInv'
    <3>1. \A q \in Posts : Awaited(q) => Awaited(q)'
      BY <1>3, AwaitKept DEF Wait, End
    <3> QED
      BY <1>3, <3>1 DEF Wait, TypeOK, PostInv, GroupInv, OnceInv
  <2> QED
    BY <2>1, <2>2, <2>3 DEF GroupInv
<1>4. ASSUME NEW k \in Keys, NEW a \in Attempts, Degrade(k, a)
      PROVE  GroupInv'
  BY <1>4 DEF Degrade
<1>5. ASSUME NEW k \in Keys, NEW a \in Attempts, NEW p \in Posts, Proxy(k, a, p)
      PROVE  GroupInv'
  <2>1. OwnerInv'
    BY <1>5 DEF Proxy, Move, TypeOK, GroupInv, OwnerInv
  <2>2. AwaitInv'
    <3>1. \A q \in Posts : Awaited(q) => Awaited(q)'
      BY <1>5, AwaitKept DEF Proxy
    <3>2. Awaited(p)'
      BY <1>5 DEF Proxy, Move, TypeOK, Awaited
    <3> QED
      BY <1>5, <3>1, <3>2 DEF Proxy, TypeOK, GroupInv, AwaitInv
  <2>3. OnceInv'
    <3>1. \A q \in Posts : Awaited(q) => Awaited(q)'
      BY <1>5, AwaitKept DEF Proxy
    <3> QED
      BY <1>5, <3>1 DEF Proxy, TypeOK, GroupInv, OnceInv
  <2> QED
    BY <2>1, <2>2, <2>3 DEF GroupInv
<1>6. ASSUME NEW k \in Keys, NEW a \in Attempts, Answer(k, a)
      PROVE  GroupInv'
  <2>1. OwnerInv'
    BY <1>6 DEF Answer, Outcome, Give, End, Move, TypeOK, GroupInv, OwnerInv
  <2>2. AwaitInv'
    <3>1. \A q \in Posts : Awaited(q) /\ q # call[k][a].post => Awaited(q)'
      BY <1>6, AwaitKept DEF Answer, End
    <3> QED
      BY <1>6, <3>1 DEF Answer, Outcome, GroupInv, AwaitInv
  <2>3. OnceInv'
    <3>1. /\ call[k][a].post \in Posts
          /\ post[call[k][a].post].key = k
          /\ call[k][a].owns
          /\ cell[k] = "IN_PROGRESS"
          /\ cell' = [cell EXCEPT ![k] = call[k][a].post]
          /\ UNCHANGED post
      BY <1>6 DEF Answer, Outcome, CallInv, GroupInv, OwnerInv
    <3>2. \A q \in Posts : Awaited(q) /\ q # call[k][a].post => Awaited(q)'
      BY <1>6, AwaitKept DEF Answer, End
    <3>3. ASSUME NEW q \in Posts, post[q].key \in Groups, post[q].status = "posted",
                 q # call[k][a].post
          PROVE  cell'[post[q].key] = q \/ Awaited(q)'
      BY <3>1, <3>2, <3>3 DEF TypeOK, GroupInv, OnceInv
    <3> QED
      BY <3>1, <3>3 DEF TypeOK, GroupInv, OnceInv
  <2> QED
    BY <2>1, <2>2, <2>3 DEF GroupInv
<1>7. ASSUME NEW k \in Keys, NEW a \in Attempts, Release(k, a)
      PROVE  GroupInv'
  <2>1. OwnerInv'
    BY <1>7 DEF Release, Outcome, End, Move, TypeOK, GroupInv, OwnerInv
  <2>2. AwaitInv'
    <3>1. \A q \in Posts : Awaited(q) /\ q # call[k][a].post => Awaited(q)'
      BY <1>7, AwaitKept DEF Release, End
    <3> QED
      BY <1>7, <3>1 DEF Release, Outcome, GroupInv, AwaitInv
  <2>3. OnceInv'
    <3>1. /\ call[k][a].owns
          /\ cell[k] = "IN_PROGRESS"
          /\ cell' = [cell EXCEPT ![k] = "absent"]
          /\ post[call[k][a].post].status = "refused"
          /\ UNCHANGED post
      BY <1>7 DEF Release, Outcome, GroupInv, OwnerInv
    <3>2. \A q \in Posts : Awaited(q) /\ q # call[k][a].post => Awaited(q)'
      BY <1>7, AwaitKept DEF Release, End
    <3>3. ASSUME NEW q \in Posts, post[q].key \in Groups, post[q].status = "posted"
          PROVE  cell'[post[q].key] = q \/ Awaited(q)'
      BY <3>1, <3>2, <3>3 DEF TypeOK, GroupInv, OnceInv
    <3> QED
      BY <3>1, <3>3 DEF GroupInv, OnceInv
  <2> QED
    BY <2>1, <2>2, <2>3 DEF GroupInv
<1>8. ASSUME NEW k \in Keys, NEW a \in Attempts, PassThrough(k, a)
      PROVE  GroupInv'
  <2>1. OwnerInv'
    BY <1>8 DEF PassThrough, Outcome, End, Move, TypeOK, GroupInv, OwnerInv
  <2>2. \A q \in Posts : Awaited(q) /\ q # call[k][a].post => Awaited(q)'
    BY <1>8, AwaitKept DEF PassThrough, End
  <2>3. /\ post[call[k][a].post].status = "broken"
        /\ UNCHANGED <<post, cell>>
    BY <1>8 DEF PassThrough, Outcome
  <2>4. AwaitInv'
    BY <2>2, <2>3 DEF GroupInv, AwaitInv
  <2>5. OnceInv'
    BY <2>2, <2>3 DEF GroupInv, OnceInv
  <2> QED
    BY <2>1, <2>4, <2>5 DEF GroupInv
<1>9. ASSUME NEW k \in Keys, NEW a \in Attempts, Drop(k, a)
      PROVE  GroupInv'
  BY <1>9 DEF Drop
<1>10. ASSUME NEW k \in Keys, Expire(k)
      PROVE  GroupInv'
  <2>1. OwnerInv'
    BY <1>10 DEF Expire, Owned, TypeOK, GroupInv, OwnerInv
  <2>2. AwaitInv'
    BY <1>10 DEF Expire, Owned, TypeOK, CallInv, GroupInv, OwnerInv, AwaitInv, Awaited
  <2>3. OnceInv'
    BY <1>10 DEF Expire, Owned, TypeOK, CallInv, PostInv, GroupInv, OwnerInv, AwaitInv, OnceInv, Awaited
  <2> QED
    BY <2>1, <2>2, <2>3 DEF GroupInv
<1>11. ASSUME NEW p \in Posts, Refuse(p)
      PROVE  GroupInv'
  BY <1>11 DEF Refuse
<1>12. ASSUME NEW p \in Posts, Insert(p)
      PROVE  GroupInv'
  <2>1. OwnerInv'
    BY <1>12 DEF Insert, Become, TypeOK, GroupInv, OwnerInv
  <2>2. \A q \in Posts : Awaited(q)' <=> Awaited(q)
    BY <1>12 DEF Insert, Awaited
  <2>3. /\ \A q \in Posts \ {p} : post'[q] = post[q]
        /\ post'[p].key = post[p].key
        /\ post'[p].status = "inserted"
        /\ post[p].status \in {"sent", "inserted"}
        /\ post[p].key \notin Groups
        /\ UNCHANGED cell
    BY <1>12 DEF Insert, Become, TypeOK
  <2>4. AwaitInv'
    BY <2>2, <2>3 DEF GroupInv, AwaitInv
  <2>5. OnceInv'
    BY <2>2, <2>3 DEF GroupInv, OnceInv
  <2> QED
    BY <2>1, <2>4, <2>5 DEF GroupInv
<1>13. ASSUME NEW p \in Posts, ReadNumber(p)
      PROVE  GroupInv'
  <2>1. OwnerInv'
    BY <1>13 DEF ReadNumber, Become, TypeOK, GroupInv, OwnerInv
  <2>2. \A q \in Posts : Awaited(q)' <=> Awaited(q)
    BY <1>13 DEF ReadNumber, Awaited
  <2>3. /\ \A q \in Posts \ {p} : post'[q] = post[q]
        /\ post'[p].key = post[p].key
        /\ post'[p].status = "numbered"
        /\ post[p].status \in {"sent", "inserted"}
        /\ post'[p].ticket = post[p].ticket
        /\ UNCHANGED cell
    BY <1>13 DEF ReadNumber, Become, TypeOK
  <2>4. AwaitInv'
    BY <2>2, <2>3 DEF GroupInv, AwaitInv
  <2>5. OnceInv'
    BY <2>2, <2>3 DEF GroupInv, OnceInv
  <2> QED
    BY <2>1, <2>4, <2>5 DEF GroupInv
<1>14. ASSUME NEW p \in Posts, PostEntry(p)
      PROVE  GroupInv'
  <2>1. OwnerInv'
    BY <1>14 DEF PostEntry, Become, TypeOK, GroupInv, OwnerInv
  <2>2. AwaitInv'
    BY <1>14 DEF PostEntry, Become, TypeOK, CallInv, GroupInv, OwnerInv, AwaitInv, Awaited
  <2>3. OnceInv'
    <3>1. \A q \in Posts : Awaited(q)' <=> Awaited(q)
      BY <1>14 DEF PostEntry, Awaited
    <3>2. Awaited(p)
      BY <1>14 DEF PostEntry, GroupInv, AwaitInv
    <3>3. /\ \A q \in Posts \ {p} : post'[q] = post[q]
          /\ post'[p].key = post[p].key
          /\ post'[p].status \in {"posted", "broken"}
          /\ post'[p].ticket => post'[p].status = "posted" \/ post[p].ticket
          /\ post[p].status = "numbered"
          /\ UNCHANGED cell
      BY <1>14 DEF PostEntry, Become, TypeOK
    <3> QED
      BY <3>1, <3>2, <3>3 DEF GroupInv, OnceInv
  <2> QED
    BY <2>1, <2>2, <2>3 DEF GroupInv
<1>15. ASSUME NEW p \in Posts, Crash(p)
      PROVE  GroupInv'
  BY <1>15 DEF Crash
<1>16. CASE UNCHANGED vars
  BY <1>16 DEF vars, GroupInv, OwnerInv, AwaitInv, OnceInv, Awaited
<1> QED
  BY <1>1, <1>2, <1>3, <1>4, <1>5, <1>6, <1>7, <1>8, <1>9, <1>10, <1>11, <1>12, <1>13, <1>14, <1>15, <1>16 DEF Next, Request, Progress, Django

\* A group purchase is issued once per key: its journal entries commit or roll back
\* with its tickets (serializers.py:184), so a 500 that lets the key lapse left none.
THEOREM GroupsOnce == Faults = {} => (Spec => []GroupIssuedOnce)
<1> SUFFICES ASSUME Faults = {} PROVE Spec => []GroupIssuedOnce
  OBVIOUS
<1>1. IInv /\ GroupInv => GroupIssuedOnce
  <2> SUFFICES ASSUME IInv, GroupInv, NEW k \in Groups, NEW p \in Tickets(k), NEW q \in Tickets(k)
               PROVE  p = q
    BY DEF GroupIssuedOnce
  <2>1. /\ k \in Keys
        /\ p \in Posts /\ post[p].key = k /\ (cell[k] = p \/ Awaited(p))
        /\ q \in Posts /\ post[q].key = k /\ (cell[k] = q \/ Awaited(q))
    BY IssueAssumption DEF Tickets, GroupInv, OnceInv
  <2>2. ASSUME NEW x \in Posts, post[x].key = k, Awaited(x)
        PROVE  \E a \in Attempts : call[k][a].owns /\ call[k][a].post = x
    BY <2>2 DEF Awaited, IInv, CallInv, GroupInv, OwnerInv
  <2> QED
    BY IssueAssumption, <2>1, <2>2 DEF GroupInv, OwnerInv
<1>2. IInv /\ GroupInv /\ [Next]_vars => GroupInv'
  BY NextGroupInv
<1> QED
  BY InitGroupInv, AlwaysIInv, <1>1, <1>2, PTL DEF Spec
=============================================================================

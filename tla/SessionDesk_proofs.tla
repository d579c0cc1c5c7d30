------------------------- MODULE SessionDesk_proofs -------------------------
(***************************************************************************)
(* Theorems about SessionDesk, for any users and any number of pairs.      *)
(***************************************************************************)
EXTENDS SessionDesk, TLAPS

SessionAssumption == None \notin Users /\ None \notin Nat /\ MaxTokens \in Nat

\* ---- the inductive invariant -------------------------------------------------

Phases == {"sent", "ok", "denied", "waiting", "error"}

LoginReq == [kind: {"login"}, who: {"desk"}, phase: {"sent", "ok", "denied"}, user: Users, token: Held]
CallReq == [kind: {"call"}, who: {"desk"}, phase: Phases, user: Users, token: Held, no: Nat, retry: BOOLEAN]
LogoutReq == [kind: {"logout"}, who: {"desk"}, phase: Phases, user: Users, token: Held, no: Nat, retry: BOOLEAN,
              refresh: Held]
RefreshReq == [kind: {"refresh"}, who: {"desk"}, phase: {"sent", "ok", "denied", "error"}, token: Pairs, got: Held]

Hist == [opens: Nat, sends: Nat, refreshed: BOOLEAN, thrown: BOOLEAN, left: BOOLEAN]

Requests == LoginReq \cup CallReq \cup LogoutReq \cup RefreshReq

\* Every request is of one of four kinds, with the fields of its kind.
WireInv == wire \subseteq Requests

Used == 1..db.issued \cup {None}

\* Whatever token is anywhere has been issued, to somebody.
UsedInv ==
    /\ \A n \in 1..db.issued : db.owner[n] \in Users
    /\ db.access \subseteq Used /\ db.refresh \subseteq Used
    /\ form.access \in Used /\ form.refresh \in Used
    /\ \A r \in wire : /\ r.token \in Used
                       /\ r.kind = "refresh" => r.got \in Used /\ (r.phase = "ok" => r.got # None)
                       /\ r.kind = "login" /\ r.phase = "ok" => r.token # None /\ db.owner[r.token] = r.user

\* One login at a time, by nobody who is signed in, and one refresh at a time.
OneInv ==
    /\ \A r, q \in wire : r.kind = q.kind /\ r.kind \in {"login", "refresh"} => r = q
    /\ \A r \in wire : r.kind = "login" => form.user = None

\* The store and the requests under way are of one user.
UserInv ==
    ~hist.left =>
        /\ form.user = OwnerOf(form.access) /\ form.user = OwnerOf(form.refresh)
        /\ \A r \in wire :
            /\ r.kind \in {"call", "logout"} => OwnerOf(r.token) = r.user /\ form.user = r.user
            /\ r.kind = "refresh" => /\ OwnerOf(r.token) = form.user
                                     /\ r.phase = "ok" => OwnerOf(r.got) = form.user

\* Before the first refresh, and with no logout under way, the refresh token of
\* the store is good until it is spent, and the refresh that spends it succeeds.
GoodInv ==
    \/ hist.left \/ hist.refreshed
    \/ /\ ~hist.thrown
       /\ \A r \in wire : r.kind = "login" /\ r.phase = "ok" => r.token \in db.refresh
       /\ (\A r \in wire : r.kind # "logout") =>
            /\ \A r \in wire : r.kind = "refresh" => r.phase # "denied" /\ (r.phase = "sent" => r.token \in db.refresh)
            /\ (\A r \in wire : r.kind # "refresh") => form.refresh \in db.refresh \cup {None}

IInv ==
    /\ TypeOK /\ hist \in Hist
    /\ WireInv /\ UsedInv /\ OneInv /\ UserInv /\ GoodInv
-----------------------------------------------------------------------------
\* The server's part of TypeOK.
Issued ==
    db \in [issued: 0..MaxTokens, owner: [Pairs -> Users \cup {None}], access: SUBSET Pairs, refresh: SUBSET Pairs]

\* A request with the fields of its kind is one TypeOK allows.
LEMMA WireShape ==
  ASSUME NEW r \in Requests
  PROVE  /\ r.kind \in {"login", "call", "logout", "refresh"} /\ r.who = "desk"
         /\ r.phase \in {"sent", "ok", "denied", "waiting", "error"}
         /\ r.token \in IF r.kind = "refresh" THEN Pairs ELSE Held
  BY DEF Requests, LoginReq, CallReq, LogoutReq, RefreshReq, Phases, Held

\* A pair is issued to its owner.
LEMMA IssueTyped ==
  ASSUME SessionAssumption, Issued, NEW u \in Users \cup {None}, NEW A \in SUBSET Pairs, NEW F \in SUBSET Pairs,
         Issue(u, A, F)
  PROVE  Issued'
<1> DEFINE n == db.issued + 1
<1> USE DEF SessionAssumption, Issued
<1>1. n \in Pairs /\ n \in 0..MaxTokens
  BY DEF Issue, Pairs
<1>2. [db.owner EXCEPT ![n] = u] \in [Pairs -> Users \cup {None}]
  BY <1>1
<1>3. A \cup {n} \in SUBSET Pairs /\ F \cup {n} \in SUBSET Pairs
  BY <1>1
<1>4. db' = [issued |-> n, owner |-> [db.owner EXCEPT ![n] = u], access |-> A \cup {n}, refresh |-> F \cup {n}]
  BY DEF Issue
<1> QED
  BY <1>1, <1>2, <1>3, <1>4

\* A request that takes the place of another leaves the rest as they are.
LEMMA Replaced ==
  ASSUME WireInv, NEW r, NEW q \in Requests, Replace(r, q)
  PROVE  WireInv'
  BY DEF WireInv, Replace

\* Every step keeps the shape of the store, of the server and of the requests.
LEMMA TypesKept ==
  ASSUME SessionAssumption, TypeOK, hist \in Hist, WireInv, [Next]_deskVars
  PROVE  TypeOK' /\ (hist \in Hist)' /\ WireInv'
<1> USE DEF SessionAssumption, TypeOK, Hist, WireInv, Requests, LoginReq, CallReq, LogoutReq,
            RefreshReq, Phases, Held, Pairs, Issued
<1>1. ASSUME NEW u \in Users, Login(u) PROVE TypeOK' /\ (hist \in Hist)' /\ WireInv'
  <2> DEFINE q == [kind |-> "login", who |-> "desk", phase |-> "sent", user |-> u, token |-> None]
  <2>1. q \in LoginReq
    OBVIOUS
  <2>2. wire' = wire \cup {q} /\ hist' = [hist EXCEPT !.sends = @ + 1] /\ UNCHANGED <<db, form>>
    BY <1>1 DEF Login, Send
  <2>3. WireInv'
    BY <2>1, <2>2
  <2>4. (hist \in Hist)'
    BY <2>2
  <2> QED
    BY <2>2, <2>3, <2>4, WireShape
<1>2. ASSUME Call PROVE TypeOK' /\ (hist \in Hist)' /\ WireInv'
  <2> DEFINE q == [kind |-> "call", who |-> "desk", phase |-> "sent", user |-> form.user, token |-> form.access,
                      no |-> hist.sends, retry |-> FALSE]
  <2>1. form.user \in Users
    BY <1>2 DEF Call
  <2>2. q \in CallReq
    BY <2>1 DEF CallReq, Phases
  <2>3. wire' = wire \cup {q} /\ hist' = [hist EXCEPT !.sends = @ + 1] /\ UNCHANGED <<db, form>>
    BY <1>2 DEF Call, Send
  <2>4. WireInv'
    BY <2>2, <2>3 DEF WireInv
  <2>5. (hist \in Hist)'
    BY <2>3
  <2> QED
    BY <2>3, <2>4, <2>5, WireShape
<1>3. ASSUME Logout PROVE TypeOK' /\ (hist \in Hist)' /\ WireInv'
  <2> DEFINE q == [kind |-> "logout", who |-> "desk", phase |-> "sent", user |-> form.user, token |-> form.access,
                      no |-> hist.sends, retry |-> FALSE, refresh |-> form.refresh]
  <2>1. form.user \in Users
    BY <1>3 DEF Logout
  <2>2. q \in LogoutReq
    BY <2>1 DEF LogoutReq, Phases
  <2>3. wire' = wire \cup {q} /\ hist' = [hist EXCEPT !.sends = @ + 1] /\ UNCHANGED <<db, form>>
    BY <1>3 DEF Logout, Send
  <2>4. WireInv'
    BY <2>2, <2>3 DEF WireInv
  <2>5. (hist \in Hist)'
    BY <2>3
  <2> QED
    BY <2>3, <2>4, <2>5, WireShape
<1>4. ASSUME Expire PROVE TypeOK' /\ (hist \in Hist)' /\ WireInv'
  BY <1>4 DEF Expire, Still
<1>5. ASSUME Reload PROVE TypeOK' /\ (hist \in Hist)' /\ WireInv'
  BY <1>5 DEF Reload, Still
<1>6. ASSUME NEW r \in wire, ServeLogin(r) PROVE TypeOK' /\ (hist \in Hist)' /\ WireInv'
  <2>1. r \in LoginReq
    BY <1>6 DEF ServeLogin
  <2>2. CASE Issue(r.user, db.access, db.refresh) /\ Replace(r, [r EXCEPT !.phase = "ok", !.token = db.issued + 1])
    <3>1. [r EXCEPT !.phase = "ok", !.token = db.issued + 1] \in LoginReq
      BY <2>1, <2>2 DEF Issue
    <3>2. WireInv'
      BY <2>2, <3>1, Replaced
    <3>3. Issued'
      BY <2>1, <2>2, IssueTyped
    <3> QED
      BY <1>6, <3>2, <3>3, WireShape DEF ServeLogin
  <2>3. CASE Replace(r, [r EXCEPT !.phase = "denied"]) /\ UNCHANGED db
    <3>1. [r EXCEPT !.phase = "denied"] \in LoginReq
      BY <2>1
    <3>2. WireInv'
      BY <2>3, <3>1, Replaced
    <3> QED
      BY <1>6, <2>3, <3>2, WireShape DEF ServeLogin
  <2> QED
    BY <1>6, <2>2, <2>3 DEF ServeLogin
<1>7. ASSUME NEW r \in wire, ServeCall(r) PROVE TypeOK' /\ (hist \in Hist)' /\ WireInv'
  BY <1>7 DEF ServeCall, Replace, Still
<1>8. ASSUME NEW r \in wire, ServeLogout(r) PROVE TypeOK' /\ (hist \in Hist)' /\ WireInv'
  <2>1. r \in LogoutReq
    BY <1>8 DEF ServeLogout
  <2>2. \E phase \in {"ok", "denied", "error"} : Replace(r, [r EXCEPT !.phase = phase])
    BY <1>8 DEF ServeLogout
  <2>3. \A phase \in {"ok", "denied", "error"} : [r EXCEPT !.phase = phase] \in LogoutReq
    BY <2>1
  <2>4. WireInv'
    BY <2>2, <2>3 DEF Replace
  <2>5. Issued'
    <3>1. db' = db \/ db' = [db EXCEPT !.refresh = @ \ {r.refresh}]
      BY <1>8 DEF ServeLogout
    <3>2. Issued
      BY DEF TypeOK
    <3> HIDE DEF TypeOK, WireInv, Requests, LogoutReq
    <3> QED
      BY <3>1, <3>2
  <2> HIDE DEF Requests, LogoutReq
  <2> QED
    BY <1>8, <2>4, <2>5, WireShape DEF ServeLogout, Still
<1>9. ASSUME NEW r \in wire, ServeRefresh(r) PROVE TypeOK' /\ (hist \in Hist)' /\ WireInv'
  <2>1. r \in RefreshReq
    BY <1>9 DEF ServeRefresh
  <2>2. CASE r.token \in db.refresh
    <3>1. Issue(db.owner[r.token], db.access, db.refresh \ {r.token})
      BY <1>9, <2>2 DEF ServeRefresh
    <3>2. [r EXCEPT !.phase = "ok", !.got = db.issued + 1] \in RefreshReq
      BY <2>1, <3>1 DEF Issue
    <3>3. WireInv'
      BY <1>9, <2>2, <3>2, Replaced DEF ServeRefresh
    <3>4. Issued'
      BY <2>1, <3>1, IssueTyped
    <3> QED
      BY <1>9, <3>3, <3>4, WireShape DEF ServeRefresh
  <2>3. CASE r.token \notin db.refresh
    <3>1. [r EXCEPT !.phase = "denied"] \in RefreshReq
      BY <2>1
    <3>2. WireInv'
      BY <1>9, <2>3, <3>1, Replaced DEF ServeRefresh
    <3> QED
      BY <1>9, <2>3, <3>2, WireShape DEF ServeRefresh
  <2> QED
    BY <2>2, <2>3
<1>10. ASSUME NEW r \in wire, SucceedLogin(r) PROVE TypeOK' /\ (hist \in Hist)' /\ WireInv'
  BY <1>10 DEF SucceedLogin, Settle, Still
<1>11. ASSUME NEW r \in wire, FailLogin(r) PROVE TypeOK' /\ (hist \in Hist)' /\ WireInv'
  BY <1>11 DEF FailLogin, ThrowOut, SignedOut, Still
<1>12. ASSUME NEW r \in wire, Heard(r) PROVE TypeOK' /\ (hist \in Hist)' /\ WireInv'
  BY <1>12 DEF Heard, Settle, Still
<1>13. ASSUME NEW r \in wire, Denied(r) PROVE TypeOK' /\ (hist \in Hist)' /\ WireInv'
  BY <1>13 DEF Denied, Refreshing, Still
<1>14. ASSUME NEW r \in wire, DeniedForGood(r) PROVE TypeOK' /\ (hist \in Hist)' /\ WireInv'
  BY <1>14 DEF DeniedForGood, ThrowOut, SignedOut, Still
<1>15. ASSUME NEW r \in wire, SucceedRefresh(r) PROVE TypeOK' /\ (hist \in Hist)' /\ WireInv'
  <2> DEFINE again(q) == [q EXCEPT !.phase = "sent", !.retry = TRUE, !.token = r.got]
  <2>1. r \in RefreshReq
    BY <1>15 DEF SucceedRefresh
  <2>2. \A q \in wire : q.phase = "waiting" => again(q) \in CallReq \cup LogoutReq
    <3> TAKE q \in wire
    <3>1. q.phase = "waiting" => q \in CallReq \/ q \in LogoutReq
      OBVIOUS
    <3>2. q \in CallReq => again(q) \in CallReq
      BY <2>1
    <3>3. q \in LogoutReq => again(q) \in LogoutReq
      BY <2>1
    <3> QED
      BY <3>1, <3>2, <3>3
  <2>3. wire' = {IF q.phase = "waiting" THEN again(q) ELSE q : q \in wire \ {r}}
    BY <1>15 DEF SucceedRefresh
  <2>4. WireInv'
    <3> HIDE DEF LoginReq, CallReq, LogoutReq, RefreshReq, again
    <3> QED
      BY <2>2, <2>3
  <2> QED
    BY <1>15, <2>1, <2>4, WireShape DEF SucceedRefresh
<1>16. ASSUME NEW r \in wire, FailRefresh(r) PROVE TypeOK' /\ (hist \in Hist)' /\ WireInv'
  BY <1>16 DEF FailRefresh, ThrowOut, SignedOut, Still
<1>17. ASSUME NEW r \in wire, Left(r) PROVE TypeOK' /\ (hist \in Hist)' /\ WireInv'
  BY <1>17 DEF Left, SignedOut, Settle, Still
<1>18. ASSUME NEW r \in wire, Lose(r) PROVE TypeOK' /\ (hist \in Hist)' /\ WireInv'
  BY <1>18 DEF Lose, Replace, Still
<1>19. CASE UNCHANGED deskVars
  BY <1>19 DEF deskVars
<1> QED
  BY <1>1, <1>2, <1>3, <1>4, <1>5, <1>6, <1>7, <1>8, <1>9, <1>10, <1>11, <1>12, <1>13, <1>14, <1>15,
     <1>16, <1>17, <1>18, <1>19 DEF Next

\* What issuing a pair does to the server: the pair is a new one.
Added(u, A, F) ==
    LET n == db.issued + 1 IN
    /\ n \in Pairs /\ n # None /\ n \notin 1..db.issued /\ db'.issued = n /\ 1..n = 1..db.issued \cup {n}
    /\ db'.owner[n] = u /\ \A k \in 1..db.issued : db'.owner[k] = db.owner[k]
    /\ db'.access = A \cup {n} /\ db'.refresh = F \cup {n}

\* A pair is added wherever one is issued.
LEMMA IssueAdds ==
  ASSUME SessionAssumption, TypeOK, NEW u, NEW A, NEW F, Issue(u, A, F)
  PROVE  Added(u, A, F)
<1> DEFINE n == db.issued + 1
<1>1. db.issued \in Nat /\ db.owner \in [Pairs -> Users \cup {None}]
  BY DEF TypeOK, SessionAssumption
<1>2. db' = [issued |-> n, owner |-> [db.owner EXCEPT ![n] = u], access |-> A \cup {n}, refresh |-> F \cup {n}]
  BY DEF Issue
<1>3. n \in Pairs
  BY DEF Issue
<1> QED
  BY <1>1, <1>2, <1>3 DEF SessionAssumption, Pairs, Added

\* What a login answered leaves in the wire and on the server.
LEMMA ServedLogin ==
  ASSUME SessionAssumption, TypeOK, WireInv, NEW r \in wire, ServeLogin(r)
  PROVE  /\ r.kind = "login" /\ r.user \in Users /\ UNCHANGED <<form, hist>>
         /\ \E q : /\ q.kind = "login" /\ q.user = r.user /\ wire' = (wire \ {r}) \cup {q}
                  /\ \/ q.phase = "ok" /\ q.token = db.issued + 1 /\ Added(r.user, db.access, db.refresh)
                     \/ q.phase = "denied" /\ q.token = r.token /\ UNCHANGED db
<1>1. r \in LoginReq
  BY DEF ServeLogin, WireInv, Requests, LoginReq, CallReq, LogoutReq, RefreshReq
<1>2. CASE Issue(r.user, db.access, db.refresh) /\ Replace(r, [r EXCEPT !.phase = "ok", !.token = db.issued + 1])
  <2> DEFINE q == [r EXCEPT !.phase = "ok", !.token = db.issued + 1]
  <2>1. q.kind = "login" /\ q.user = r.user /\ q.phase = "ok" /\ q.token = db.issued + 1
    BY <1>1 DEF LoginReq
  <2> QED
    BY <1>1, <1>2, <2>1, IssueAdds DEF ServeLogin, Replace, LoginReq
<1>3. CASE Replace(r, [r EXCEPT !.phase = "denied"]) /\ UNCHANGED db
  <2> DEFINE q == [r EXCEPT !.phase = "denied"]
  <2>1. q.kind = "login" /\ q.user = r.user /\ q.phase = "denied" /\ q.token = r.token
    BY <1>1 DEF LoginReq
  <2> QED
    BY <1>1, <1>3, <2>1 DEF ServeLogin, Replace, LoginReq
<1> QED
  BY <1>2, <1>3 DEF ServeLogin

\* A refresh answered, likewise.
LEMMA ServedRefresh ==
  ASSUME SessionAssumption, TypeOK, WireInv, NEW r \in wire, ServeRefresh(r)
  PROVE  /\ r.kind = "refresh" /\ r.phase = "sent" /\ r.token \in Pairs /\ UNCHANGED <<form, hist>>
         /\ \E q : /\ q.kind = "refresh" /\ q.token = r.token /\ wire' = (wire \ {r}) \cup {q}
                  /\ \/ /\ r.token \in db.refresh /\ q.phase = "ok" /\ q.got = db.issued + 1
                        /\ Added(db.owner[r.token], db.access, db.refresh \ {r.token})
                     \/ r.token \notin db.refresh /\ q.phase = "denied" /\ q.got = r.got /\ UNCHANGED db
<1>1. r \in RefreshReq
  BY DEF ServeRefresh, WireInv, Requests, LoginReq, CallReq, LogoutReq, RefreshReq
<1>2. CASE r.token \in db.refresh
  <2> DEFINE q == [r EXCEPT !.phase = "ok", !.got = db.issued + 1]
  <2>1. q.kind = "refresh" /\ q.token = r.token /\ q.phase = "ok" /\ q.got = db.issued + 1
    BY <1>1 DEF RefreshReq
  <2> QED
    BY <1>1, <1>2, <2>1, IssueAdds DEF ServeRefresh, Replace, RefreshReq
<1>3. CASE r.token \notin db.refresh
  <2> DEFINE q == [r EXCEPT !.phase = "denied"]
  <2>1. q.kind = "refresh" /\ q.token = r.token /\ q.phase = "denied" /\ q.got = r.got
    BY <1>1 DEF RefreshReq
  <2> QED
    BY <1>1, <1>3, <2>1 DEF ServeRefresh, Replace, RefreshReq
<1> QED
  BY <1>2, <1>3

\* A logout answered, likewise.
LEMMA ServedLogout ==
  ASSUME WireInv, TypeOK, NEW r \in wire, ServeLogout(r)
  PROVE  /\ r.kind = "logout" /\ r.user \in Users /\ UNCHANGED <<form, hist>>
         /\ \E q : q.kind = "logout" /\ q.token = r.token /\ q.user = r.user /\ wire' = (wire \ {r}) \cup {q}
         /\ db'.issued = db.issued /\ db'.owner = db.owner /\ db'.access = db.access
         /\ db'.refresh \subseteq db.refresh
<1>1. r \in LogoutReq
  BY DEF ServeLogout, WireInv, Requests, LoginReq, CallReq, LogoutReq, RefreshReq
<1> QED
  BY <1>1 DEF ServeLogout, Replace, LogoutReq, TypeOK

\* After a refresh a request of the wire is one that was there, or one that
\* waited and is sent again with the new token.
LEMMA RefreshHeard ==
  ASSUME WireInv, TypeOK, hist \in Hist, NEW r \in wire, SucceedRefresh(r)
  PROVE  /\ r.kind = "refresh" /\ r.phase = "ok" /\ r.got \in Held /\ r.token \in Pairs
         /\ form'.user = form.user /\ form'.access = r.got /\ form'.refresh = r.token
         /\ UNCHANGED db /\ hist'.left = hist.left /\ hist'.refreshed
         /\ \A x \in wire' : \/ x \in wire \ {r}
                             \/ \E q \in wire : /\ q.kind \in {"call", "logout"} /\ x.kind = q.kind
                                               /\ x.user = q.user /\ x.token = r.got
<1> DEFINE again(q) == [q EXCEPT !.phase = "sent", !.retry = TRUE, !.token = r.got]
<1>1. r \in RefreshReq
  BY DEF SucceedRefresh, WireInv, Requests, LoginReq, CallReq, LogoutReq, RefreshReq
<1>2. \A q \in wire : q.phase = "waiting" => q \in CallReq \cup LogoutReq
  BY DEF WireInv, Requests, LoginReq, RefreshReq
<1>3. \A q \in CallReq \cup LogoutReq :
        /\ q.kind \in {"call", "logout"} /\ again(q).kind = q.kind
        /\ again(q).user = q.user /\ again(q).token = r.got
  BY DEF CallReq, LogoutReq
<1>4. wire' = {IF q.phase = "waiting" THEN again(q) ELSE q : q \in wire \ {r}}
  BY DEF SucceedRefresh
<1>5. ASSUME NEW x \in wire'
      PROVE  \/ x \in wire \ {r}
             \/ \E q \in wire : /\ q.kind \in {"call", "logout"} /\ x.kind = q.kind
                               /\ x.user = q.user /\ x.token = r.got
  <2> HIDE DEF again
  <2>1. PICK q \in wire \ {r} : x = IF q.phase = "waiting" THEN again(q) ELSE q
    BY <1>4
  <2> QED
    BY <2>1, <1>2, <1>3
<1> QED
  BY <1>1, <1>5 DEF SucceedRefresh, RefreshReq, TypeOK, Hist


\* A request in another phase.
LEMMA Rephased ==
  ASSUME WireInv, NEW r \in wire, NEW p
  PROVE  LET q == [r EXCEPT !.phase = p] IN q.kind = r.kind /\ q.phase = p /\ q.token = r.token
  BY DEF WireInv, Requests, LoginReq, CallReq, LogoutReq, RefreshReq


\* Every step keeps the tokens among those issued.
LEMMA UsedKept ==
  ASSUME SessionAssumption, TypeOK, hist \in Hist, WireInv, UsedInv, [Next]_deskVars
  PROVE  UsedInv'
<1> USE DEF SessionAssumption, TypeOK, Hist, WireInv, Requests, LoginReq, CallReq, LogoutReq,
            RefreshReq, Phases, Held, Pairs, UsedInv, Used
<1>1. ASSUME NEW u \in Users, Login(u) PROVE UsedInv'
  BY <1>1 DEF Login, Send, Pending, Still
<1>2. ASSUME Call PROVE UsedInv'
  BY <1>2 DEF Call, Send, Still
<1>3. ASSUME Logout PROVE UsedInv'
  BY <1>3 DEF Logout, Send, Still
<1>4. ASSUME Expire PROVE UsedInv'
  BY <1>4 DEF Expire, Still
<1>5. ASSUME Reload PROVE UsedInv'
  BY <1>5 DEF Reload, Still
<1>6. ASSUME NEW r \in wire, ServeLogin(r) PROVE UsedInv'
  <2> HIDE DEF WireInv, Requests, LoginReq, CallReq, LogoutReq, RefreshReq, Hist, TypeOK
  <2> QED
    BY <1>6, ServedLogin DEF Added, OwnerOf
<1>7. ASSUME NEW r \in wire, ServeCall(r) PROVE UsedInv'
  BY <1>7 DEF ServeCall, Replace, Still
<1>8. ASSUME NEW r \in wire, ServeLogout(r) PROVE UsedInv'
  <2> HIDE DEF WireInv, Requests, LoginReq, CallReq, LogoutReq, RefreshReq, Hist, TypeOK
  <2> QED
    BY <1>8, ServedLogout DEF OwnerOf
<1>9. ASSUME NEW r \in wire, ServeRefresh(r) PROVE UsedInv'
  <2> HIDE DEF WireInv, Requests, LoginReq, CallReq, LogoutReq, RefreshReq, Hist, TypeOK
  <2> QED
    BY <1>9, ServedRefresh DEF Added, OwnerOf
<1>10. ASSUME NEW r \in wire, SucceedLogin(r) PROVE UsedInv'
  BY <1>10 DEF SucceedLogin, Settle, Still
<1>11. ASSUME NEW r \in wire, FailLogin(r) PROVE UsedInv'
  BY <1>11 DEF FailLogin, ThrowOut, SignedOut, Still
<1>12. ASSUME NEW r \in wire, Heard(r) PROVE UsedInv'
  BY <1>12 DEF Heard, Settle, Still
<1>13. ASSUME NEW r \in wire, Denied(r) PROVE UsedInv'
  BY <1>13 DEF Denied, Refreshing, Still
<1>14. ASSUME NEW r \in wire, DeniedForGood(r) PROVE UsedInv'
  BY <1>14 DEF DeniedForGood, ThrowOut, SignedOut, Still
<1>15. ASSUME NEW r \in wire, SucceedRefresh(r) PROVE UsedInv'
  <2> HIDE DEF WireInv, Requests, LoginReq, CallReq, LogoutReq, RefreshReq, Hist, TypeOK
  <2> QED
    BY <1>15, RefreshHeard DEF OwnerOf
<1>16. ASSUME NEW r \in wire, FailRefresh(r) PROVE UsedInv'
  BY <1>16 DEF FailRefresh, ThrowOut, SignedOut, Still
<1>17. ASSUME NEW r \in wire, Left(r) PROVE UsedInv'
  BY <1>17 DEF Left, SignedOut, Settle, Still
<1>18. ASSUME NEW r \in wire, Lose(r) PROVE UsedInv'
  BY <1>18 DEF Lose, Replace, Still
<1>19. CASE UNCHANGED deskVars
  BY <1>19 DEF deskVars
<1> QED
  BY <1>1, <1>2, <1>3, <1>4, <1>5, <1>6, <1>7, <1>8, <1>9, <1>10, <1>11, <1>12, <1>13, <1>14, <1>15,
     <1>16, <1>17, <1>18, <1>19 DEF Next

\* Every step keeps to one login and one refresh at a time.
LEMMA OneKept ==
  ASSUME SessionAssumption, TypeOK, hist \in Hist, WireInv, OneInv, [Next]_deskVars
  PROVE  OneInv'
<1> USE DEF SessionAssumption, TypeOK, Hist, WireInv, Requests, LoginReq, CallReq, LogoutReq,
            RefreshReq, Phases, Held, Pairs, OneInv
<1>1. ASSUME NEW u \in Users, Login(u) PROVE OneInv'
  BY <1>1 DEF Login, Send, Pending, Still
<1>2. ASSUME Call PROVE OneInv'
  BY <1>2 DEF Call, Send, Still
<1>3. ASSUME Logout PROVE OneInv'
  BY <1>3 DEF Logout, Send, Still
<1>4. ASSUME Expire PROVE OneInv'
  BY <1>4 DEF Expire, Still
<1>5. ASSUME Reload PROVE OneInv'
  BY <1>5 DEF Reload, Still
<1>6. ASSUME NEW r \in wire, ServeLogin(r) PROVE OneInv'
  <2> HIDE DEF WireInv, Requests, LoginReq, CallReq, LogoutReq, RefreshReq, Hist, TypeOK
  <2> QED
    BY <1>6, ServedLogin DEF Added, OwnerOf
<1>7. ASSUME NEW r \in wire, ServeCall(r) PROVE OneInv'
  BY <1>7 DEF ServeCall, Replace, Still
<1>8. ASSUME NEW r \in wire, ServeLogout(r) PROVE OneInv'
  BY <1>8 DEF ServeLogout, Replace, Still
<1>9. ASSUME NEW r \in wire, ServeRefresh(r) PROVE OneInv'
  <2> HIDE DEF WireInv, Requests, LoginReq, CallReq, LogoutReq, RefreshReq, Hist, TypeOK
  <2> QED
    BY <1>9, ServedRefresh DEF Added, OwnerOf
<1>10. ASSUME NEW r \in wire, SucceedLogin(r) PROVE OneInv'
  BY <1>10 DEF SucceedLogin, Settle, Still
<1>11. ASSUME NEW r \in wire, FailLogin(r) PROVE OneInv'
  BY <1>11 DEF FailLogin, ThrowOut, SignedOut, Still
<1>12. ASSUME NEW r \in wire, Heard(r) PROVE OneInv'
  BY <1>12 DEF Heard, Settle, Still
<1>13. ASSUME NEW r \in wire, Denied(r) PROVE OneInv'
  BY <1>13 DEF Denied, Refreshing, Still
<1>14. ASSUME NEW r \in wire, DeniedForGood(r) PROVE OneInv'
  BY <1>14 DEF DeniedForGood, ThrowOut, SignedOut, Still
<1>15. ASSUME NEW r \in wire, SucceedRefresh(r) PROVE OneInv'
  <2> HIDE DEF WireInv, Requests, LoginReq, CallReq, LogoutReq, RefreshReq, Hist, TypeOK
  <2> QED
    BY <1>15, RefreshHeard DEF OwnerOf
<1>16. ASSUME NEW r \in wire, FailRefresh(r) PROVE OneInv'
  BY <1>16 DEF FailRefresh, ThrowOut, SignedOut, Still
<1>17. ASSUME NEW r \in wire, Left(r) PROVE OneInv'
  BY <1>17 DEF Left, SignedOut, Settle, Still
<1>18. ASSUME NEW r \in wire, Lose(r) PROVE OneInv'
  BY <1>18 DEF Lose, Replace, Still
<1>19. CASE UNCHANGED deskVars
  BY <1>19 DEF deskVars
<1> QED
  BY <1>1, <1>2, <1>3, <1>4, <1>5, <1>6, <1>7, <1>8, <1>9, <1>10, <1>11, <1>12, <1>13, <1>14, <1>15,
     <1>16, <1>17, <1>18, <1>19 DEF Next

\* Every step keeps the tokens and the requests of one user, unless it leaves some under way.
LEMMA UserKept ==
  ASSUME SessionAssumption, TypeOK, hist \in Hist, WireInv, UsedInv, OneInv, UserInv, [Next]_deskVars
  PROVE  UserInv'
<1> USE DEF SessionAssumption, TypeOK, Hist, WireInv, Requests, LoginReq, CallReq, LogoutReq,
            RefreshReq, Phases, Held, Pairs, UsedInv, OneInv, UserInv, OwnerOf, Used
<1>1. ASSUME NEW u \in Users, Login(u) PROVE UserInv'
  BY <1>1 DEF Login, Send, Pending, Still
<1>2. ASSUME Call PROVE UserInv'
  BY <1>2 DEF Call, Send, Still
<1>3. ASSUME Logout PROVE UserInv'
  BY <1>3 DEF Logout, Send, Still
<1>4. ASSUME Expire PROVE UserInv'
  BY <1>4 DEF Expire, Still
<1>5. ASSUME Reload PROVE UserInv'
  BY <1>5 DEF Reload, Still
<1>6. ASSUME NEW r \in wire, ServeLogin(r) PROVE UserInv'
  <2> HIDE DEF WireInv, Requests, LoginReq, CallReq, LogoutReq, RefreshReq, Hist, TypeOK
  <2> QED
    BY <1>6, ServedLogin DEF Added, OwnerOf
<1>7. ASSUME NEW r \in wire, ServeCall(r) PROVE UserInv'
  BY <1>7 DEF ServeCall, Replace, Still
<1>8. ASSUME NEW r \in wire, ServeLogout(r) PROVE UserInv'
  <2> HIDE DEF WireInv, Requests, LoginReq, CallReq, LogoutReq, RefreshReq, Hist, TypeOK
  <2> QED
    BY <1>8, ServedLogout DEF OwnerOf
<1>9. ASSUME NEW r \in wire, ServeRefresh(r) PROVE UserInv'
  <2> HIDE DEF WireInv, Requests, LoginReq, CallReq, LogoutReq, RefreshReq, Hist, TypeOK
  <2> QED
    BY <1>9, ServedRefresh DEF Added, OwnerOf
<1>10. ASSUME NEW r \in wire, SucceedLogin(r) PROVE UserInv'
  BY <1>10 DEF SucceedLogin, Settle, Still
<1>11. ASSUME NEW r \in wire, FailLogin(r) PROVE UserInv'
  BY <1>11 DEF FailLogin, ThrowOut, SignedOut, Still
<1>12. ASSUME NEW r \in wire, Heard(r) PROVE UserInv'
  BY <1>12 DEF Heard, Settle, Still
<1>13. ASSUME NEW r \in wire, Denied(r) PROVE UserInv'
  <2> DEFINE waiting == [r EXCEPT !.phase = "waiting"]
             q == [kind |-> "refresh", who |-> "desk", phase |-> "sent", token |-> form.refresh, got |-> None]
  <2>1. waiting.kind = r.kind /\ waiting.token = r.token /\ waiting.user = r.user
    BY <1>13 DEF Denied
  <2>2. UNCHANGED <<db, form, hist>> /\ r.kind \in {"call", "logout"}
    BY <1>13 DEF Denied
  <2>3. wire' \subseteq wire \cup {waiting, q}
    BY <1>13 DEF Denied
  <2> HIDE DEF WireInv, Requests, LoginReq, CallReq, LogoutReq, RefreshReq, Hist, TypeOK, waiting
  <2> QED
    BY <2>1, <2>2, <2>3
<1>14. ASSUME NEW r \in wire, DeniedForGood(r) PROVE UserInv'
  BY <1>14 DEF DeniedForGood, ThrowOut, SignedOut, Still
<1>15. ASSUME NEW r \in wire, SucceedRefresh(r) PROVE UserInv'
  <2> HIDE DEF WireInv, Requests, LoginReq, CallReq, LogoutReq, RefreshReq, Hist, TypeOK
  <2> QED
    BY <1>15, RefreshHeard DEF OwnerOf
<1>16. ASSUME NEW r \in wire, FailRefresh(r) PROVE UserInv'
  BY <1>16 DEF FailRefresh, ThrowOut, SignedOut, Still
<1>17. ASSUME NEW r \in wire, Left(r) PROVE UserInv'
  BY <1>17 DEF Left, SignedOut, Settle, Still
<1>18. ASSUME NEW r \in wire, Lose(r) PROVE UserInv'
  BY <1>18 DEF Lose, Replace, Still
<1>19. CASE UNCHANGED deskVars
  BY <1>19 DEF deskVars
<1> QED
  BY <1>1, <1>2, <1>3, <1>4, <1>5, <1>6, <1>7, <1>8, <1>9, <1>10, <1>11, <1>12, <1>13, <1>14, <1>15,
     <1>16, <1>17, <1>18, <1>19 DEF Next

\* Every step keeps the refresh token good, until it is spent.
LEMMA GoodKept ==
  ASSUME SessionAssumption, TypeOK, hist \in Hist, WireInv, UsedInv, OneInv, UserInv, GoodInv, [Next]_deskVars
  PROVE  GoodInv'
<1> USE DEF SessionAssumption, TypeOK, Hist, WireInv, Requests, LoginReq, CallReq, LogoutReq,
            RefreshReq, Phases, Held, Pairs, UsedInv, OneInv, UserInv, GoodInv, OwnerOf, Used
<1>1. ASSUME NEW u \in Users, Login(u) PROVE GoodInv'
  BY <1>1 DEF Login, Send, Pending, Still
<1>2. ASSUME Call PROVE GoodInv'
  BY <1>2 DEF Call, Send, Still
<1>3. ASSUME Logout PROVE GoodInv'
  BY <1>3 DEF Logout, Send, Still
<1>4. ASSUME Expire PROVE GoodInv'
  BY <1>4 DEF Expire, Still
<1>5. ASSUME Reload PROVE GoodInv'
  BY <1>5 DEF Reload, Still
<1>6. ASSUME NEW r \in wire, ServeLogin(r) PROVE GoodInv'
  <2> HIDE DEF WireInv, Requests, LoginReq, CallReq, LogoutReq, RefreshReq, Hist, TypeOK
  <2> QED
    BY <1>6, ServedLogin DEF Added, OwnerOf
<1>7. ASSUME NEW r \in wire, ServeCall(r) PROVE GoodInv'
  BY <1>7 DEF ServeCall, Replace, Still
<1>8. ASSUME NEW r \in wire, ServeLogout(r) PROVE GoodInv'
  <2> HIDE DEF WireInv, Requests, LoginReq, CallReq, LogoutReq, RefreshReq, Hist, TypeOK
  <2> QED
    BY <1>8, ServedLogout DEF OwnerOf
<1>9. ASSUME NEW r \in wire, ServeRefresh(r) PROVE GoodInv'
  <2> HIDE DEF WireInv, Requests, LoginReq, CallReq, LogoutReq, RefreshReq, Hist, TypeOK
  <2> QED
    BY <1>9, ServedRefresh DEF Added, OwnerOf
<1>10. ASSUME NEW r \in wire, SucceedLogin(r) PROVE GoodInv'
  BY <1>10 DEF SucceedLogin, Settle, Still
<1>11. ASSUME NEW r \in wire, FailLogin(r) PROVE GoodInv'
  BY <1>11 DEF FailLogin, ThrowOut, SignedOut, Still
<1>12. ASSUME NEW r \in wire, Heard(r) PROVE GoodInv'
  BY <1>12 DEF Heard, Settle, Still
<1>13. ASSUME NEW r \in wire, Denied(r) PROVE GoodInv'
  <2> DEFINE waiting == [r EXCEPT !.phase = "waiting"]
             q == [kind |-> "refresh", who |-> "desk", phase |-> "sent", token |-> form.refresh, got |-> None]
  <2>1. waiting.kind = r.kind /\ waiting.kind \in {"call", "logout"}
    BY <1>13, Rephased DEF Denied
  <2>2. UNCHANGED <<db, form, hist>>
    BY <1>13 DEF Denied
  <2>3. CASE Refreshing = {}
    <3> HIDE DEF WireInv, Requests, LoginReq, CallReq, LogoutReq, RefreshReq, Hist, TypeOK, waiting
    <3>1. wire' = (wire \ {r}) \cup {waiting} \cup {q} /\ form.refresh # None
      BY <1>13, <2>3 DEF Denied, waiting
    <3> QED
      BY <1>13, <2>1, <2>2, <2>3, <3>1 DEF Refreshing, Denied
  <2>4. CASE Refreshing # {}
    <3> HIDE DEF WireInv, Requests, LoginReq, CallReq, LogoutReq, RefreshReq, Hist, TypeOK, waiting
    <3>1. wire' = (wire \ {r}) \cup {waiting}
      BY <1>13, <2>4 DEF Denied, waiting
    <3> QED
      BY <1>13, <2>1, <2>2, <2>4, <3>1 DEF Refreshing, Denied
  <2> QED
    BY <2>3, <2>4
<1>14. ASSUME NEW r \in wire, DeniedForGood(r) PROVE GoodInv'
  BY <1>14 DEF DeniedForGood, ThrowOut, SignedOut, Still
<1>15. ASSUME NEW r \in wire, SucceedRefresh(r) PROVE GoodInv'
  <2> HIDE DEF WireInv, Requests, LoginReq, CallReq, LogoutReq, RefreshReq, Hist, TypeOK
  <2> QED
    BY <1>15, RefreshHeard DEF OwnerOf
<1>16. ASSUME NEW r \in wire, FailRefresh(r) PROVE GoodInv'
  BY <1>16 DEF FailRefresh, ThrowOut, SignedOut, Still
<1>17. ASSUME NEW r \in wire, Left(r) PROVE GoodInv'
  BY <1>17 DEF Left, SignedOut, Settle, Still
<1>18. ASSUME NEW r \in wire, Lose(r) PROVE GoodInv'
  <2> HIDE DEF WireInv, Requests, LoginReq, CallReq, LogoutReq, RefreshReq, Hist, TypeOK
  <2> DEFINE lost == [r EXCEPT !.phase = "error"]
  <2>1. lost.kind = r.kind /\ lost.phase = "error" /\ lost.token = r.token
    BY Rephased
  <2>2. wire' = (wire \ {r}) \cup {lost} /\ UNCHANGED <<db, form, hist>> /\ r.kind \in {"refresh", "logout"}
    BY <1>18 DEF Lose, Replace
  <2> HIDE DEF lost
  <2> QED
    BY <2>1, <2>2
<1>19. CASE UNCHANGED deskVars
  BY <1>19 DEF deskVars
<1> QED
  BY <1>1, <1>2, <1>3, <1>4, <1>5, <1>6, <1>7, <1>8, <1>9, <1>10, <1>11, <1>12, <1>13, <1>14, <1>15,
     <1>16, <1>17, <1>18, <1>19 DEF Next
-----------------------------------------------------------------------------
\* At the start nothing is issued and nothing under way.
LEMMA InitIInv == ASSUME SessionAssumption, Init PROVE IInv
  BY DEF SessionAssumption, Init, IInv, TypeOK, Hist, WireInv, UsedInv, OneInv, UserInv, GoodInv, OwnerOf, Used,
         SignedOut, Held, Pairs

\* The invariant is inductive.
LEMMA NextIInv == ASSUME SessionAssumption, IInv, [Next]_deskVars PROVE IInv'
  BY TypesKept, UsedKept, OneKept, UserKept, GoodKept DEF IInv

LEMMA Invariant == ASSUME SessionAssumption PROVE Spec => []IInv
<1>1. Init => IInv
  BY InitIInv
<1>2. IInv /\ [Next]_deskVars => IInv'
  BY NextIInv
<1> QED
  BY <1>1, <1>2, PTL DEF Spec

\* The store, the pairs issued and the requests under way are what the program
\* takes them for.
THEOREM SessionTypeCorrect == ASSUME SessionAssumption PROVE Spec => []TypeOK
<1>1. IInv => TypeOK
  BY DEF IInv
<1> QED
  BY <1>1, Invariant, PTL

\* No request goes out under a token of another user than the one who made it,
\* unless somebody left with requests under way.
THEOREM NobodyForAnother == ASSUME SessionAssumption PROVE Spec => []NobodyActsForAnother
<1>1. IInv => NobodyActsForAnother
  BY DEF IInv, UserInv, NobodyActsForAnother
<1> QED
  BY <1>1, Invariant, PTL

\* However many requests meet the first expiry, nobody is thrown out by it.
THEOREM FirstExpirySurvived == ASSUME SessionAssumption PROVE Spec => []FirstExpiryIsSurvived
<1>1. ASSUME IInv PROVE FirstExpiryIsSurvived
  BY <1>1 DEF IInv, GoodInv, FirstExpiryIsSurvived
<1> QED
  BY <1>1, Invariant, PTL
=============================================================================

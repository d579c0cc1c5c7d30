---------------------------- MODULE SessionDesk ----------------------------
(***************************************************************************)
(* Signing in and out of the portals: the token store (authStore.ts), the  *)
(* interceptors that attach and refresh tokens (api.ts), useAuth.ts, and   *)
(* what the token endpoints do with the pairs they issue (users/views.py,  *)
(* SIMPLE_JWT in settings/base.py: rotation, blacklist after rotation).    *)
(*                                                                         *)
(* A pair of tokens is a number; access[n] and refresh[n] say whether the  *)
(* server takes its halves.  A refresh token's seven days are not reached. *)
(***************************************************************************)
EXTENDS Desk

CONSTANTS
    Users,
    MaxTokens    \* bound on the pairs issued

Pairs == 1..MaxTokens
Held == Pairs \cup {None}

SignedOut == [user |-> None, access |-> None, refresh |-> None]

TypeOK ==
    /\ db \in [issued: 0..MaxTokens, owner: [Pairs -> Users \cup {None}], access: SUBSET Pairs, refresh: SUBSET Pairs]
    /\ form \in [user: Users \cup {None}, access: Held, refresh: Held]
    /\ \A r \in wire :
        /\ r.kind \in {"login", "call", "logout", "refresh"} /\ r.who = "desk"
        /\ r.phase \in {"sent", "ok", "denied", "waiting", "error"}
        /\ r.token \in IF r.kind = "refresh" THEN Pairs ELSE Held

Init ==
    /\ db = [issued |-> 0, owner |-> [n \in Pairs |-> None], access |-> {}, refresh |-> {}]
    /\ form = SignedOut /\ wire = {}
    /\ shown = <<>> /\ due = {} /\ dialog = None
    /\ hist = [opens |-> 0, sends |-> 0, refreshed |-> FALSE, thrown |-> FALSE, left |-> FALSE]

Still == UNCHANGED <<shown, due, dialog>>

\* ---- the browser sends ------------------------------------------------------------

Login(u) ==
    /\ form.user = None /\ ~Pending("login")
    /\ Send([kind |-> "login", who |-> "desk", phase |-> "sent", user |-> u, token |-> None])
    /\ UNCHANGED <<db, form>> /\ Still

\* Any request of any page, with the token the store has.
Call ==
    /\ form.user # None
    /\ Send([kind |-> "call", who |-> "desk", phase |-> "sent", user |-> form.user, token |-> form.access,
             no |-> hist.sends, retry |-> FALSE])
    /\ UNCHANGED <<db, form>> /\ Still

\* The button is not disabled while the answer is awaited.
Logout ==
    /\ form.user # None
    /\ Send([kind |-> "logout", who |-> "desk", phase |-> "sent", user |-> form.user, token |-> form.access,
             no |-> hist.sends, retry |-> FALSE, refresh |-> form.refresh])
    /\ UNCHANGED <<db, form>> /\ Still

\* ---- the server -------------------------------------------------------------------

Issue(u, access, refresh) ==
    LET n == db.issued + 1 IN
    /\ n \in Pairs
    /\ db' = [issued |-> n, owner |-> [db.owner EXCEPT ![n] = u],
              access |-> access \cup {n}, refresh |-> refresh \cup {n}]

\* A wrong password is a 401 as well: there is nothing to refresh, and the
\* login page is loaded again.
ServeLogin(r) ==
    /\ r.kind = "login" /\ r.phase = "sent"
    /\ \/ Issue(r.user, db.access, db.refresh) /\ Replace(r, [r EXCEPT !.phase = "ok", !.token = db.issued + 1])
       \/ Replace(r, [r EXCEPT !.phase = "denied"]) /\ UNCHANGED db
    /\ UNCHANGED <<form, hist>> /\ Still

ServeCall(r) ==
    /\ r.kind = "call" /\ r.phase = "sent"
    /\ Replace(r, [r EXCEPT !.phase = IF r.token \in db.access THEN "ok" ELSE "denied"])
    /\ UNCHANGED <<db, form, hist>> /\ Still

\* LogoutView is for the signed in; it blacklists the token it is given, and a
\* token already blacklisted is a 400.
ServeLogout(r) ==
    /\ r.kind = "logout" /\ r.phase = "sent"
    /\ IF r.token \notin db.access
       THEN Replace(r, [r EXCEPT !.phase = "denied"]) /\ UNCHANGED db
       ELSE /\ Replace(r, [r EXCEPT !.phase = IF r.refresh \in db.refresh THEN "ok" ELSE "error"])
            /\ db' = [db EXCEPT !.refresh = @ \ {r.refresh}]
    /\ UNCHANGED <<form, hist>> /\ Still

\* Rotation: a new pair, and the refresh token that was shown is blacklisted.
ServeRefresh(r) ==
    /\ r.kind = "refresh" /\ r.phase = "sent"
    /\ IF r.token \in db.refresh
       THEN /\ Issue(db.owner[r.token], db.access, db.refresh \ {r.token})
            /\ Replace(r, [r EXCEPT !.phase = "ok", !.got = db.issued + 1])
       ELSE Replace(r, [r EXCEPT !.phase = "denied"]) /\ UNCHANGED db
    /\ UNCHANGED <<form, hist>> /\ Still

\* An hour goes by.
Expire ==
    \E n \in db.access :
        /\ db' = [db EXCEPT !.access = @ \ {n}]
        /\ UNCHANGED <<form, wire, hist>> /\ Still

\* ---- the browser hears ---------------------------------------------------------------

\* setAuth.
SucceedLogin(r) ==
    /\ r.kind = "login" /\ r.phase = "ok" /\ Settle(r)
    /\ form' = [user |-> r.user, access |-> r.token, refresh |-> r.token]
    /\ UNCHANGED <<db, hist>> /\ Still

\* The store is emptied and /login is loaded: whatever was under way is nobody's.
ThrowOut(excused) ==
    /\ form' = SignedOut
    /\ wire' = {}
    /\ hist' = [hist EXCEPT !.thrown = @ \/ ~excused]
    /\ UNCHANGED db /\ Still

FailLogin(r) ==
    /\ r.kind = "login" /\ r.phase = "denied"
    /\ ThrowOut(TRUE)

\* The pages get their answer; of a request denied a second time, a failure.
Heard(r) ==
    /\ r.kind = "call" /\ (r.phase \in {"ok", "error"} \/ (r.phase = "denied" /\ r.retry)) /\ Settle(r)
    /\ UNCHANGED <<db, form, hist>> /\ Still

\* A slip: nobody marks that a refresh is under way.
RefreshingUnmarked == {}

Refreshing == {q \in wire : q.kind = "refresh"}

\* A slip: nobody looks whether there is a refresh token.
DeniedAnyway(r) ==
    /\ r.kind \in {"call", "logout"} /\ r.phase = "denied" /\ ~r.retry
    /\ wire' = (wire \ {r}) \cup {[r EXCEPT !.phase = "waiting"]} \cup
                 IF Refreshing = {} THEN {[kind |-> "refresh", who |-> "desk", phase |-> "sent",
                                           token |-> form.refresh, got |-> None]}
                                    ELSE {}
    /\ UNCHANGED <<db, form, hist>> /\ Still

\* A first 401 waits for the refresh under way, or starts one with the refresh
\* token the store has now.
Denied(r) ==
    /\ r.kind \in {"call", "logout"} /\ r.phase = "denied" /\ ~r.retry
    /\ Refreshing # {} \/ form.refresh # None
    /\ wire' = (wire \ {r}) \cup {[r EXCEPT !.phase = "waiting"]} \cup
                 IF Refreshing = {} THEN {[kind |-> "refresh", who |-> "desk", phase |-> "sent",
                                           token |-> form.refresh, got |-> None]}
                                    ELSE {}
    /\ UNCHANGED <<db, form, hist>> /\ Still

DeniedForGood(r) ==
    /\ r.kind \in {"call", "logout"} /\ r.phase = "denied" /\ ~r.retry
    /\ Refreshing = {} /\ form.refresh = None
    /\ ThrowOut(TRUE)

\* setTokens: the new access token beside the refresh token that was shown;
\* the requests that waited are sent again.
SucceedRefresh(r) ==
    /\ r.kind = "refresh" /\ r.phase = "ok"
    /\ form' = [form EXCEPT !.access = r.got, !.refresh = r.token]
    /\ wire' = {IF q.phase = "waiting" THEN [q EXCEPT !.phase = "sent", !.retry = TRUE, !.token = r.got] ELSE q :
                   q \in wire \ {r}}
    /\ hist' = [hist EXCEPT !.refreshed = TRUE]
    /\ UNCHANGED db /\ Still

FailRefresh(r) ==
    /\ r.kind = "refresh" /\ r.phase \in {"denied", "error"}
    /\ ThrowOut(r.phase = "error" \/ \E q \in wire : q.kind = "logout")

\* A slip: the user goes, the tokens stay.
LeftWithTokens(r) ==
    /\ r.kind = "logout" /\ (r.phase \in {"ok", "error"} \/ (r.phase = "denied" /\ r.retry)) /\ Settle(r)
    /\ form' = [form EXCEPT !.user = None]
    /\ UNCHANGED <<db, hist>> /\ Still

\* useAuth.logout: the store is emptied whatever the answer was.
Left(r) ==
    /\ r.kind = "logout" /\ (r.phase \in {"ok", "error"} \/ (r.phase = "denied" /\ r.retry)) /\ Settle(r)
    /\ form' = SignedOut
    /\ hist' = [hist EXCEPT !.left = @ \/ \E q \in wire \ {r} : q.kind # "login"]
    /\ UNCHANGED db /\ Still

\* The answer is lost on its way.
Lose(r) ==
    /\ r.phase \in {"ok", "denied"} /\ r.kind \in {"refresh", "logout"}
    /\ Replace(r, [r EXCEPT !.phase = "error"])
    /\ UNCHANGED <<db, form, hist>> /\ Still

\* The page is loaded again: the store was kept (persist), what was under way is
\* given up.
Reload ==
    /\ wire' = {}
    /\ hist' = [hist EXCEPT !.left = @ \/ \E q \in wire : q.kind \in {"refresh", "logout"}]
    /\ UNCHANGED <<db, form>> /\ Still

Next ==
    \/ \E u \in Users : Login(u)
    \/ Call \/ Logout \/ Expire \/ Reload
    \/ \E r \in wire : \/ ServeLogin(r) \/ ServeCall(r) \/ ServeLogout(r) \/ ServeRefresh(r)
                       \/ SucceedLogin(r) \/ FailLogin(r) \/ Heard(r) \/ Denied(r) \/ DeniedForGood(r)
                       \/ SucceedRefresh(r) \/ FailRefresh(r) \/ Left(r) \/ Lose(r)

Spec == Init /\ [][Next]_deskVars

\* ---- what it promises -----------------------------------------------------------------------

OwnerOf(n) == IF n = None THEN None ELSE db.owner[n]

\* The tokens of the store are of the user it shows, and a request, sent again
\* or not, carries a token of the user who made it; unless somebody signed out
\* while a request or a refresh was under way.
NobodyActsForAnother ==
    \/ hist.left
    \/ /\ form.user = OwnerOf(form.access) /\ form.user = OwnerOf(form.refresh)
       /\ \A r \in wire : r.kind \in {"call", "logout"} => OwnerOf(r.token) = r.user

\* Nobody is thrown out before a refresh has succeeded once: of the requests
\* that find the token expired together, one refreshes it for all; unless
\* somebody signs out or loads the page again meanwhile.
FirstExpiryIsSurvived == hist.thrown => hist.refreshed \/ hist.left
=============================================================================

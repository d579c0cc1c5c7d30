----------------------------- MODULE TicketIssue -----------------------------
(***************************************************************************)
(* POST /tickets/ and POST /tickets/group/ of the public API under an      *)
(* idempotency_key: the Redis reservation of the key, the POST proxied to  *)
(* Django, the ticket Django inserts and the journal entry its post_save   *)
(* signal makes (fastapi_services/public_api/router.py, apps/ticketing,    *)
(* apps/accounting/signals.py).                                            *)
(*                                                                         *)
(* A client repeats a request, with the same key, until it has a 2xx.  The *)
(* FastAPI request and the Django POST it awaits are separate processes:   *)
(* the one can die or time out while the other goes on.                    *)
(***************************************************************************)
EXTENDS Naturals, Sequences, FiniteSets

CONSTANTS
    Keys,        \* (tenant_schema, idempotency_key) pairs
    Groups,      \* those of them used with /tickets/group/
    Attempts,    \* requests a client can have in flight for one key
    Posts,       \* POSTs that can be proxied to Django
    None,
    Faults       \* what may go wrong, of the five names below

\* "refuse": Django answers 4xx; "drop": an httpx timeout or a dead worker;
\* "crash": a Django worker dies; "redis": a Redis call raises;
\* "slow": a request outlives the 30 s of its reservation.
ASSUME IssueAssumption ==
    /\ Groups \subseteq Keys
    /\ Faults \subseteq {"refuse", "drop", "crash", "redis", "slow"}
    /\ None \notin Posts \cup Keys
    /\ Posts \cap {"absent", "IN_PROGRESS"} = {}

VARIABLES
    cell,        \* cell[k]: what Redis holds under the key
    call,        \* call[k][a]: attempt a at the request with key k
    post,        \* post[p]: a POST as Django sees it
    journal,     \* the journal entry numbered n is that of journal[n]'s ticket
    answered,    \* answered[k]: the POSTs whose 2xx answer a client of k was given
    lapsed       \* history: keys whose reservation expired unanswered, or which Redis failed

vars == <<cell, call, post, journal, answered, lapsed>>

-----------------------------------------------------------------------------
Call == [step : {"idle", "wait", "proxy", "await"}, owns : BOOLEAN, post : Posts \cup {None}]
NoCall == [step |-> "idle", owns |-> FALSE, post |-> None]

\* ticket: its ticket (or Booking) is committed; number: the entry_no it will use.
Status == {"unsent", "sent", "inserted", "numbered", "posted", "refused", "broken"}
Post == [status : Status, key : Keys \cup {None}, ticket : BOOLEAN, number : Nat]
NoPost == [status |-> "unsent", key |-> None, ticket |-> FALSE, number |-> 0]

TypeOK ==
    /\ cell \in [Keys -> {"absent", "IN_PROGRESS"} \cup Posts]
    /\ call \in [Keys -> [Attempts -> Call]]
    /\ post \in [Posts -> Post]
    /\ journal \in Seq(Posts)
    /\ answered \in [Keys -> SUBSET Posts]
    /\ lapsed \subseteq Keys

Init ==
    /\ cell = [k \in Keys |-> "absent"]
    /\ call = [k \in Keys |-> [a \in Attempts |-> NoCall]]
    /\ post = [p \in Posts |-> NoPost]
    /\ journal = <<>>
    /\ answered = [k \in Keys |-> {}]
    /\ lapsed = {}

Owned(k) == \E a \in Attempts : call[k][a].owns

\* The request goes to step `step'; it ends at NoCall.
Move(k, a, step, owns, p) ==
    call' = [call EXCEPT ![k][a] = [step |-> step, owns |-> owns, post |-> p]]
End(k, a) == Move(k, a, "idle", FALSE, None)

\* The client of k is given the 2xx answer of POST p.
Give(k, p) == answered' = [answered EXCEPT ![k] = @ \cup {p}]

-----------------------------------------------------------------------------
\* The public API: issue_ticket, group_tickets.

\* SET key IN_PROGRESS NX: the one request that wins goes on to the proxy ...
Reserve(k, a) ==
    /\ call[k][a].step = "idle"
    /\ cell[k] = "absent"
    /\ cell' = [cell EXCEPT ![k] = "IN_PROGRESS"]
    /\ Move(k, a, "proxy", TRUE, None)
    /\ UNCHANGED <<post, journal, answered, lapsed>>

\* ... any other waits for its result.
Lose(k, a) ==
    /\ call[k][a].step = "idle"
    /\ cell[k] # "absent"
    /\ Move(k, a, "wait", FALSE, None)
    /\ UNCHANGED <<cell, post, journal, answered, lapsed>>

\* A slip: the request whose polls run out goes on to the proxy instead of answering 409.
WaitThenProxy(k, a) ==
    /\ call[k][a].step = "wait"
    /\ IF cell[k] \in Posts
       THEN Give(k, cell[k]) /\ End(k, a)
       ELSE Move(k, a, "proxy", FALSE, None) /\ UNCHANGED answered
    /\ UNCHANGED <<cell, post, journal, lapsed>>

\* GET, then polls for 3 s: the stored answer, or 409 when the last GET finds none.
Wait(k, a) ==
    /\ call[k][a].step = "wait"
    /\ IF cell[k] \in Posts THEN Give(k, cell[k]) ELSE UNCHANGED answered
    /\ End(k, a)
    /\ UNCHANGED <<cell, post, journal, lapsed>>

\* SET, or a GET, raises: the request proceeds without the key.
Degrade(k, a) ==
    /\ "redis" \in Faults
    /\ call[k][a].step \in {"idle", "wait"}
    /\ Move(k, a, "proxy", FALSE, None)
    /\ lapsed' = lapsed \cup {k}
    /\ UNCHANGED <<cell, post, journal, answered>>

\* _proxy_to_django.
Proxy(k, a, p) ==
    /\ call[k][a].step = "proxy"
    /\ post[p].status = "unsent"
    /\ post' = [post EXCEPT ![p] =
           [status |-> "sent", key |-> k, ticket |-> FALSE, number |-> 0]]
    /\ Move(k, a, "await", call[k][a].owns, p)
    /\ UNCHANGED <<cell, journal, answered, lapsed>>

\* The answer to attempt a has come, with this outcome.
Outcome(k, a, status) ==
    /\ call[k][a].step = "await"
    /\ post[call[k][a].post].status = status

\* 2xx: the owner stores it under the key (24 h), and every request passes it on.
Answer(k, a) ==
    /\ Outcome(k, a, "posted")
    /\ \/ cell' = IF call[k][a].owns
                  THEN [cell EXCEPT ![k] = call[k][a].post]
                  ELSE cell
       \/ /\ "redis" \in Faults                       \* the SET raises
          /\ UNCHANGED cell
    /\ Give(k, call[k][a].post)
    /\ End(k, a)
    /\ UNCHANGED <<post, journal, lapsed>>

\* An error with a JSON body: the owner deletes the key, whatever it holds by now.
Release(k, a) ==
    /\ Outcome(k, a, "refused")
    /\ \/ cell' = IF call[k][a].owns THEN [cell EXCEPT ![k] = "absent"] ELSE cell
       \/ /\ "redis" \in Faults                       \* the DELETE raises
          /\ UNCHANGED cell
    /\ End(k, a)
    /\ UNCHANGED <<post, journal, answered, lapsed>>

\* Django's own 500 page is not JSON: it is passed through and the key stays reserved.
PassThrough(k, a) ==
    /\ Outcome(k, a, "broken")
    /\ End(k, a)
    /\ UNCHANGED <<cell, post, journal, answered, lapsed>>

\* A slip: the result is stored in a "finally", whether or not there is one.
DropStores(k, a) ==
    /\ "drop" \in Faults
    /\ call[k][a].step # "idle"
    /\ cell' = [cell EXCEPT ![k] = call[k][a].post]
    /\ End(k, a)
    /\ UNCHANGED <<post, journal, answered, lapsed>>

\* httpx raises, or the worker dies: nothing is stored or released.
Drop(k, a) ==
    /\ "drop" \in Faults
    /\ call[k][a].step # "idle"
    /\ End(k, a)
    /\ UNCHANGED <<cell, post, journal, answered, lapsed>>

\* A slip: the placeholder is set without a TTL, only results have one.
ExpireResult(k) ==
    /\ cell[k] \in Posts
    /\ cell' = [cell EXCEPT ![k] = "absent"]
    /\ UNCHANGED <<call, post, journal, answered, lapsed>>

\* The 30 s TTL of a reservation; a request ends within it unless it is "slow".
Expire(k) ==
    /\ cell[k] = "IN_PROGRESS"
    /\ "slow" \in Faults \/ ~Owned(k)
    /\ cell' = [cell EXCEPT ![k] = "absent"]
    /\ lapsed' = lapsed \cup {k}
    /\ UNCHANGED <<call, post, journal, answered>>

-----------------------------------------------------------------------------
\* Django.

\* POST p goes from one status to another.
Become(p, status, ticket, number) ==
    post' = [post EXCEPT ![p] = [status |-> status, key |-> post[p].key,
                                 ticket |-> ticket, number |-> number]]

\* Authentication, permission or validation fails: 4xx and no row.
Refuse(p) ==
    /\ "refuse" \in Faults
    /\ post[p].status = "sent"
    /\ Become(p, "refused", FALSE, 0)
    /\ UNCHANGED <<cell, call, journal, answered, lapsed>>

\* TicketSerializer.create: in autocommit mode the ticket is committed at once.
Insert(p) ==
    /\ post[p].status = "sent"
    /\ post[p].key \notin Groups
    /\ Become(p, "inserted", TRUE, 0)
    /\ UNCHANGED <<cell, call, journal, answered, lapsed>>

\* on_ticket_created: generate_entry_no reads the last number of the day.  Under
\* BookingCreateSerializer.create the ticket is not committed yet.
ReadNumber(p) ==
    /\ post[p].status = IF post[p].key \in Groups THEN "sent" ELSE "inserted"
    /\ Become(p, "numbered", post[p].ticket, Len(journal) + 1)
    /\ UNCHANGED <<cell, call, journal, answered, lapsed>>

\* Slips: the signal's error is logged and swallowed; the Booking is kept when it fails.
PostEntrySwallowed(p) ==
    /\ post[p].status = "numbered"
    /\ Become(p, "posted", TRUE, post[p].number)
    /\ journal' = IF post[p].number = Len(journal) + 1 THEN Append(journal, p) ELSE journal
    /\ UNCHANGED <<cell, call, answered, lapsed>>
PostEntryKept(p) ==
    /\ post[p].status = "numbered"
    /\ IF post[p].number = Len(journal) + 1
       THEN /\ Become(p, "posted", TRUE, post[p].number)
            /\ journal' = Append(journal, p)
       ELSE /\ Become(p, "broken", TRUE, 0)
            /\ UNCHANGED journal
    /\ UNCHANGED <<cell, call, answered, lapsed>>

\* JournalEntry.objects.create: entry_no is unique, so a number taken meanwhile is
\* an IntegrityError and a 500, which rolls a Booking back but not a lone ticket.
PostEntry(p) ==
    /\ post[p].status = "numbered"
    /\ IF post[p].number = Len(journal) + 1
       THEN /\ Become(p, "posted", TRUE, post[p].number)
            /\ journal' = Append(journal, p)
       ELSE /\ Become(p, "broken", post[p].ticket, 0)
            /\ UNCHANGED journal
    /\ UNCHANGED <<cell, call, answered, lapsed>>

\* The Django worker dies with the POST half done: a lone ticket's entry may be
\* committed without its lines.
Crash(p) ==
    /\ "crash" \in Faults
    /\ post[p].status \in {"sent", "inserted", "numbered"}
    /\ Become(p, "broken", post[p].ticket, 0)
    /\ \/ UNCHANGED journal
       \/ /\ post[p].status = "numbered"
          /\ post[p].key \notin Groups
          /\ post[p].number = Len(journal) + 1
          /\ journal' = Append(journal, p)
    /\ UNCHANGED <<cell, call, answered, lapsed>>

-----------------------------------------------------------------------------
Request(k, a) == Reserve(k, a) \/ Lose(k, a)
Progress(k, a) ==
    \/ Wait(k, a) \/ Answer(k, a) \/ Release(k, a) \/ PassThrough(k, a)
    \/ \E p \in Posts : Proxy(k, a, p)
Django(p) == Refuse(p) \/ Insert(p) \/ ReadNumber(p) \/ PostEntry(p)

Next ==
    \/ \E k \in Keys, a \in Attempts :
           Request(k, a) \/ Progress(k, a) \/ Degrade(k, a) \/ Drop(k, a)
    \/ \E k \in Keys : Expire(k)
    \/ \E p \in Posts : Django(p) \/ Crash(p)

Spec == Init /\ [][Next]_vars

\* A client told to retry does; a web server, Django and the TTL of Redis go on.
Fairness ==
    /\ \A k \in Keys, a \in Attempts :
           WF_vars(Request(k, a)) /\ WF_vars(Progress(k, a))
    /\ \A k \in Keys : WF_vars(Expire(k))
    /\ \A p \in Posts : WF_vars(Django(p))
FairSpec == Spec /\ Fairness

-----------------------------------------------------------------------------
\* The tickets issued for key k, by the POSTs that made them.
Tickets(k) == {p \in Posts : post[p].key = k /\ post[p].ticket}

\* A key that has two tickets lapsed: its reservation ran out of its 30 s without
\* an answer, or Redis failed one of its requests.  In every other case, 4xx answers,
\* lost answers and concurrent retries included, the SET NX keeps the key to one ticket.
DuplicateNeedsLapse ==
    \A k \in Keys \ lapsed : \A p, q \in Tickets(k) : p = q

\* What a client is given as issued, or will be from Redis, is a committed ticket
\* with a journal entry of its own number: no 2xx precedes the revenue posting.
AnsweredIsPosted ==
    \A k \in Keys : \A p \in Posts :
        p \in answered[k] \/ cell[k] = p =>
            /\ p \in Tickets(k)
            /\ post[p].number \in 1..Len(journal)
            /\ journal[post[p].number] = p

\* A group purchase is one transaction with its journal entries: as long as no
\* request is lost, a key of /tickets/group/ is issued once, even when sales that
\* run concurrently take its entry number and its reservation has to lapse.
GroupIssuedOnce ==
    \A k \in Groups : \A p, q \in Tickets(k) : p = q

\* A client that goes on retrying is answered: no crash of its first request, and
\* no failure of the entry number, wedges the key for good.
EventuallyAnswered == \A k \in Keys : <>(answered[k] # {})

\* "retried requests with the same key return the original result instead of
\* duplicating" (issue_ticket, router.py:1348): a key is issued at most once.
NeverADuplicate == \A k \in Keys : \A p, q \in Tickets(k) : p = q
=============================================================================

-------------------------------- MODULE Desk --------------------------------
(***************************************************************************)
(* What every page of the portals is built from: rows the server keeps,   *)
(* the lists the query client has cached of them, one dialog over the      *)
(* page, and the requests its mutations have under way.                    *)
(*                                                                         *)
(* A page extends this module with its rows and its handlers.  A request   *)
(* is a record with at least a kind, the sender `who` ("desk" for this     *)
(* page, "other" for a colleague's) and its `phase`: "sent", perhaps       *)
(* "read" while the server holds what it read, then "ok" or "error".  A    *)
(* page that waited 30 s (services/api.ts) is told of an error while the   *)
(* server may still be working: its request goes on as one of nobody's,    *)
(* "gone".                                                                 *)
(***************************************************************************)
EXTENDS Naturals, FiniteSets, TLC

CONSTANTS
    None,
    MaxOpens,    \* bound on the dialogs a behaviour opens
    MaxSends     \* bound on the requests a behaviour sends

VARIABLES
    db,      \* the rows, as committed on the server
    shown,   \* per query: the answer the page shows
    due,     \* queries whose request is under way
    dialog,  \* the open dialog, None if there is none
    form,    \* what the page keeps across its dialogs
    wire,    \* requests of mutations
    hist     \* what happened so far, read by the properties only

deskVars == <<db, shown, due, dialog, form, wire, hist>>

\* useMutation: `loading={mutation.isPending}` disables the button of its kind.
Pending(kind) == \E r \in wire : r.who = "desk" /\ r.kind = kind

\* A gesture that sends a request.
Send(r) ==
    /\ hist.sends < MaxSends
    /\ wire' = wire \cup {r}
    /\ hist' = [hist EXCEPT !.sends = @ + 1]

Replace(r, s) == wire' = (wire \ {r}) \cup {s}

\* The server's answer; nobody is there to hear it once the sender gave up.
Answer(r, phase) ==
    wire' = IF r.who = "desk" THEN (wire \ {r}) \cup {[r EXCEPT !.phase = phase]}
                            ELSE wire \ {r}

\* The page runs the handler of an answer.
Settle(r) ==
    /\ r.who = "desk"
    /\ wire' = wire \ {r}

\* 30 s went by, or the connection broke: an error to the page, and the
\* server, if it was reached, goes on.
GiveUp ==
    \E r \in wire :
        /\ r.who = "desk"
        /\ r.phase \in {"sent", "read"}
        /\ \/ wire' = wire \ {r} /\ r.phase = "sent"
           \/ Replace(r, [r EXCEPT !.who = "gone"])
        /\ UNCHANGED <<db, shown, due, dialog, form, hist>>

\* qc.invalidateQueries: every mounted query under the keys is asked again, a
\* request already under way is abandoned.
Invalidate(keys) == due' = due \cup keys

\* The answer of a query arrives.  What the server read earlier and sent late
\* is what the page would have shown earlier and kept, so the read and the
\* arrival are one step.
Arrive(key, rows) ==
    /\ key \in due
    /\ shown' = [shown EXCEPT ![key] = rows]
    /\ due' = due \ {key}
    /\ UNCHANGED <<db, dialog, form, wire, hist>>

\* The page asks for a list it does not hold fresh: mount, another page number,
\* another search, a poll.
Ask(key) ==
    /\ key \notin due
    /\ due' = due \cup {key}
    /\ UNCHANGED <<db, shown, dialog, form, wire, hist>>

\* A modal covers the page: one dialog opens at a time.
Open(d) ==
    /\ dialog = None /\ hist.opens < MaxOpens
    /\ dialog' = d
    /\ hist' = [hist EXCEPT !.opens = @ + 1]
    /\ UNCHANGED <<db, shown, due, form, wire>>
=============================================================================

---------------------------- MODULE MySecretsPage ----------------------------
(***************************************************************************)
(* The list of sent links with their state (mySecrets.ts).  The page loads *)
(* the list once and polls the service for the rows it still shows.        *)
(***************************************************************************)
EXTENDS Profile

VARIABLES
    rows,       \* the label of each row, Absent where there is none
    polls,      \* the requests in flight: their ids and what the service said
    view,       \* whether the page is open, hidden, and its timer runs
    saidGone,   \* history: rows this page has called consumed or used
    forgotten   \* history: the secrets forgotten on the page

listVars == <<rows, polls, view, saidGone, forgotten>>

Absent == "absent"
Labels == {"checking", "unread", "available", "consumed", "used", "unknown"}

NoPage == [open |-> FALSE, hidden |-> FALSE, timer |-> FALSE]

ListTypeOK ==
    /\ rows \in [Secrets -> Labels \cup {Absent}]
    /\ polls \subseteq [state : {"sent", "answered", "failed"},
                        ids : SUBSET Secrets, there : SUBSET Secrets]
    /\ view \in [open : BOOLEAN, hidden : BOOLEAN, timer : BOOLEAN]
    /\ saidGone \subseteq Secrets
    /\ forgotten \subseteq Secrets

ListInit ==
    /\ rows = [s \in Secrets |-> Absent]
    /\ polls = {}
    /\ view = NoPage
    /\ saidGone = {}
    /\ forgotten = {}

Rows == {s \in Secrets : rows[s] # Absent}

(* Mutant: forgetting a row only removes its status element.               *)
PolledForgotten == Rows \cup forgotten

(* The entries that are asked for, which is not what is painted.           *)
Polled == Rows

(* Mutant: requests are not kept apart.                                    *)
NeverInFlight == FALSE

InFlight == polls # {}

Asking(ids) == [state |-> "sent", ids |-> ids, there |-> {}]

(* One request at a time, for the rows there are.                          *)
refresh(ids) == polls' = IF InFlight THEN polls ELSE polls \cup {Asking(ids)}

(* What a row says until the service was asked.                            *)
renderRow == "checking"

(* The page may be opened in a background tab; it polls at once, and its   *)
(* timer starts.                                                           *)
OpenList ==
    /\ ~ view.open
    /\ list' = loadSecrets
    /\ LET ids == {loadSecrets[i].id : i \in 1 .. Len(loadSecrets)}
       IN  /\ rows' = [s \in Secrets |-> IF s \in ids THEN renderRow ELSE Absent]
           /\ polls' = IF ids = {} THEN {} ELSE {Asking(ids)}
           /\ \E hidden \in BOOLEAN :
                 view' = [open |-> TRUE, hidden |-> hidden, timer |-> ids # {}]
    /\ saidGone' = {}
    /\ UNCHANGED <<forgotten, left, locked, kept, now>>

CloseList ==
    /\ view.open
    /\ rows' = [s \in Secrets |-> Absent]
    /\ polls' = {}
    /\ view' = NoPage
    /\ saidGone' = {}
    /\ UNCHANGED <<forgotten, profileVars>>

(* Thirty seconds have been counted down since the last answer.            *)
TimerFires ==
    /\ view.timer /\ ~ InFlight
    /\ refresh(Polled)
    /\ UNCHANGED <<rows, view, saidGone, forgotten, profileVars>>

Click ==
    /\ view.open /\ ~ view.hidden /\ Rows # {} /\ ~ InFlight
    /\ refresh(Polled)
    /\ view' = [view EXCEPT !.timer = TRUE]
    /\ UNCHANGED <<rows, saidGone, forgotten, profileVars>>

Hide ==
    /\ view.open /\ ~ view.hidden
    /\ view' = [view EXCEPT !.hidden = TRUE, !.timer = IF Rows = {} THEN @ ELSE FALSE]
    /\ UNCHANGED <<rows, polls, saidGone, forgotten, profileVars>>

Show ==
    /\ view.open /\ view.hidden
    /\ IF Rows = {}
       THEN view' = [view EXCEPT !.hidden = FALSE] /\ UNCHANGED polls
       ELSE view' = [view EXCEPT !.hidden = FALSE, !.timer = TRUE] /\ refresh(Polled)
    /\ UNCHANGED <<rows, saidGone, forgotten, profileVars>>

(* The service says which ids it still stores, or the request fails.       *)
Becomes(q, r) == polls' = (polls \ {q}) \cup {r}

AnswerStatus(q) ==
    /\ q.state = "sent"
    /\ Becomes(q, [q EXCEPT !.state = "answered", !.there = {s \in q.ids : left[s] > 0}])
    /\ UNCHANGED <<rows, view, saidGone, forgotten, profileVars>>

StatusFails(q) ==
    /\ q.state \in {"sent", "answered"}
    /\ Becomes(q, [q EXCEPT !.state = "failed", !.there = {}])
    /\ UNCHANGED <<rows, view, saidGone, forgotten, profileVars>>

classify(q, s, views) ==
    IF q.state = "failed" THEN "unknown"
    ELSE IF s \in q.there THEN (IF views > 1 THEN "available" ELSE "unread")
    ELSE (IF views > 1 THEN "used" ELSE "consumed")

(* Mutant: a request that failed stays in flight: no finally.              *)
updateStatusesAnswered(q, granted) ==
    /\ q.state = "answered"
    /\ rows' = [s \in Secrets |-> IF s \in Rows THEN classify(q, s, granted[s]) ELSE Absent]
    /\ saidGone' = saidGone \cup {s \in Rows : rows'[s] \in {"consumed", "used"}}
    /\ polls' = polls \ {q}
    /\ UNCHANGED <<view, forgotten, profileVars>>

(* The answer is painted on the rows that are left.                        *)
updateStatuses(q, granted) ==
    /\ q.state \in {"answered", "failed"}
    /\ rows' = [s \in Secrets |-> IF s \in Rows THEN classify(q, s, granted[s]) ELSE Absent]
    /\ saidGone' = saidGone \cup {s \in Rows : rows'[s] \in {"consumed", "used"}}
    /\ polls' = polls \ {q}
    /\ UNCHANGED <<view, forgotten, profileVars>>

(* Removes the record and the row, and stops the poller with the last row. *)
Forget(s) ==
    /\ s \in Rows
    /\ list' = Without(list, s)
    /\ rows' = [rows EXCEPT ![s] = Absent]
    /\ view' = [view EXCEPT !.timer = @ /\ Rows # {s}]
    /\ forgotten' = forgotten \cup {s}
    /\ UNCHANGED <<polls, saidGone, left, locked, kept, now>>

Poll(q, granted) == AnswerStatus(q) \/ StatusFails(q) \/ updateStatuses(q, granted)

ListNext(granted) ==
    \/ OpenList \/ CloseList
    \/ TimerFires \/ Click \/ Hide \/ Show
    \/ \E q \in polls : Poll(q, granted)
    \/ \E s \in Secrets : Forget(s)
------------------------------------------------------------------------------
(* A row that was called consumed never turns unread again: no answer is   *)
(* painted after a later one.                                              *)
GoneStaysGone ==
    \A s \in saidGone : rows[s] \notin {"unread", "available"}

(* The service is not asked for a secret the user forgot, by this page or  *)
(* by the next one.                                                        *)
ForgottenIsNotAsked ==
    [][\A q \in polls' \ polls : q.state = "sent" => q.ids \cap forgotten = {}]_listVars
==============================================================================

---------------------------- MODULE OneTimeSecret ----------------------------
(***************************************************************************)
(* What the service promises of a secret, whatever Redis, clocks and       *)
(* retries do: a secret made for n views hands out each of its n views at  *)
(* most once, in order, each to one read request, and nothing after the    *)
(* last view was handed out or its lifetime ended.                         *)
(*                                                                         *)
(* A view is named by the number of views left after it: n-1 is the first, *)
(* 0 the last.  Between taking a view and answering it the request holds   *)
(* it; a view held by a request that fails is lost, never put back.        *)
(***************************************************************************)
EXTENDS Naturals

CONSTANTS Secrets, Requests, MaxViews

VARIABLES
    left,       \* views left to take; 0 before creation and after the end
    created,    \* the secrets that were stored
    holding,    \* what each read request holds: NoView or a view of a secret
    delivered   \* the views of each secret that were answered to a reader

vars == <<left, created, holding, delivered>>

NoView == [secret |-> "none", view |-> 0]
View(s, v) == [secret |-> s, view |-> v]

Init ==
    /\ left = [s \in Secrets |-> 0]
    /\ created = {}
    /\ holding = [r \in Requests |-> NoView]
    /\ delivered = [s \in Secrets |-> {}]

Create(s) ==
    /\ s \notin created
    /\ created' = created \cup {s}
    /\ \E n \in 1 .. MaxViews : left' = [left EXCEPT ![s] = n]
    /\ UNCHANGED <<holding, delivered>>

(* A request takes the next view, or, at the very end of the lifetime, the *)
(* last one, which closes the secret whatever was left.                    *)
Take(r, s) ==
    /\ left[s] > 0
    /\ holding[r] = NoView
    /\ \E v \in {left[s] - 1, 0} :
          /\ left' = [left EXCEPT ![s] = v]
          /\ holding' = [holding EXCEPT ![r] = View(s, v)]
    /\ UNCHANGED <<created, delivered>>

Deliver(r, s) ==
    /\ holding[r] # NoView
    /\ holding[r].secret = s
    /\ holding[r].view \notin delivered[s]
    /\ delivered' = [delivered EXCEPT ![s] = @ \cup {holding[r].view}]
    /\ holding' = [holding EXCEPT ![r] = NoView]
    /\ UNCHANGED <<left, created>>

(* Any number of requests fail after taking their view.                    *)
Lose ==
    /\ \E failed \in SUBSET Requests :
          holding' = [r \in Requests |-> IF r \in failed THEN NoView ELSE holding[r]]
    /\ UNCHANGED <<left, created, delivered>>

(* The lifetimes of any number of secrets end.                             *)
Expire ==
    /\ \E over \in SUBSET Secrets :
          left' = [s \in Secrets |-> IF s \in over THEN 0 ELSE left[s]]
    /\ UNCHANGED <<created, holding, delivered>>

Next ==
    \/ \E s \in Secrets : Create(s)
    \/ \E r \in Requests, s \in Secrets : Take(r, s) \/ Deliver(r, s)
    \/ Lose
    \/ Expire

Spec == Init /\ [][Next]_vars
------------------------------------------------------------------------------
(* No view is held by two requests, held again after it was answered, or   *)
(* still to be taken: what makes n views n reads at most.                  *)
ViewsHandedOutOnce ==
    \A r \in Requests : holding[r] # NoView =>
        /\ holding[r].view >= left[holding[r].secret]
        /\ holding[r].view \notin delivered[holding[r].secret]
        /\ \A q \in Requests \ {r} : holding[q] # holding[r]
==============================================================================

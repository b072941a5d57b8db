------------------------- MODULE OneTimeSecretProofs -------------------------
(***************************************************************************)
(* The promise keeps its word: in no behaviour of OneTimeSecret is a view  *)
(* handed out twice, for any secrets, requests and numbers of views.       *)
(***************************************************************************)
EXTENDS OneTimeSecret, TLAPS

Holding(r) == holding[r] # NoView

HoldingType ==
    /\ DOMAIN holding = Requests
    /\ \A r \in Requests : Holding(r) =>
          \E s \in Secrets : \E v \in Nat : holding[r] = View(s, v)

(* What was answered is above what is left to take, so the next Take names *)
(* a view nobody was given.                                                *)
AnsweredAbove == \A s \in Secrets : \A v \in delivered[s] : v >= left[s]

(* A secret that was not created yet has no view anywhere.                 *)
UncreatedUntouched ==
    \A s \in Secrets : s \notin created =>
        /\ left[s] = 0
        /\ delivered[s] = {}
        /\ \A r \in Requests : Holding(r) => holding[r].secret # s

IInv ==
    /\ left \in [Secrets -> Nat]
    /\ delivered \in [Secrets -> SUBSET Nat]
    /\ HoldingType
    /\ AnsweredAbove
    /\ UncreatedUntouched
    /\ ViewsHandedOutOnce

LEMMA InitEstablishes == Init => IInv
BY DEF Init, IInv, HoldingType, Holding, AnsweredAbove, UncreatedUntouched, ViewsHandedOutOnce

(* The first views of a secret that has none: nothing is held or answered  *)
(* that could be above the new count.                                      *)
LEMMA CreateStep == ASSUME NEW s \in Secrets, IInv, Create(s) PROVE IInv'
<1> USE DEF IInv
<1>1. PICK n \in 1 .. MaxViews : left' = [left EXCEPT ![s] = n]
  BY DEF Create
<1>2. n \in Nat
  OBVIOUS
<1>3. left' \in [Secrets -> Nat] /\ left'[s] = n
  BY <1>1, <1>2
<1>4. \A t \in Secrets \ {s} : left'[t] = left[t]
  BY <1>1
<1>5. holding' = holding /\ delivered' = delivered /\ created' = created \cup {s} /\ s \notin created
  BY DEF Create
<1>6. HoldingType' /\ delivered' \in [Secrets -> SUBSET Nat]
  BY <1>5 DEF HoldingType, Holding
<1>7. delivered[s] = {} /\ \A r \in Requests : Holding(r) => holding[r].secret # s
  BY <1>5 DEF UncreatedUntouched
<1>8. AnsweredAbove'
  BY <1>4, <1>5, <1>7 DEF AnsweredAbove
<1>9. UncreatedUntouched'
  BY <1>4, <1>5 DEF UncreatedUntouched, Holding
<1>10. ASSUME NEW r \in Requests, Holding(r)
       PROVE holding[r].secret \in Secrets /\ holding[r].secret # s
  BY <1>7, <1>10 DEF HoldingType, View
<1>11. ViewsHandedOutOnce'
  BY <1>4, <1>5, <1>10 DEF ViewsHandedOutOnce, Holding
<1> QED
  BY <1>3, <1>6, <1>8, <1>9, <1>11

(* A view is taken below every other of its secret.                        *)
LEMMA TakeStep == ASSUME NEW r \in Requests, NEW s \in Secrets, IInv, Take(r, s) PROVE IInv'
<1> USE DEF IInv
<1>1. PICK v \in {left[s] - 1, 0} :
        left' = [left EXCEPT ![s] = v] /\ holding' = [holding EXCEPT ![r] = View(s, v)]
  BY DEF Take
<1>2. left[s] > 0 /\ left[s] \in Nat /\ ~Holding(r) /\ created' = created /\ delivered' = delivered
  BY DEF Take, Holding
<1>3. v \in Nat /\ v < left[s]
  BY <1>2
<1>4. left' \in [Secrets -> Nat] /\ left'[s] = v /\ \A t \in Secrets \ {s} : left'[t] = left[t]
  BY <1>1, <1>3
<1>5. DOMAIN holding = Requests
  BY DEF HoldingType
<1>6. holding'[r] = View(s, v) /\ \A q \in Requests \ {r} : holding'[q] = holding[q]
  BY <1>1, <1>5
<1>7. DOMAIN holding' = Requests
  BY <1>1, <1>5
<1>8. HoldingType'
  BY <1>3, <1>6, <1>7 DEF HoldingType, Holding
<1>9. ASSUME NEW q \in Requests, Holding(q)
      PROVE /\ holding[q].secret \in Secrets
            /\ holding[q].view \in Nat
            /\ holding[q].view >= left[holding[q].secret]
            /\ holding[q].view \notin delivered[holding[q].secret]
  BY <1>9 DEF HoldingType, View, ViewsHandedOutOnce, Holding
<1>10. AnsweredAbove'
  <2>1. \A w \in delivered[s] : w \in Nat /\ w >= left[s]
    BY DEF AnsweredAbove
  <2>2. \A w \in delivered[s] : w >= v
    BY <2>1, <1>2, <1>3
  <2> QED BY <2>2, <1>2, <1>4 DEF AnsweredAbove
<1>11. s \in created
  BY <1>2 DEF UncreatedUntouched
<1>12. UncreatedUntouched'
  BY <1>2, <1>4, <1>6, <1>11 DEF UncreatedUntouched, Holding, View
<1>13. v \notin delivered[s]
  BY <1>2, <1>3 DEF AnsweredAbove
<1>14. ASSUME NEW q \in Requests \ {r}, Holding(q) PROVE holding[q] # View(s, v)
  BY <1>2, <1>3, <1>9, <1>14 DEF View
<1>15. ASSUME NEW q \in Requests, Holding(q) PROVE holding[q].view >= left'[holding[q].secret]
  BY <1>2, <1>3, <1>4, <1>9, <1>15
<1>16. ViewsHandedOutOnce'
  <2> SUFFICES ASSUME NEW q \in Requests, holding'[q] # NoView
               PROVE /\ holding'[q].view >= left'[holding'[q].secret]
                     /\ holding'[q].view \notin delivered'[holding'[q].secret]
                     /\ \A p \in Requests \ {q} : holding'[p] # holding'[q]
    BY DEF ViewsHandedOutOnce
  <2>1. CASE q = r
    <3>1. holding'[q].secret = s /\ holding'[q].view = v
      BY <2>1, <1>6 DEF View
    <3>2. ASSUME NEW p \in Requests \ {q} PROVE holding'[p] # holding'[q]
      BY <3>2, <2>1, <1>6, <1>14 DEF Holding
    <3> QED BY <3>1, <3>2, <1>2, <1>3, <1>4, <1>13
  <2>2. CASE q # r
    <3>1. Holding(q) /\ holding'[q] = holding[q]
      BY <2>2, <1>6 DEF Holding
    <3>2. ASSUME NEW p \in Requests \ {q} PROVE holding'[p] # holding'[q]
      BY <3>1, <3>2, <2>2, <1>6, <1>14 DEF Holding, ViewsHandedOutOnce
    <3> QED BY <3>1, <3>2, <1>2, <1>9, <1>15
  <2> QED BY <2>1, <2>2
<1> QED
  BY <1>2, <1>4, <1>8, <1>10, <1>12, <1>16

(* The holder answers; no other request holds the view.                    *)
LEMMA DeliverStep == ASSUME NEW r \in Requests, NEW s \in Secrets, IInv, Deliver(r, s) PROVE IInv'
<1> USE DEF IInv
<1> DEFINE v == holding[r].view
<1>1. /\ Holding(r) /\ holding[r].secret = s /\ left' = left /\ created' = created
      /\ holding' = [holding EXCEPT ![r] = NoView]
      /\ delivered' = [delivered EXCEPT ![s] = @ \cup {v}]
  BY DEF Deliver, Holding
<1>2. v \in Nat /\ holding[r] = View(s, v)
  BY <1>1 DEF HoldingType, View
<1>3. v >= left[s]
  BY <1>1 DEF ViewsHandedOutOnce, Holding
<1> HIDE DEF v
<1>4. delivered' \in [Secrets -> SUBSET Nat]
  BY <1>1, <1>2
<1>5. delivered'[s] = delivered[s] \cup {v} /\ \A t \in Secrets \ {s} : delivered'[t] = delivered[t]
  BY <1>1
<1>6. DOMAIN holding = Requests
  BY DEF HoldingType
<1>7. holding'[r] = NoView /\ \A q \in Requests \ {r} : holding'[q] = holding[q]
  BY <1>1, <1>6
<1>8. DOMAIN holding' = Requests
  BY <1>1, <1>6
<1>9. HoldingType'
  BY <1>7, <1>8 DEF HoldingType, Holding
<1>10. AnsweredAbove'
  BY <1>1, <1>3, <1>5 DEF AnsweredAbove
<1>11. s \in created
  BY <1>1 DEF UncreatedUntouched
<1>12. UncreatedUntouched'
  BY <1>1, <1>5, <1>7, <1>11 DEF UncreatedUntouched, Holding
<1>13. ASSUME NEW q \in Requests, holding'[q] # NoView
       PROVE /\ holding'[q].view >= left'[holding'[q].secret]
             /\ holding'[q].view \notin delivered'[holding'[q].secret]
             /\ \A p \in Requests \ {q} : holding'[p] # holding'[q]
  <2>1. q # r /\ Holding(q) /\ holding'[q] = holding[q]
    BY <1>7, <1>13 DEF Holding
  <2>2. PICK t \in Secrets : \E w \in Nat : holding[q] = View(t, w)
    BY <2>1 DEF HoldingType
  <2>3. PICK w \in Nat : holding[q] = View(t, w)
    BY <2>2
  <2>4. holding[q].secret = t /\ holding[q].view = w
    BY <2>3 DEF View
  <2>5. w >= left[t] /\ w \notin delivered[t] /\ \A p \in Requests \ {q} : holding[p] # holding[q]
    BY <2>1, <2>4 DEF ViewsHandedOutOnce, Holding
  <2>6. t = s => w # v
    BY <2>1, <2>3, <2>5, <1>2
  <2>7. w \notin delivered'[t]
    BY <2>5, <2>6, <1>5
  <2>8. ASSUME NEW p \in Requests \ {q} PROVE holding'[p] # holding'[q]
    BY <2>1, <2>5, <2>8, <1>7 DEF Holding
  <2> QED BY <2>1, <2>4, <2>5, <2>7, <2>8, <1>1
<1>14. ViewsHandedOutOnce'
  BY <1>13 DEF ViewsHandedOutOnce
<1> QED
  BY <1>1, <1>4, <1>9, <1>10, <1>12, <1>14

(* A lost view is held by nobody, and a secret that ended gives no more.   *)
LEMMA LoseStep == ASSUME IInv, Lose PROVE IInv'
<1> USE DEF IInv
<1>1. PICK failed \in SUBSET Requests :
        holding' = [r \in Requests |-> IF r \in failed THEN NoView ELSE holding[r]]
  BY DEF Lose
<1>2. left' = left /\ created' = created /\ delivered' = delivered
  BY DEF Lose
<1>3. DOMAIN holding' = Requests /\ \A r \in Requests : holding'[r] # NoView => holding'[r] = holding[r]
  BY <1>1
<1>4. HoldingType'
  BY <1>3 DEF HoldingType, Holding
<1>5. AnsweredAbove' /\ UncreatedUntouched'
  BY <1>2, <1>3 DEF AnsweredAbove, UncreatedUntouched, Holding
<1>6. ViewsHandedOutOnce'
  BY <1>2, <1>3 DEF ViewsHandedOutOnce
<1> QED BY <1>2, <1>4, <1>5, <1>6

LEMMA ExpireStep == ASSUME IInv, Expire PROVE IInv'
<1> USE DEF IInv
<1>1. PICK over \in SUBSET Secrets :
        left' = [s \in Secrets |-> IF s \in over THEN 0 ELSE left[s]]
  BY DEF Expire
<1>2. holding' = holding /\ created' = created /\ delivered' = delivered
  BY DEF Expire
<1>3. left' \in [Secrets -> Nat]
  BY <1>1
<1>4. \A s \in Secrets : left'[s] \in Nat /\ left[s] \in Nat /\ left'[s] <= left[s]
  BY <1>1, <1>3
<1>5. HoldingType'
  BY <1>2 DEF HoldingType, Holding
<1>6. AnsweredAbove'
  <2>1. \A s \in Secrets : \A v \in delivered[s] : v \in Nat /\ v >= left[s]
    BY DEF AnsweredAbove
  <2> QED BY <2>1, <1>2, <1>4 DEF AnsweredAbove
<1>7. UncreatedUntouched'
  BY <1>1, <1>2 DEF UncreatedUntouched, Holding
<1>8. ASSUME NEW r \in Requests, Holding(r)
      PROVE holding[r].secret \in Secrets /\ holding[r].view \in Nat
  BY <1>8 DEF HoldingType, View
<1>9. ViewsHandedOutOnce'
  BY <1>2, <1>4, <1>8 DEF ViewsHandedOutOnce, Holding
<1> QED BY <1>2, <1>3, <1>5, <1>6, <1>7, <1>9

LEMMA NextPreserves == IInv /\ [Next]_vars => IInv'
<1> SUFFICES ASSUME IInv, [Next]_vars PROVE IInv'
  OBVIOUS
<1>1. CASE UNCHANGED vars
  BY <1>1 DEF vars, IInv, HoldingType, Holding, AnsweredAbove, UncreatedUntouched, ViewsHandedOutOnce
<1>2. ASSUME NEW s \in Secrets, Create(s) PROVE IInv'
  BY <1>2, CreateStep
<1>3. ASSUME NEW r \in Requests, NEW s \in Secrets, Take(r, s) PROVE IInv'
  BY <1>3, TakeStep
<1>4. ASSUME NEW r \in Requests, NEW s \in Secrets, Deliver(r, s) PROVE IInv'
  BY <1>4, DeliverStep
<1> QED
  BY <1>1, <1>2, <1>3, <1>4, LoseStep, ExpireStep DEF Next

(* A view handed out is handed out once: the promise the two stores are    *)
(* checked to implement (consumeMessageFromStorage, reserveFileDownload).  *)
THEOREM PromiseKept == Spec => []ViewsHandedOutOnce
<1>1. IInv => ViewsHandedOutOnce
  BY DEF IInv
<1> QED
  BY <1>1, InitEstablishes, NextPreserves, PTL DEF Spec
==============================================================================

------------------------------- MODULE Browser -------------------------------
(***************************************************************************)
(* The text pages of one profile together: a sender's form, the read pages *)
(* and the list, over one localStorage, with readers elsewhere.            *)
(*                                                                         *)
(* The list and the read pages meet in localStorage and in the service     *)
(* only, where a read elsewhere does what one in a tab does: the bound on  *)
(* open pages counts the list for two.                                     *)
(***************************************************************************)
EXTENDS ShareForm, ReadPage, MySecretsPage, FiniteSets

CONSTANT MaxOpen       \* bound on the read pages and lists open at a time

ASSUME BrowserAssumption == MaxOpen \in Nat /\ IsFiniteSet(Tabs)

vars == <<profileVars, formVars, readVars, listVars>>

granted == [s \in Secrets |-> send[s].setting.views]

TypeOK == ProfileTypeOK /\ FormTypeOK /\ ReadTypeOK /\ ListTypeOK

OpenPages ==
    Cardinality({t \in Tabs : tab[t].state # "closed"}) + (IF view.open THEN 2 ELSE 0)

Init == ProfileInit /\ FormInit /\ ReadInit /\ ListInit

Next ==
    \/ FormNext /\ UNCHANGED <<readVars, listVars>>
    \/ ReadNext /\ UNCHANGED <<formVars, listVars>> /\ OpenPages' <= MaxOpen
    \/ ListNext(granted) /\ UNCHANGED <<formVars, readVars>> /\ OpenPages' <= MaxOpen
    \/ /\ (Tick \/ \E s \in Secrets : SpentElsewhere(s))
       /\ UNCHANGED <<formVars, readVars, listVars>>

Spec == Init /\ [][Next]_vars

FairSpec ==
    /\ Spec
    /\ WF_vars((\E q \in polls : Poll(q, granted)) /\ UNCHANGED <<formVars, readVars>>)
    /\ WF_vars(TimerFires /\ UNCHANGED <<formVars, readVars>>)
------------------------------------------------------------------------------
(* A message is displayed on this device once for every view the service   *)
(* gave it and once more from the kept copy.                               *)
ShownOnceMoreAtMost ==
    \A s \in Secrets : shows[s] <= granted[s] + 1

(* A secret that is gone is called gone, or unknown, on a list that stays  *)
(* open and visible, however many polls fail.                              *)
RowsCatchUp ==
    \A s \in Secrets :
        (s \in Rows /\ send[s].phase = "done" /\ left[s] = 0)
            ~> (rows[s] \in {"consumed", "used", "unknown", Absent} \/ view.hidden)
==============================================================================

----------------------------- MODULE FileExchange -----------------------------
(***************************************************************************)
(* A file from one page to another: the upload page makes a link, the      *)
(* download page opens it, over one file service.                          *)
(***************************************************************************)
EXTENDS UploadPage, DownloadPage

CONSTANT Views         \* the number of downloads the sender allows

ASSUME ViewsAssumption == Views \in 1 .. MaxViews

vars == <<serviceVars, uploadVars, downloadVars>>

Links == {up[u].id : u \in {v \in Uploads : up[v].state \in {"made", "shown"}}}

TypeOK == ServiceTypeOK /\ UploadTypeOK /\ DownloadTypeOK

Init == ServiceInit /\ UploadInit /\ DownloadInit

Next ==
    \/ UploadNext(Views) /\ UNCHANGED downloadVars
    \/ DownloadNext(Links) /\ UNCHANGED uploadVars
    \/ \E f \in Links : SpentElsewhere(f) /\ UNCHANGED <<uploadVars, downloadVars>>

Spec == Init /\ [][Next]_vars

FairSpec ==
    /\ Spec
    /\ \A u \in Uploads : WF_vars(UploadStep(u, Views) /\ UNCHANGED downloadVars)
    /\ \A t \in Tabs : WF_vars(DownloadStep(t) /\ UNCHANGED uploadVars)
------------------------------------------------------------------------------
(* A click on either page ends, with a file, a link, a reason or a         *)
(* question, however its requests fail.                                    *)
TransfersEnd ==
    /\ \A u \in Uploads : Loading(u) ~> ~ Loading(u)
    /\ \A t \in Tabs : (tab[t].state \in Busy) ~> (tab[t].state \notin Busy)
==============================================================================

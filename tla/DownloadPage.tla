----------------------------- MODULE DownloadPage -----------------------------
(***************************************************************************)
(* The page that opens a file link (view-file.ts, fileApi.js): it takes a  *)
(* view, decrypts, and saves the file, a program only once that is         *)
(* confirmed.                                                              *)
(***************************************************************************)
EXTENDS FileService

CONSTANTS
    Tabs,
    Programs    \* the uploads whose file name is that of a program

ASSUME DownloadPageAssumption == Programs \subseteq Uploads

VARIABLES
    tab,        \* the page in each tab
    spent       \* history: the views each tab's last click took

downloadVars == <<tab, spent>>

Closed == [state |-> "closed", file |-> 0, prompt |-> FALSE, typed |-> FALSE,
           attempt |-> 0, net |-> "idle"]

Busy == {"downloading", "pausing", "decrypting"}

DownloadTypeOK ==
    /\ tab \in [Tabs ->
           [state : {"closed", "ready", "error", "gone", "program", "downloaded", "broken"} \cup Busy,
            file : 0 .. MaxFiles, prompt : BOOLEAN, typed : BOOLEAN, attempt : 0 .. 1,
            net : {"idle", "out", "ok", "damaged", "wrong key", "no message", "retry", "failed"}]]
    /\ spent \in [Tabs -> Nat]

DownloadInit ==
    /\ tab = [t \in Tabs |-> Closed]
    /\ spent = [t \in Tabs |-> 0]

(* File 0 stands for a link that was cut.                                  *)
isValidLinkToken(f) == f # 0

(* The extension of the file's name tells a program.                       *)
isProgramFile(f) == files[f].upload \in Programs

OpenFileLink(t, f) ==
    /\ tab[t].state = "closed"
    /\ tab' = [tab EXCEPT ![t] = [Closed EXCEPT
                   !.state = IF isValidLinkToken(f) THEN "ready" ELSE "broken", !.file = f]]
    /\ UNCHANGED <<spent, serviceVars>>

(* The page asks before it is left while a download runs; the user may     *)
(* leave all the same.                                                     *)
LeavePage(t) ==
    /\ tab[t].state # "closed"
    /\ tab' = [tab EXCEPT ![t] = Closed]
    /\ spent' = [spent EXCEPT ![t] = 0]
    /\ UNCHANGED serviceVars

TypePassphrase(t) ==
    /\ tab[t].state = "ready" /\ tab[t].prompt
    /\ tab' = [tab EXCEPT ![t].typed = ~ @]
    /\ UNCHANGED <<spent, serviceVars>>

Download(t) ==
    /\ tab[t].state \in {"ready", "error"}
    /\ tab' = [tab EXCEPT ![t].state = "downloading", ![t].net = "out", ![t].attempt = 0]
    /\ spent' = [spent EXCEPT ![t] = 0]
    /\ UNCHANGED <<serviceVars>>

(* The service refuses, collides with another read, or takes a view and    *)
(* streams the file.                                                       *)
FileAnswered(t) ==
    /\ tab[t].net = "out"
    /\ LET f == tab[t].file
       IN \/ /\ files[f].left = 0
             /\ tab' = [tab EXCEPT ![t].net = "no message"]
             /\ UNCHANGED <<files, spent>>
          \/ /\ files[f].left > 0 /\ ~ RightKey(f, tab[t].typed)
             /\ tab' = [tab EXCEPT ![t].net = "wrong key"]
             /\ UNCHANGED <<files, spent>>
          \/ /\ files[f].left > 0 /\ RightKey(f, tab[t].typed)
             /\ Take(f)
             /\ tab' = [tab EXCEPT ![t].net = "ok"]
             /\ spent' = [spent EXCEPT ![t] = @ + 1]
          \/ /\ files[f].left > 0
             /\ tab' = [tab EXCEPT ![t].net = "retry"]
             /\ UNCHANGED <<files, spent>>
    /\ UNCHANGED <<chunked, received, published, locked>>

(* The request or the answer is lost or replaced, or what arrives is not   *)
(* what was stored.                                                        *)
DownloadFails(t) ==
    /\ tab[t].net \in {"out", "ok", "wrong key", "no message", "retry"}
    /\ \E net \in {"failed"} \cup (IF tab[t].net = "ok" THEN {"damaged"} ELSE {}) :
          tab' = [tab EXCEPT ![t].net = net]
    /\ UNCHANGED <<spent, serviceVars>>

(* Mutant: a network failure is repeated as well.                          *)
safeOrLost(net) == net \in {"retry", "failed"}

safeToRetry(net) == net = "retry"

PauseDownload(t) ==
    /\ safeToRetry(tab[t].net) /\ tab[t].attempt = 0
    /\ tab' = [tab EXCEPT ![t].state = "pausing", ![t].net = "idle", ![t].attempt = 1]
    /\ UNCHANGED <<spent, serviceVars>>

DownloadAgain(t) ==
    /\ tab[t].state = "pausing"
    /\ tab' = [tab EXCEPT ![t].state = "downloading", ![t].net = "out"]
    /\ UNCHANGED <<spent, serviceVars>>

(* setPhase('idle') and showOnly: another section takes the page.          *)
Rest(t, state) == [tab[t] EXCEPT !.state = state, !.net = "idle", !.attempt = 0]

DownloadRefused(t) ==
    /\ tab[t].net \in {"no message", "wrong key", "failed", "retry"}
    /\ ~ (safeToRetry(tab[t].net) /\ tab[t].attempt = 0)
    /\ tab' = [tab EXCEPT ![t] =
           CASE tab[t].net = "no message" -> [Closed EXCEPT !.state = "gone", !.file = tab[t].file]
             [] tab[t].net = "wrong key" -> [Rest(t, "ready") EXCEPT !.prompt = TRUE]
             [] OTHER -> [Rest(t, "error") EXCEPT !.prompt = FALSE]]
    /\ UNCHANGED <<spent, serviceVars>>

Arrived(t) ==
    /\ tab[t].net \in {"ok", "damaged"} /\ tab[t].state = "downloading"
    /\ tab' = [tab EXCEPT ![t].state = "decrypting"]
    /\ UNCHANGED <<spent, serviceVars>>

(* What is authenticated is what was encrypted, with its meta data in front. *)
Decrypts(t) == tab[t].net = "ok" /\ decryptFile(tab[t].file, tab[t].typed)

DecryptFails(t) ==
    /\ tab[t].state = "decrypting" /\ ~ Decrypts(t)
    /\ tab' = [tab EXCEPT ![t] = [Rest(t, "error") EXCEPT !.prompt = FALSE]]
    /\ UNCHANGED <<spent, serviceVars>>

(* The file is saved at once, but a program waits in memory.               *)
Decrypted(t) ==
    /\ tab[t].state = "decrypting" /\ Decrypts(t)
    /\ tab' = [tab EXCEPT ![t] =
           Rest(t, IF isProgramFile(tab[t].file) THEN "program" ELSE "downloaded")]
    /\ UNCHANGED <<spent, serviceVars>>

(* The confirmation, or saving again a file the page still holds.          *)
SaveHeld(t) ==
    /\ tab[t].state \in {"program", "downloaded"}
    /\ tab' = [tab EXCEPT ![t].state = "downloaded"]
    /\ UNCHANGED <<spent, serviceVars>>

DownloadStep(t) ==
    \/ FileAnswered(t) \/ DownloadFails(t)
    \/ PauseDownload(t) \/ DownloadAgain(t)
    \/ DownloadRefused(t) \/ Arrived(t) \/ DecryptFails(t) \/ Decrypted(t)

DownloadNext(links) ==
    \/ \E t \in Tabs, f \in links \cup {0} : OpenFileLink(t, f)
    \/ \E t \in Tabs : LeavePage(t) \/ TypePassphrase(t) \/ Download(t) \/ DownloadStep(t) \/ SaveHeld(t)
------------------------------------------------------------------------------
(* A click, its repetition included, spends one view at most; and a click  *)
(* that spent one never ends in "gone" nor in a prompt for a passphrase:   *)
(* whatever fails after the view is an error, not "already read".  (The    *)
(* next click may well find the file gone: the view was spent.)            *)
OneViewPerDownload ==
    \A t \in Tabs :
        /\ spent[t] <= 1
        /\ tab[t].state = "gone" => spent[t] = 0 /\ files[tab[t].file].left = 0
        /\ tab[t].state = "ready" => spent[t] = 0
==============================================================================

------------------------------ MODULE UploadPage ------------------------------
(***************************************************************************)
(* The page that turns a file into a link (secure-file-share.ts) and the   *)
(* upload loop under it (fileUpload.js): one slice after another, each     *)
(* tried a few times, although a request that seemed to fail may have been *)
(* executed or may be executed yet.                                        *)
(***************************************************************************)
EXTENDS FileService

CONSTANT MaxAttempts   \* CHUNK_MAX_ATTEMPTS

ASSUME UploadPageAssumption == MaxAttempts \in Nat \ {0}

VARIABLES
    chosen,     \* the page: whether a file is selected and the button enabled
    up,         \* each upload of the page
    late,       \* requests given up that the service may execute yet
    onPage      \* Form, or the upload whose link replaced the form

uploadVars == <<chosen, up, late, onPage>>

Form == "form"

NoUpload == [state |-> "new", index |-> 0, whole |-> FALSE, attempt |-> 0,
             net |-> "idle", id |-> 0]

UploadStates == {"new", "encrypting", "sending", "waiting", "made", "shown", "failed"}

UploadTypeOK ==
    /\ chosen \in [file : BOOLEAN, enabled : BOOLEAN]
    /\ up \in [Uploads -> [state : UploadStates, index : 0 .. Slices - 1, whole : BOOLEAN,
                           attempt : 0 .. MaxAttempts - 1,
                           net : {"idle", "out", "ok", "refused", "failed"}, id : 0 .. MaxFiles]]
    /\ late \subseteq Request
    /\ onPage \in Uploads \cup {Form}

UploadInit ==
    /\ chosen = [file |-> FALSE, enabled |-> FALSE]
    /\ up = [u \in Uploads |-> NoUpload]
    /\ late = {}
    /\ onPage = Form

Loading(u) == up[u].state \in {"encrypting", "sending", "waiting"}

(* updateSubmit: a file, and nothing under way.                            *)
updateSubmit(file, loading) == chosen' = [file |-> file, enabled |-> file /\ ~ loading]

(* A file of the right size is selected, or the selection is cleared: by   *)
(* the remove button or by a file that is too large.                       *)
selectFile(file) ==
    /\ onPage = Form
    /\ file # chosen.file \/ ~ chosen.enabled
    /\ \E u \in Uploads : up[u].state = "new" \/ Loading(u)
    /\ updateSubmit(file, \E u \in Uploads : Loading(u))
    /\ UNCHANGED <<up, late, onPage, serviceVars>>

SubmitFile(u, withPassphrase) ==
    /\ onPage = Form /\ chosen.enabled
    /\ up[u].state = "new"
    /\ up' = [up EXCEPT ![u].state = "encrypting"]
    /\ updateSubmit(chosen.file, TRUE)
    /\ locked' = IF withPassphrase THEN locked \cup {u} ELSE locked
    /\ UNCHANGED <<late, onPage, chunked, received, published, files>>

Fail(u) ==
    /\ up' = [up EXCEPT ![u] = [NoUpload EXCEPT !.state = "failed"]]
    /\ updateSubmit(chosen.file, FALSE)
    /\ UNCHANGED <<late, onPage, serviceVars>>

(* The file changed while it was read: packFile gives up.                  *)
EncryptFails(u) == up[u].state = "encrypting" /\ Fail(u)

Send(u, r) == up' = [up EXCEPT ![u] = [r EXCEPT !.state = "sending", !.net = "out"]]

encryptFile(u) ==
    /\ up[u].state = "encrypting"
    /\ Send(u, up[u])
    /\ UNCHANGED <<chosen, late, onPage, serviceVars>>

(* The request of an upload: a slice, or the whole file.                   *)
RequestOf(u) == [upload |-> u, index |-> up[u].index, whole |-> up[u].whole]

SliceAnswered(u, views) ==
    /\ up[u].net = "out"
    /\ Len(files) < MaxFiles
    /\ Serve(RequestOf(u), views)
    /\ up' = [up EXCEPT ![u].net = "ok", ![u].id = AnswerId(RequestOf(u))]
    /\ UNCHANGED <<chosen, late, onPage, chunked, locked>>

(* A status that is no reason to try again, an error body, or no JSON.     *)
SliceRefused(u) ==
    /\ up[u].net = "out"
    /\ up' = [up EXCEPT ![u].net = "refused"]
    /\ UNCHANGED <<chosen, late, onPage, serviceVars>>

(* A network error, a stalled body or a retryable status, which may come   *)
(* before, after or without the execution of the request.                  *)
SliceFails(u) ==
    /\ up[u].net \in {"out", "ok"}
    /\ up' = [up EXCEPT ![u].net = "failed", ![u].id = 0]
    /\ late' \in {late, late \cup (IF up[u].net = "out" THEN {RequestOf(u)} ELSE {})}
    /\ UNCHANGED <<chosen, onPage, serviceVars>>

LateRequest(q, views) ==
    /\ q \in late
    /\ Len(files) < MaxFiles
    /\ late' = late \ {q}
    /\ Serve(q, views)
    /\ UNCHANGED <<chosen, up, onPage, chunked, locked>>

MayRetry(u) == up[u].attempt < MaxAttempts - 1

(* Mutant: a slice that fails is answered with the whole file.             *)
RetryWithWhole(u) ==
    /\ up[u].net = "failed" /\ MayRetry(u)
    /\ up' = [up EXCEPT ![u].state = "waiting", ![u].net = "idle", ![u].attempt = @ + 1,
                        ![u].whole = TRUE]
    /\ UNCHANGED <<chosen, late, onPage, serviceVars>>

(* Mutant: attempts are not counted.                                       *)
RetryUncounted(u) ==
    /\ up[u].net = "failed" /\ MayRetry(u)
    /\ up' = [up EXCEPT ![u].state = "waiting", ![u].net = "idle"]
    /\ UNCHANGED <<chosen, late, onPage, serviceVars>>

RetrySlice(u) ==
    /\ up[u].net = "failed" /\ MayRetry(u)
    /\ up' = [up EXCEPT ![u].state = "waiting", ![u].net = "idle", ![u].attempt = @ + 1]
    /\ UNCHANGED <<chosen, late, onPage, serviceVars>>

Resend(u) ==
    /\ up[u].state = "waiting"
    /\ Send(u, up[u])
    /\ UNCHANGED <<chosen, late, onPage, serviceVars>>

GiveUp(u) ==
    /\ up[u].net = "refused" \/ (up[u].net = "failed" /\ ~ MayRetry(u))
    /\ Fail(u)

(* The answer to a slice that is not the last has no id, except from a     *)
(* server that took the slice for a file: then the whole file is sent.     *)
Early(u) == up[u].index < Slices - 1 /\ ~ up[u].whole

(* Mutant: an id that comes too early is overlooked.                       *)
NextSliceBlind(u) ==
    /\ up[u].net = "ok" /\ Early(u)
    /\ Send(u, [up[u] EXCEPT !.index = @ + 1, !.attempt = 0, !.id = 0])
    /\ UNCHANGED <<chosen, late, onPage, serviceVars>>

NextSlice(u) ==
    /\ up[u].net = "ok" /\ Early(u)
    /\ Send(u, IF up[u].id # 0 THEN [up[u] EXCEPT !.whole = TRUE, !.attempt = 0, !.id = 0]
                               ELSE [up[u] EXCEPT !.index = @ + 1, !.attempt = 0])
    /\ UNCHANGED <<chosen, late, onPage, serviceVars>>

LastAnswered(u) ==
    /\ up[u].net = "ok" /\ ~ Early(u)
    /\ up' = [up EXCEPT ![u] = [NoUpload EXCEPT !.state = "made", !.id = up[u].id]]
    /\ UNCHANGED <<chosen, late, onPage, serviceVars>>

(* showLinkReady, after its styles: the form may be gone from the page.    *)
ShowFileLink(u) ==
    /\ up[u].state = "made"
    /\ up' = [up EXCEPT ![u].state = "shown"]
    /\ onPage' = IF onPage = Form THEN u ELSE onPage
    /\ UNCHANGED <<chosen, late, serviceVars>>

ResetUpload ==
    /\ onPage # Form
    /\ onPage' = Form
    /\ updateSubmit(FALSE, FALSE)
    /\ UNCHANGED <<up, late, serviceVars>>

UploadStep(u, views) ==
    \/ EncryptFails(u) \/ encryptFile(u)
    \/ SliceAnswered(u, views) \/ SliceRefused(u) \/ SliceFails(u)
    \/ RetrySlice(u) \/ Resend(u) \/ GiveUp(u)
    \/ NextSlice(u) \/ LastAnswered(u) \/ ShowFileLink(u)

UploadNext(views) ==
    \/ \E file \in BOOLEAN : selectFile(file)
    \/ \E u \in Uploads, p \in BOOLEAN : SubmitFile(u, p)
    \/ \E u \in Uploads : UploadStep(u, views)
    \/ \E q \in late : LateRequest(q, views)
    \/ ResetUpload
------------------------------------------------------------------------------
(* "The link cannot exist before every slice is stored": the link of an    *)
(* upload names a file with all of its bytes, whatever was sent twice and  *)
(* whichever kind of server took it.                                       *)
LinkNamesTheWholeFile ==
    \A u \in Uploads : up[u].state \in {"made", "shown"} =>
        /\ up[u].id \in 1 .. Len(files)
        /\ files[up[u].id].whole
        /\ files[up[u].id].upload = u

(* However often slices are repeated, early or late, a server that knows   *)
(* slices stores one file for an upload.                                   *)
OneFilePerUpload ==
    chunked => \A i, j \in 1 .. Len(files) :
        files[i].upload = files[j].upload => i = j
==============================================================================

------------------------------ MODULE FileStore ------------------------------
(***************************************************************************)
(* The files of 1time.io: the single-request upload of POST /api/saveFile, *)
(* the downloads of POST /api/getFile and the janitor                      *)
(* (backend/handlers.go, backend/storage.go).                              *)
(*                                                                         *)
(* A file is a record in Redis and a blob in a directory.  They are made   *)
(* and removed by separate steps: a download opens the blob before it      *)
(* takes a view and the last one unlinks it, and a sweep removes each blob *)
(* whose mtime, set to the end of the lifetime, has passed.  One action is *)
(* one Redis command or one file operation.                                *)
(***************************************************************************)
EXTENDS ReadTokens, FiniteSets

CONSTANTS
    Readers,        \* concurrent callers of /api/getFile
    Ids,            \* the ids generateStorageID draws from
    IdsRepeat,      \* whether an id that was drawn is ever drawn again
    RequestViews,   \* what clients put in the views field
    RequestDurations,       \* what clients put in the duration field
    MaxStorageIDAttempts,   \* maxStorageIDAttempts: 5
    RetryWindow,    \* consumeMessageRetryWindow, in clock units
    MaxTime         \* bound of the clock, for TLC

ASSUME FileAssumption ==
    /\ IdsRepeat \in BOOLEAN
    /\ RequestViews \subseteq Int
    /\ RequestDurations \subseteq Int
    /\ MaxStorageIDAttempts \in Nat /\ MaxStorageIDAttempts >= 1
    /\ RetryWindow \in Nat
    /\ MaxTime \in Nat

VARIABLES
    db,         \* Redis: the record under fileKey<id>
    blob,       \* the directory: the blob <id>.enc
    now,        \* the clock of both hosts
    drawn,      \* the ids drawn so far
    up,         \* the upload request of each client
    reader,     \* the download request of each reader
    dirty,      \* the readers whose watched key was written by another
    sweep,      \* the janitor's pass over the directory
    taken,      \* ghost: the views of each file that a commit took
    delivered   \* ghost: the views of each file streamed to the end

vars == <<db, blob, now, drawn, up, reader, dirty, sweep, taken, delivered>>

NoId == "no id"

ASSUME NoIdAssumption == NoId \notin Ids

Records ==
    [save : Saves, key : StoredKeys, version : {LegacyScheme, SchemeV3},
     views : 0 .. MaxViews, deadline : Nat]

NoRecord ==
    [save |-> NoSave, key |-> Empty, version |-> LegacyScheme, views |-> 0, deadline |-> 0]

(* A blob holds the bytes of one upload, all of them or a part.            *)
Blobs == [save : Saves, whole : BOOLEAN, mtime : Nat]

NoBlob == [save |-> NoSave, whole |-> FALSE, mtime |-> 0]

Live(id) == db[id] # NoRecord /\ now <= db[id].deadline

(* A write to a key spoils the transaction of every other reader that is   *)
(* watching it.                                                            *)
Watching == {"get", "open", "pttl", "set", "del", "stale"}

Touch(id, by) ==
    dirty' = dirty \cup {r \in Readers \ by : reader[r].pc \in Watching /\ reader[r].id = id}

NoRequest ==
    [pc |-> "idle", id |-> NoId, key |-> Empty, cur |-> NoRecord, fd |-> NoBlob,
     ttl |-> 0, start |-> 0, view |-> 0, status |-> "none", took |-> 0]

(* What the client was told: "ok" of a stream that came to its end, else   *)
(* "error" when it broke off.                                              *)
Answered(r, status) ==
    /\ reader' = [reader EXCEPT ![r] = [NoRequest EXCEPT !.status = status]]
    /\ dirty' = dirty \ {r}

(* The answer of a request that fails now.  The last download has been     *)
(* answered when it comes to remove the blob.                              *)
Outcome(q) == IF q.pc = "unlink" THEN q.status ELSE "error"

NewUpload ==
    [pc |-> "new", key |-> Empty, version |-> LegacyScheme, views |-> 0,
     duration |-> 0, attempts |-> 0, id |-> NoId, expires |-> 0, deadline |-> 0]

(* The handler returned.  Of its variables only those that properties and  *)
(* the refinement speak of are kept.                                       *)
Returned(u, outcome) ==
    [NewUpload EXCEPT !.pc = outcome, !.views = u.views, !.id = u.id,
                      !.expires = u.expires, !.deadline = u.deadline]

Resting == [pc |-> "rest", at |-> 0, todo |-> {}, doomed |-> NoId, seen |-> 0]

Init ==
    /\ db = [id \in Ids |-> NoRecord]
    /\ blob = [id \in Ids |-> NoBlob]
    /\ now = 0
    /\ drawn = {}
    /\ up = [s \in Saves |-> NewUpload]
    /\ reader = [r \in Readers |-> NoRequest]
    /\ dirty = {}
    /\ sweep = Resting
    /\ taken = [s \in Saves |-> {}]
    /\ delivered = [s \in Saves |-> {}]
------------------------------------------------------------------------------
(* Uploading a file in one request.                                        *)

uploadOnly == <<now, reader, sweep, taken, delivered>>

(* The form is parsed; views and duration are forced into range.           *)
UploadRequest(s) ==
    /\ up[s].pc = "new"
    /\ \E form \in SaveForms(s), views \in RequestViews, duration \in RequestDurations :
          up' = [up EXCEPT ![s] =
                   IF SchemeAccepted(form)
                   THEN [NewUpload EXCEPT !.pc = "create",
                                          !.key = SchemeStored(form),
                                          !.version = form.v,
                                          !.views = ClampViews(views),
                                          !.duration = ClampDuration(duration)]
                   ELSE [NewUpload EXCEPT !.pc = "error"]]
    /\ UNCHANGED <<db, blob, drawn, dirty>> /\ UNCHANGED uploadOnly

(* What the loop over ids does next once an id turned out to be taken.     *)
AnotherId(u) ==
    IF u.attempts + 1 < MaxStorageIDAttempts
    THEN [u EXCEPT !.attempts = @ + 1, !.id = NoId, !.expires = 0, !.pc = "create"]
    ELSE Returned([u EXCEPT !.id = NoId], "error")

(* An attempt: the lifetime starts here, a fresh id is drawn and its blob  *)
(* is created, unless there is one already.                                *)
UploadCreate(s, id) ==
    /\ up[s].pc = "create"
    /\ IdsRepeat \/ id \notin drawn
    /\ drawn' = drawn \cup {id}
    /\ IF blob[id] # NoBlob
       THEN /\ up' = [up EXCEPT ![s] = AnotherId(@)]
            /\ UNCHANGED blob
       ELSE /\ up' = [up EXCEPT ![s].pc = "copy", ![s].id = id,
                                ![s].expires = now + up[s].duration]
            /\ blob' = [blob EXCEPT ![id] = [save |-> s, whole |-> FALSE, mtime |-> now]]
    /\ UNCHANGED <<db, dirty>> /\ UNCHANGED uploadOnly

(* The bytes go to the open file, which is in the directory unless it was  *)
(* removed meanwhile.                                                      *)
UploadCopy(s) ==
    LET id == up[s].id IN
    /\ up[s].pc = "copy"
    /\ up' = [up EXCEPT ![s].pc = "chtimes"]
    /\ blob' = IF blob[id].save = s
               THEN [blob EXCEPT ![id].whole = TRUE, ![id].mtime = now] ELSE blob
    /\ UNCHANGED <<db, drawn, dirty>> /\ UNCHANGED uploadOnly

(* Chtimes works on the path: it fails when the blob is gone.              *)
UploadChtimes(s) ==
    LET id == up[s].id IN
    /\ up[s].pc = "chtimes"
    /\ IF blob[id] = NoBlob
       THEN /\ up' = [up EXCEPT ![s].pc = "undo"]
            /\ UNCHANGED blob
       ELSE /\ up' = [up EXCEPT ![s].pc = "setnx"]
            /\ blob' = [blob EXCEPT ![id].mtime = up[s].expires]
    /\ UNCHANGED <<db, drawn, dirty>> /\ UNCHANGED uploadOnly

(* SETNX of the record, with a lifetime that starts now.                   *)
UploadSetNX(s) ==
    LET id == up[s].id IN
    /\ up[s].pc = "setnx"
    /\ IF Live(id)
       THEN /\ up' = [up EXCEPT ![s].pc = "redo"]
            /\ UNCHANGED <<db, dirty>>
       ELSE /\ up' = [up EXCEPT ![s].pc = "stored", ![s].deadline = now + up[s].duration]
            /\ db' = [db EXCEPT ![id] = [save     |-> s,
                                         key      |-> up[s].key,
                                         version  |-> up[s].version,
                                         views    |-> StoredViews(up[s].views),
                                         deadline |-> now + up[s].duration]]
            /\ Touch(id, {})
    /\ UNCHANGED <<blob, drawn>> /\ UNCHANGED uploadOnly

(* The blob is removed again: the id was taken (another one is drawn) or   *)
(* something failed (the answer is "error").                               *)
UploadUndo(s) ==
    /\ up[s].pc \in {"redo", "undo"}
    /\ up' = [up EXCEPT ![s] = IF up[s].pc = "redo" THEN AnotherId(@)
                               ELSE Returned(@, "error")]
    /\ blob' = [blob EXCEPT ![up[s].id] = NoBlob]
    /\ UNCHANGED <<db, drawn, dirty>> /\ UNCHANGED uploadOnly

UploadAnswer(s) ==
    /\ up[s].pc = "stored"
    /\ up' = [up EXCEPT ![s] = Returned(@, "ok")]
    /\ UNCHANGED <<db, blob, drawn, dirty>> /\ UNCHANGED uploadOnly

(* A file operation or SETNX fails, or the reply of SETNX is lost.  There  *)
(* is no blob to remove only if it could not be created.                   *)
UploadFailed(s) ==
    /\ up[s].pc \in {"create", "copy", "chtimes", "setnx", "stored"}
    /\ up' = [up EXCEPT ![s] = IF up[s].pc = "create" THEN Returned(@, "error")
                               ELSE [@ EXCEPT !.pc = "undo"]]
    /\ UNCHANGED <<db, blob, drawn, dirty>> /\ UNCHANGED uploadOnly
------------------------------------------------------------------------------
(* Downloading a file.                                                     *)

readOnly == <<now, drawn, up, sweep>>

(* apiGetFile answers an id or a key of the wrong shape at once with an    *)
(* error, which changes nothing here.                                      *)
ReadRequest(r) ==
    /\ reader[r].pc = "idle"
    /\ \E id \in Ids, key \in PresentedKeys :
          /\ IsValidHashedKey(key)
          /\ reader' = [reader EXCEPT ![r] =
                [NoRequest EXCEPT !.pc = "watch", !.id = id, !.key = key, !.start = now]]
    /\ UNCHANGED <<db, blob, dirty, taken, delivered>> /\ UNCHANGED readOnly

ReadWatch(r) ==
    /\ reader[r].pc = "watch"
    /\ reader' = [reader EXCEPT ![r].pc = "get"]
    /\ UNCHANGED <<db, blob, dirty, taken, delivered>> /\ UNCHANGED readOnly

ReadGet(r) ==
    LET current == db[reader[r].id] IN
    /\ reader[r].pc = "get"
    /\ IF ~Live(reader[r].id)
       THEN Answered(r, "no message")
       ELSE IF ~TokenMatchesStored(current.key, current.version, reader[r].key)
       THEN Answered(r, "wrong key")
       ELSE /\ reader' = [reader EXCEPT ![r].cur = current, ![r].pc = "open"]
            /\ UNCHANGED dirty
    /\ UNCHANGED <<db, blob, taken, delivered>> /\ UNCHANGED readOnly

(* Mutant: every failure to open counts as a missing blob.                 *)
ReadOpenOrStale(r) ==
    LET found == blob[reader[r].id] IN
    /\ reader[r].pc = "open"
    /\ \E failed \in BOOLEAN :
          reader' = [reader EXCEPT ![r].fd = found,
                                   ![r].pc = IF found = NoBlob \/ failed THEN "stale"
                                             ELSE IF reader[r].cur.views > 1 THEN "pttl"
                                             ELSE "del"]
    /\ UNCHANGED <<db, blob, dirty, taken, delivered>> /\ UNCHANGED readOnly

(* The blob is opened before the view is taken; the descriptor keeps its   *)
(* bytes readable whatever happens to the path.                            *)
ReadOpen(r) ==
    LET found == blob[reader[r].id] IN
    /\ reader[r].pc = "open"
    /\ reader' = [reader EXCEPT ![r].fd = found,
                                ![r].pc = IF found = NoBlob THEN "stale"
                                          ELSE IF reader[r].cur.views > 1 THEN "pttl"
                                          ELSE "del"]
    /\ UNCHANGED <<db, blob, dirty, taken, delivered>> /\ UNCHANGED readOnly

ReadPTTL(r) ==
    LET id == reader[r].id
        ttl == IF Live(id) THEN db[id].deadline - now ELSE -2 IN
    /\ reader[r].pc = "pttl"
    /\ reader' = [reader EXCEPT ![r].ttl = IF ttl > 0 THEN ttl ELSE 0,
                                 ![r].pc = IF ttl > 0 THEN "set" ELSE "del"]
    /\ UNCHANGED <<db, blob, dirty, taken, delivered>> /\ UNCHANGED readOnly

(* Redis runs EXEC only if the watched key is as it was.                   *)
ExecAllowed(r) == r \notin dirty /\ Live(reader[r].id)

(* Mutant: the blob is opened once the view is taken.                      *)
TakeViewThenOpen(r, view) ==
    /\ taken' = [taken EXCEPT ![reader[r].cur.save] = @ \cup {view}]
    /\ reader' = [reader EXCEPT ![r].pc = "committed", ![r].view = view,
                                ![r].key = Empty, ![r].ttl = 0, ![r].start = 0,
                                ![r].took = @ + 1, ![r].fd = blob[reader[r].id]]
    /\ Touch(reader[r].id, {r})
    /\ UNCHANGED <<blob, delivered>> /\ UNCHANGED readOnly

(* From here on only the descriptor, the record and the view matter.       *)
TakeView(r, view) ==
    /\ taken' = [taken EXCEPT ![reader[r].cur.save] = @ \cup {view}]
    /\ reader' = [reader EXCEPT ![r].pc = "committed", ![r].view = view,
                                ![r].key = Empty, ![r].ttl = 0, ![r].start = 0,
                                ![r].took = @ + 1]
    /\ Touch(reader[r].id, {r})
    /\ UNCHANGED <<blob, delivered>> /\ UNCHANGED readOnly

(* Mutant: SET without WATCH.                                              *)
ReadSetUnwatched(r) ==
    LET id == reader[r].id
        updated == [reader[r].cur EXCEPT !.views = @ - 1, !.deadline = now + reader[r].ttl] IN
    /\ reader[r].pc = "set"
    /\ db' = [db EXCEPT ![id] = updated]
    /\ TakeView(r, updated.views)

ReadExecSet(r) ==
    LET id == reader[r].id
        updated == [reader[r].cur EXCEPT !.views = @ - 1, !.deadline = now + reader[r].ttl] IN
    /\ reader[r].pc = "set"
    /\ ExecAllowed(r)
    /\ db' = [db EXCEPT ![id] = updated]
    /\ TakeView(r, updated.views)

ReadExecDel(r) ==
    /\ reader[r].pc = "del"
    /\ ExecAllowed(r)
    /\ db' = [db EXCEPT ![reader[r].id] = NoRecord]
    /\ TakeView(r, 0)

(* A record without a blob is deleted rather than reported live for ever.  *)
(* The reply of this EXEC may be lost as well.                             *)
ReadExecStale(r) ==
    LET id == reader[r].id IN
    /\ reader[r].pc = "stale"
    /\ ExecAllowed(r)
    /\ db' = [db EXCEPT ![id] = NoRecord]
    /\ \E status \in {"no message", "error"} :
          reader' = [reader EXCEPT ![r] = [NoRequest EXCEPT !.status = status]]
    /\ dirty' = (dirty \ {r}) \cup
                {q \in Readers \ {r} : reader[q].pc \in Watching /\ reader[q].id = id}
    /\ UNCHANGED <<blob, taken, delivered>> /\ UNCHANGED readOnly

(* EXEC refused: the descriptor is closed and the read starts over.        *)
ReadRefused(r) ==
    /\ reader[r].pc \in {"set", "del", "stale"}
    /\ ~ExecAllowed(r)
    /\ IF now - reader[r].start >= RetryWindow
       THEN Answered(r, "retry")
       ELSE /\ reader' = [reader EXCEPT ![r].pc = "watch", ![r].cur = NoRecord,
                                        ![r].fd = NoBlob, ![r].ttl = 0]
            /\ dirty' = dirty \ {r}
    /\ UNCHANGED <<db, blob, taken, delivered>> /\ UNCHANGED readOnly

StreamStatus(complete) == IF complete THEN "ok" ELSE "error"

(* The last view goes on to unlink the blob, whether the stream came to    *)
(* its end or not.                                                         *)
StreamEnds(r, status) ==
    IF reader[r].view = 0
    THEN /\ reader' = [reader EXCEPT ![r].pc = "unlink", ![r].status = status]
         /\ UNCHANGED dirty
    ELSE Answered(r, status)

(* Mutant: the blob is unlinked after every download.                      *)
ReadStreamUnlinks(r) ==
    LET s == reader[r].cur.save IN
    /\ reader[r].pc = "committed"
    /\ \E complete \in BOOLEAN :
          /\ reader' = [reader EXCEPT ![r].pc = "unlink", ![r].status = StreamStatus(complete)]
          /\ delivered' = IF complete THEN [delivered EXCEPT ![s] = @ \cup {reader[r].view}]
                          ELSE delivered
    /\ UNCHANGED dirty
    /\ UNCHANGED <<db, blob, taken>> /\ UNCHANGED readOnly

(* Mutant: a download that breaks off gives its view back.                 *)
ReadStreamRefunds(r) ==
    LET s == reader[r].cur.save IN
    /\ reader[r].pc = "committed"
    /\ \E complete \in BOOLEAN :
          /\ delivered' = IF complete THEN [delivered EXCEPT ![s] = @ \cup {reader[r].view}]
                          ELSE delivered
          /\ db' = IF complete THEN db ELSE [db EXCEPT ![reader[r].id] = reader[r].cur]
          /\ StreamEnds(r, StreamStatus(complete))
    /\ UNCHANGED <<blob, taken>> /\ UNCHANGED readOnly

(* The reply of EXEC arrives and the blob is streamed, perhaps not to the  *)
(* end.                                                                    *)
ReadStream(r) ==
    LET s == reader[r].cur.save IN
    /\ reader[r].pc = "committed"
    /\ \E complete \in BOOLEAN :
          /\ StreamEnds(r, StreamStatus(complete))
          /\ delivered' = IF complete THEN [delivered EXCEPT ![s] = @ \cup {reader[r].view}]
                          ELSE delivered
    /\ UNCHANGED <<db, blob, taken>> /\ UNCHANGED readOnly

ReadUnlink(r) ==
    /\ reader[r].pc = "unlink"
    /\ Answered(r, reader[r].status)
    /\ blob' = [blob EXCEPT ![reader[r].id] = NoBlob]
    /\ UNCHANGED <<db, taken, delivered>> /\ UNCHANGED readOnly

(* Mutant: watchWithRetry also repeats after an error that is not TxFailed. *)
ReadFailedRetried(r) ==
    /\ reader[r].pc # "idle"
    /\ reader' = [reader EXCEPT ![r].pc = "watch"]
    /\ dirty' = dirty \ {r}
    /\ UNCHANGED <<db, blob, taken, delivered>> /\ UNCHANGED readOnly

(* A command or the open fails, the reply of EXEC is lost, or the blob     *)
(* cannot be removed (which is only logged).                               *)
ReadFailed(r) ==
    /\ reader[r].pc # "idle"
    /\ Answered(r, Outcome(reader[r]))
    /\ UNCHANGED <<db, blob, taken, delivered>> /\ UNCHANGED readOnly
------------------------------------------------------------------------------
(* The janitor.                                                            *)

sweepOnly == <<db, now, drawn, up, reader, dirty, taken, delivered>>

(* Mutant: every sweep compares with the time the server was started.      *)
SweepStartedOnce ==
    /\ sweep.pc = "rest"
    /\ sweep' = [Resting EXCEPT !.pc = "scan", !.todo = {id \in Ids : blob[id] # NoBlob}]
    /\ UNCHANGED blob /\ UNCHANGED sweepOnly

(* At start-up and every fileJanitorInterval: the time of the sweep is     *)
(* fixed here and so is the list of names.                                 *)
SweepStart ==
    /\ sweep.pc = "rest"
    /\ sweep' = [Resting EXCEPT !.pc = "scan", !.at = now,
                                !.todo = {id \in Ids : blob[id] # NoBlob}]
    /\ UNCHANGED blob /\ UNCHANGED sweepOnly

(* Stat of the next name.  A blob that disappeared since ReadDir is an     *)
(* error that ends the sweep.                                              *)
SweepInfo(id) ==
    /\ sweep.pc = "scan" /\ sweep.doomed = NoId
    /\ id \in sweep.todo
    /\ sweep' = IF blob[id] = NoBlob THEN Resting
                ELSE IF blob[id].mtime > sweep.at
                THEN [sweep EXCEPT !.todo = @ \ {id}]
                ELSE [sweep EXCEPT !.todo = @ \ {id}, !.doomed = id, !.seen = blob[id].mtime]
    /\ UNCHANGED blob /\ UNCHANGED sweepOnly

SweepRemove ==
    /\ sweep.pc = "scan" /\ sweep.doomed # NoId
    /\ blob' = [blob EXCEPT ![sweep.doomed] = NoBlob]
    /\ sweep' = [sweep EXCEPT !.doomed = NoId, !.seen = 0]
    /\ UNCHANGED sweepOnly

(* The list is done, or ReadDir, Info or Remove failed.                    *)
SweepEnd ==
    /\ sweep.pc = "scan"
    /\ sweep.todo = {} /\ sweep.doomed = NoId
    /\ sweep' = Resting
    /\ UNCHANGED blob /\ UNCHANGED sweepOnly

SweepFailed ==
    /\ sweep.pc = "scan"
    /\ sweep' = Resting
    /\ UNCHANGED blob /\ UNCHANGED sweepOnly
------------------------------------------------------------------------------
(* The server stops: what is in flight ends, nothing is cleaned up.        *)
ServerCrash ==
    /\ up' = [s \in Saves |-> IF up[s].pc \in {"new", "ok", "error"} THEN up[s]
                               ELSE Returned(up[s], "error")]
    /\ reader' = [r \in Readers |-> IF reader[r].pc = "idle" THEN reader[r]
                     ELSE [NoRequest EXCEPT !.status = Outcome(reader[r])]]
    /\ dirty' = {}
    /\ sweep' = Resting
    /\ UNCHANGED <<db, blob, now, drawn, taken, delivered>>

Tick ==
    /\ now < MaxTime
    /\ now' = now + 1
    /\ UNCHANGED <<db, blob, drawn, up, reader, dirty, sweep, taken, delivered>>

UploadStep(s) ==
    \/ UploadRequest(s) \/ (\E id \in Ids : UploadCreate(s, id))
    \/ UploadCopy(s) \/ UploadChtimes(s) \/ UploadSetNX(s) \/ UploadUndo(s)
    \/ UploadAnswer(s) \/ UploadFailed(s)

ReadServed(r) ==
    \/ ReadWatch(r) \/ ReadGet(r) \/ ReadOpen(r) \/ ReadPTTL(r)
    \/ ReadExecSet(r) \/ ReadExecDel(r) \/ ReadExecStale(r) \/ ReadRefused(r)
    \/ ReadStream(r) \/ ReadUnlink(r)

SweepStep == SweepStart \/ (\E id \in Ids : SweepInfo(id)) \/ SweepRemove \/ SweepEnd

Next ==
    \/ \E s \in Saves : UploadStep(s)
    \/ \E r \in Readers : ReadRequest(r) \/ ReadServed(r) \/ ReadFailed(r)
    \/ SweepStep \/ SweepFailed
    \/ ServerCrash
    \/ Tick

Spec == Init /\ [][Next]_vars

(* Redis, the disk and the scheduler serve what is in flight; the clock    *)
(* and the ticker of the janitor run.  A sweep is cut short by a crash, an *)
(* error of the disk or a blob that a download removed under it, none of   *)
(* which strikes every time.                                               *)
FairSpec ==
    /\ Spec
    /\ WF_vars(Tick)
    /\ SF_vars(SweepStart) /\ SF_vars(SweepRemove) /\ SF_vars(SweepEnd)
    /\ \A id \in Ids : SF_vars(SweepInfo(id))
------------------------------------------------------------------------------
(* Properties.                                                             *)

UploadRequests ==
    [pc : {"new", "create", "copy", "chtimes", "setnx", "stored", "redo", "undo", "ok", "error"},
     key : StoredKeys \cup {Empty}, version : {LegacyScheme, SchemeV3},
     views : 0 .. MaxViews, duration : 0 .. MaxDuration,
     attempts : 0 .. MaxStorageIDAttempts, id : Ids \cup {NoId}, expires : Nat, deadline : Nat]

ReadRequests ==
    [pc : {"idle", "watch", "get", "open", "pttl", "set", "del", "stale", "committed", "unlink"},
     id : Ids \cup {NoId}, key : PresentedKeys \cup {Empty},
     cur : Records \cup {NoRecord}, fd : Blobs \cup {NoBlob}, ttl : Nat, start : Nat,
     view : 0 .. MaxViews,
     status : {"none", "ok", "no message", "wrong key", "retry", "error"}, took : Nat]

(* Every variable has its type, whatever clients send.                     *)
TypeOK ==
    /\ db \in [Ids -> Records \cup {NoRecord}]
    /\ blob \in [Ids -> Blobs \cup {NoBlob}]
    /\ now \in Nat
    /\ drawn \subseteq Ids
    /\ up \in [Saves -> UploadRequests]
    /\ reader \in [Readers -> ReadRequests]
    /\ dirty \subseteq Readers
    /\ sweep \in [pc : {"rest", "scan"}, at : Nat, todo : SUBSET Ids,
                  doomed : Ids \cup {NoId}, seen : Nat]
    /\ taken \in [Saves -> SUBSET (0 .. MaxViews)]
    /\ delivered \in [Saves -> SUBSET (0 .. MaxViews)]

(* A stored record and the committed downloads of its file add up to the   *)
(* views the file was uploaded with, under every interleaving of downloads,*)
(* uploads and sweeps.                                                     *)
FileViewsConserved ==
    \A id \in Ids : db[id] # NoRecord =>
        LET s == db[id].save IN
        /\ up[s].id = id
        /\ ViewsOf(db[id].views) <= up[s].views
        /\ taken[s] = ViewsOf(db[id].views) .. (up[s].views - 1)

(* A download that takes a view holds all bytes of the file its record     *)
(* names, also when the last downloader or the janitor unlinks the blob    *)
(* while it streams, and never those of an upload in progress.             *)
DownloadsAreWhole ==
    \A r \in Readers : reader[r].pc = "committed" =>
        reader[r].fd.whole /\ reader[r].fd.save = reader[r].cur.save

(* The blob of s was given its deadline, which is not reached, and has     *)
(* downloads left; from "stored" on there is a record, from "ok" on a link. *)
Placed(s) ==
    up[s].pc \in {"setnx", "stored", "ok"} /\ 0 \notin taken[s] /\ now < up[s].expires

RecordStays(s) ==
    Placed(s) /\ up[s].pc # "setnx" /\ blob[up[s].id].save = s
        => Live(up[s].id) /\ db[up[s].id].save = s

(* The exception is real: a sweep that looked at the blob before Chtimes,  *)
(* when its mtime was "now", removes it by name afterwards, and takes the  *)
(* blob of a link that was answered.                                       *)
BlobStays(s) ==
    Placed(s) /\ blob[up[s].id].save = s /\ blob'[up[s].id].save # s
        => sweep.doomed = up[s].id /\ sweep.seen < up[s].expires

(* A file keeps its blob from Chtimes on, through SETNX, the answer and    *)
(* whatever fails, until its last view is taken or its deadline comes, but *)
(* for a sweep that looked before Chtimes; and while the blob is there the *)
(* record stays: no download, failure to open or other upload deletes it.  *)
LinkKeepsItsFile == [][\A s \in Saves : RecordStays(s)' /\ BlobStays(s)]_vars

(* "retry", after which the page repeats the download by itself, "no       *)
(* message" and "wrong key" prove that the request took no view; none      *)
(* takes two, however often it was refused.                                *)
AnswersTellTheTruth ==
    [][\A r \in Readers :
        /\ reader'[r].took <= 1
        /\ reader[r].pc # "idle" /\ reader'[r].pc = "idle"
           /\ reader'[r].status \in {"retry", "no message", "wrong key"}
              => reader[r].took = 0]_vars

(* No blob stays past its mtime: what downloads, failed uploads and        *)
(* crashes leave behind is reclaimed.  (Only mtimes the bounded clock      *)
(* reaches are asked about.)                                               *)
BlobsReclaimed ==
    \A id \in Ids :
        blob[id] # NoBlob ~> blob[id] = NoBlob \/ blob[id].mtime > MaxTime
------------------------------------------------------------------------------
(* The file store implements the abstract one-time secret.                 *)

RecordOf(s) == {id \in Ids : Live(id) /\ db[id].save = s}

Abstract == INSTANCE OneTimeSecret WITH
    Secrets <- Saves,
    Requests <- Readers,
    left <- [s \in Saves |->
                IF up[s].id \in RecordOf(s) THEN ViewsOf(db[up[s].id].views) ELSE 0],
    created <- {s \in Saves : up[s].deadline # 0},
    holding <- [r \in Readers |->
                IF reader[r].pc = "committed"
                THEN [secret |-> reader[r].cur.save, view |-> reader[r].view]
                ELSE [secret |-> NoSave, view |-> 0]],
    delivered <- delivered

(* Every behaviour of the file store is one of OneTimeSecret.              *)
ImplementsOneTimeSecret == Abstract!Spec
==============================================================================

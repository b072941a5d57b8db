---------------------------- MODULE ChunkedUpload ----------------------------
(***************************************************************************)
(* POST /api/saveFile?u=..&i=..&n=..: a file uploaded in slices            *)
(* (apiSaveFileChunk and finishFileUpload of backend/handlers.go, the      *)
(* fileUpload* keys of backend/storage.go).                                *)
(*                                                                         *)
(* One upload id.  Each request carries one slice; a client that retries,  *)
(* or sends slices in parallel, is several requests.  One action is one    *)
(* Redis command or transaction, or one file operation, of one request, so *)
(* requests stall, overlap and fail between any two.  Store keys do not    *)
(* repeat here (FileStore has ids that do).                                *)
(***************************************************************************)
EXTENDS Integers, FiniteSets

CONSTANTS
    Requests,       \* the slice requests that arrive, retries included
    Chunks,         \* the slice indexes of the file
    Bytes,          \* contents a request may carry for a slice
    Settings,       \* n, readTokenHash, v, duration and views of a request
    Stores,         \* the store keys generateStorageID draws
    UploadTTL,      \* fileUploadTTL: 1 hour
    LockTTL,        \* fileUploadFinishLockTTL: 30 seconds
    Lifetime,       \* duration of the file, in clock units
    Patience,       \* how long a request takes at most, once its body has arrived
    Faults,         \* whether Redis commands, file operations and the server fail
    Evictions,      \* whether Redis may evict the record of an upload in progress
    MaxTime         \* bound of the clock, for TLC

ASSUME ChunkAssumption ==
    /\ IsFiniteSet(Chunks) /\ Chunks # {}
    /\ UploadTTL \in Nat /\ LockTTL \in Nat \ {0} /\ LockTTL < UploadTTL
    /\ Lifetime \in Nat \ {0}
    /\ Patience \in Nat /\ Patience < UploadTTL
    /\ Faults \in BOOLEAN /\ Evictions \in BOOLEAN
    /\ MaxTime \in Nat

None == "none"

ASSUME NoneAssumption == None \notin Stores \cup Bytes \cup Settings

VARIABLES
    now,        \* the clock
    upload,     \* Redis: fileUpload:<u>
    hashes,     \* Redis: fileUploadHashes:<u>, the bytes each index is pinned to
    chunks,     \* Redis: fileUploadChunks:<u>:<store>, the slices received
    lock,       \* Redis: the deadline of fileUploadFinishing:<u>; 0: not set
    record,     \* Redis: the deadline of fileKey<store>; 0: not set
    blob,       \* the directory: <store>.enc
    req,        \* the slice requests
    doomed,     \* the blob a sweep of the janitor is about to remove
    leaving,    \* the blobs a final download is about to unlink
    drawn,      \* ghost: the store keys drawn
    links,      \* ghost: the store keys answered as newId
    published,  \* ghost: the bytes each store key was first published with
    counted     \* Redis: the stored-file counters

vars == <<now, upload, hashes, chunks, lock, record, blob, req, doomed, leaving,
          drawn, links, published, counted>>
redis == <<upload, hashes, chunks, lock, record>>
outside == <<now, doomed, leaving, drawn>>
outcome == <<links, published, counted>>

Unset == [c \in Chunks |-> None]
NoUpload == [store |-> None, settings |-> None, published |-> FALSE, hashes |-> Unset, deadline |-> 0]
NoBlob == [there |-> FALSE, bytes |-> Unset, mtime |-> 0]
NewRequest == [pc |-> "new", index |-> None, bytes |-> None, settings |-> None, store |-> None,
               since |-> 0, ttl |-> 0, began |-> 0, hashes |-> Unset, reply |-> "none"]

(* What the keys hold once expiry is taken into account.                   *)
Upload == IF now <= upload.deadline THEN upload ELSE NoUpload
Hashes == IF now <= hashes.deadline THEN hashes.at ELSE Unset

(* Mutant: the slices are counted under the upload id alone.               *)
ReceivedByUpload(store) ==
    UNION {chunks[s].got : s \in {s \in Stores : now <= chunks[s].deadline}}

Received(store) == IF now <= chunks[store].deadline THEN chunks[store].got ELSE {}
RecordLive(store) == record[store] # 0 /\ now <= record[store]
Locked == lock # 0 /\ now <= lock

Finishing == {"finload", "finhashes", "finset", "adopt", "finpttl", "finrestore", "fintouch",
              "finundo", "publish", "count", "unlock"}

Init ==
    /\ now = 0
    /\ upload = NoUpload
    /\ hashes = [at |-> Unset, deadline |-> 0]
    /\ chunks = [store \in Stores |-> [got |-> {}, deadline |-> 0]]
    /\ lock = 0
    /\ record = [store \in Stores |-> 0]
    /\ blob = [store \in Stores |-> NoBlob]
    /\ req = [r \in Requests |-> NewRequest]
    /\ doomed = None /\ leaving = {}
    /\ drawn = {} /\ links = {} /\ published = [store \in Stores |-> Unset] /\ counted = 0
------------------------------------------------------------------------------
Goes(r, pc) == req' = [req EXCEPT ![r].pc = pc]

(* The request is answered: "ok", "error" (400 or 500) or "retry" (503).   *)
Replies(r, reply) ==
    /\ req' = [req EXCEPT ![r] = [NewRequest EXCEPT !.pc = "done", !.reply = reply]]
    /\ UNCHANGED links

RepliesId(r, store) ==
    /\ req' = [req EXCEPT ![r] = [NewRequest EXCEPT !.pc = "done", !.reply = "ok"]]
    /\ links' = links \cup {store}

(* answerIfPublished: a published upload answers the bytes it was          *)
(* published with and declines any other.                                  *)
AnswerPublished(r, u) ==
    IF u.settings = req[r].settings /\ u.hashes[req[r].index] = req[r].bytes
    THEN RepliesId(r, u.store)
    ELSE Replies(r, "error")

(* What a request does with the upload it found.                           *)
Joins(r, u) ==
    IF u.published THEN AnswerPublished(r, u)
    ELSE IF u.settings # req[r].settings THEN Replies(r, "error")
    ELSE /\ req' = [req EXCEPT ![r].pc = "claim", ![r].store = u.store]
         /\ UNCHANGED links

(* An accepted request; others are answered 400 before anything is done.   *)
Arrive(r) ==
    /\ req[r].pc = "new"
    /\ \E index \in Chunks, bytes \in Bytes, settings \in Settings :
          req' = [req EXCEPT ![r] = [NewRequest EXCEPT !.pc = "load", !.index = index,
                                                       !.bytes = bytes, !.settings = settings,
                                                       !.since = now]]
    /\ UNCHANGED <<redis, blob, outside, outcome>>

Load(r) ==
    /\ req[r].pc = "load"
    /\ IF Upload.store = None
       THEN Goes(r, "create") /\ UNCHANGED links
       ELSE Joins(r, Upload)
    /\ UNCHANGED <<redis, blob, outside, published, counted>>

(* startFileUpload: an empty blob under a new store key.                   *)
Create(r, store) ==
    /\ req[r].pc = "create"
    /\ store \notin drawn
    /\ drawn' = drawn \cup {store}
    /\ blob' = [blob EXCEPT ![store] = [NoBlob EXCEPT !.there = TRUE, !.mtime = now]]
    /\ req' = [req EXCEPT ![r].pc = "birth", ![r].store = store]
    /\ UNCHANGED <<redis, now, doomed, leaving, outcome>>

(* Chtimes of the blob of a request to `until`; it fails without the blob. *)
Chtimes(r, until, then, otherwise) ==
    LET store == req[r].store IN
    IF blob[store].there
    THEN /\ blob' = [blob EXCEPT ![store].mtime = until]
         /\ Goes(r, then) /\ UNCHANGED links
    ELSE otherwise /\ UNCHANGED blob

Birth(r) ==
    /\ req[r].pc = "birth"
    /\ Chtimes(r, now + UploadTTL, "claimupload", Replies(r, "error"))
    /\ UNCHANGED <<redis, outside, published, counted>>

(* SETNX of the upload record.  Its reply may be lost: then the blob is    *)
(* removed although the record names it.                                   *)
ClaimUpload(r) ==
    /\ req[r].pc = "claimupload"
    /\ IF Upload.store = None
       THEN /\ upload' = [NoUpload EXCEPT !.store = req[r].store, !.settings = req[r].settings,
                                          !.deadline = now + UploadTTL]
            /\ \/ Goes(r, "claim") /\ UNCHANGED <<blob, links>>
               \/ Faults /\ Replies(r, "error") /\ blob' = [blob EXCEPT ![req[r].store] = NoBlob]
       ELSE Goes(r, "reload") /\ UNCHANGED <<upload, blob, links>>
    /\ UNCHANGED <<hashes, chunks, lock, record, outside, published, counted>>

(* The upload was started by another request meanwhile: join that one, and *)
(* remove the blob nobody else has heard of.                               *)
Reload(r) ==
    /\ req[r].pc = "reload"
    /\ IF Upload.store = None THEN Replies(r, "error") ELSE Joins(r, Upload)
    /\ blob' = [blob EXCEPT ![req[r].store] = NoBlob]
    /\ UNCHANGED <<redis, outside, published, counted>>

(* HSETNX, EXPIRE, HGET in one transaction: an index takes only the bytes  *)
(* first sent for it.                                                      *)
Claim(r) ==
    LET pinned == Hashes[req[r].index] IN
    /\ req[r].pc = "claim"
    /\ hashes' = [at |-> IF pinned = None THEN [Hashes EXCEPT ![req[r].index] = req[r].bytes]
                         ELSE Hashes,
                  deadline |-> now + UploadTTL]
    /\ IF pinned \in {None, req[r].bytes}
       THEN Goes(r, "check") /\ UNCHANGED links
       ELSE Replies(r, "error")
    /\ UNCHANGED <<upload, chunks, lock, record, blob, outside, published, counted>>

(* Mutant: a claim is taken for proof that the upload is unpublished.      *)
CheckSkipped(r) ==
    /\ req[r].pc = "check"
    /\ Goes(r, "write")
    /\ UNCHANGED <<redis, blob, outside, outcome>>

(* Publication deletes the hash set, so it is asked about after the claim. *)
Check(r) ==
    /\ req[r].pc = "check"
    /\ IF Upload.published THEN AnswerPublished(r, Upload) ELSE Goes(r, "write") /\ UNCHANGED links
    /\ UNCHANGED <<redis, blob, outside, published, counted>>

(* The slice is written at its offset of an existing blob, which moves the *)
(* mtime to now.                                                           *)
Write(r) ==
    LET store == req[r].store IN
    /\ req[r].pc = "write"
    /\ IF blob[store].there
       THEN /\ blob' = [blob EXCEPT ![store].bytes[req[r].index] = req[r].bytes,
                                    ![store].mtime = now]
            /\ Goes(r, "touch") /\ UNCHANGED links
       ELSE Replies(r, "error") /\ UNCHANGED blob
    /\ UNCHANGED <<redis, outside, published, counted>>

TouchBlob(r) ==
    /\ req[r].pc = "touch"
    /\ Chtimes(r, now + UploadTTL, "pttl", Replies(r, "error"))
    /\ UNCHANGED <<redis, outside, published, counted>>

(* restoreFileExpiry: the blob of a file that is already live gets the     *)
(* deadline of its record back.                                            *)
PTTL(r, live, none) ==
    LET ttl == record[req[r].store] - now IN
    IF RecordLive(req[r].store) /\ ttl > 0
    THEN req' = [req EXCEPT ![r].ttl = ttl, ![r].pc = live]
    ELSE Goes(r, none)

(* Mutant: the deadline of a live file is left as the upload set it.       *)
RestoreSkipped(r) ==
    /\ req[r].pc = "pttl"
    /\ Goes(r, "sadd")
    /\ UNCHANGED <<redis, blob, outside, outcome>>

RestorePTTL(r) ==
    /\ req[r].pc = "pttl"
    /\ PTTL(r, "restore", "sadd")
    /\ UNCHANGED <<redis, blob, outside, outcome>>

Restore(r) ==
    /\ req[r].pc = "restore"
    /\ Chtimes(r, now + req[r].ttl, "sadd", Goes(r, "sadd") /\ UNCHANGED links)
    /\ UNCHANGED <<redis, outside, published, counted>>

(* recordFileUploadChunk: SADD, three EXPIREs and SCARD in one transaction.*)
RecordChunk(r) ==
    LET got == Received(req[r].store) \cup {req[r].index}
        until == now + UploadTTL IN
    /\ req[r].pc = "sadd"
    /\ chunks' = [chunks EXCEPT ![req[r].store] = [got |-> got, deadline |-> until]]
    /\ upload' = IF Upload.store = None THEN upload ELSE [upload EXCEPT !.deadline = until]
    /\ hashes' = IF Hashes = Unset THEN hashes ELSE [hashes EXCEPT !.deadline = until]
    /\ Goes(r, IF got = Chunks THEN "lock" ELSE "check2")
    /\ UNCHANGED <<lock, record, blob, outside, outcome>>

(* A slice that does not complete the file.                                *)
Check2(r) ==
    /\ req[r].pc = "check2"
    /\ IF Upload.published THEN AnswerPublished(r, Upload) ELSE Replies(r, "ok")
    /\ UNCHANGED <<redis, blob, outside, published, counted>>
------------------------------------------------------------------------------
(* finishFileUpload.  From the lock on, every way out goes through Unlock. *)

Leaves(r, reply) == req' = [req EXCEPT ![r].pc = "unlock", ![r].reply = reply]

(* Mutant: a finishing request does not look whether another one is.       *)
LockIgnored(r) ==
    /\ req[r].pc = "lock"
    /\ lock' = now + LockTTL
    /\ Goes(r, "finload")
    /\ UNCHANGED <<upload, hashes, chunks, record, blob, outside, outcome>>

(* SETNX of the lock; if its reply is lost, the lock stays for its TTL.    *)
Lock(r) ==
    /\ req[r].pc = "lock"
    /\ IF Locked
       THEN Replies(r, "retry") /\ UNCHANGED lock
       ELSE /\ lock' = now + LockTTL
            /\ (Goes(r, "finload") /\ UNCHANGED links) \/ (Faults /\ Replies(r, "error"))
    /\ UNCHANGED <<upload, hashes, chunks, record, blob, outside, published, counted>>

(* The reply is built from the record found, also if that is of another    *)
(* store key than this request wrote to.                                   *)
FinLoad(r) ==
    /\ req[r].pc = "finload"
    /\ req' = [req EXCEPT ![r].pc = IF Upload.published THEN "unlock" ELSE "finhashes",
                          ![r].reply = IF Upload.published THEN "id" ELSE "none",
                          ![r].store = IF Upload.published THEN Upload.store ELSE @]
    /\ UNCHANGED <<redis, blob, outside, outcome>>

FinHashes(r) ==
    /\ req[r].pc = "finhashes"
    /\ IF None \in {Hashes[c] : c \in Chunks}
       THEN Leaves(r, "error")
       ELSE req' = [req EXCEPT ![r].pc = "finset", ![r].hashes = Hashes, ![r].began = now]
    /\ UNCHANGED <<redis, blob, outside, outcome>>

(* SETNX of the file record.  A record whose reply is lost stays.          *)
FinSet(r) ==
    LET store == req[r].store IN
    /\ req[r].pc = "finset"
    /\ IF RecordLive(store)
       THEN Goes(r, "adopt") /\ UNCHANGED record
       ELSE /\ record' = [record EXCEPT ![store] = now + Lifetime]
            /\ Goes(r, "fintouch") \/ (Faults /\ Leaves(r, "error"))
    /\ UNCHANGED <<upload, hashes, chunks, lock, blob, outside, outcome>>

(* A completion that died after creating the record left it: go on with it.*)
Adopt(r) ==
    /\ req[r].pc = "adopt"
    /\ IF RecordLive(req[r].store) THEN Goes(r, "finpttl") ELSE Leaves(r, "error")
    /\ UNCHANGED <<redis, blob, outside, outcome>>

FinPTTL(r) ==
    /\ req[r].pc = "finpttl"
    /\ PTTL(r, "finrestore", "publish")
    /\ UNCHANGED <<redis, blob, outside, outcome>>

FinRestore(r) ==
    /\ req[r].pc = "finrestore"
    /\ Chtimes(r, now + req[r].ttl, "publish", Goes(r, "publish") /\ UNCHANGED links)
    /\ UNCHANGED <<redis, outside, published, counted>>

(* Mutant: the file is counted with its record, published or not.          *)
FinTouchCounted(r) ==
    /\ req[r].pc = "fintouch"
    /\ counted' = counted + 1
    /\ Chtimes(r, req[r].began + Lifetime, "publish", Goes(r, "finundo") /\ UNCHANGED links)
    /\ UNCHANGED <<redis, outside, published>>

FinTouch(r) ==
    /\ req[r].pc = "fintouch"
    /\ Chtimes(r, req[r].began + Lifetime, "publish", Goes(r, "finundo") /\ UNCHANGED links)
    /\ UNCHANGED <<redis, outside, published, counted>>

(* The blob is gone: DEL of the record that was just created.              *)
FinUndo(r) ==
    /\ req[r].pc = "finundo"
    /\ record' = [record EXCEPT ![req[r].store] = 0]
    /\ Leaves(r, "error")
    /\ UNCHANGED <<upload, hashes, chunks, lock, blob, outside, outcome>>

(* SET of the published record and DEL of the working keys, in one         *)
(* transaction, whose reply may be lost.                                   *)
Publish(r) ==
    LET store == req[r].store IN
    /\ req[r].pc = "publish"
    /\ upload' = [store |-> store, settings |-> req[r].settings, published |-> TRUE,
                  hashes |-> req[r].hashes, deadline |-> now + UploadTTL]
    /\ chunks' = [chunks EXCEPT ![store] = [got |-> {}, deadline |-> 0]]
    /\ hashes' = [at |-> Unset, deadline |-> 0]
    /\ published' = IF published[store] = Unset
                    THEN [published EXCEPT ![store] = req[r].hashes] ELSE published
    /\ Goes(r, "count") \/ (Faults /\ Leaves(r, "error"))
    /\ UNCHANGED <<lock, record, blob, outside, links, counted>>

Count(r) ==
    /\ req[r].pc = "count"
    /\ counted' = counted + 1
    /\ Leaves(r, "id")
    /\ UNCHANGED <<redis, blob, outside, links, published>>

(* DEL of the lock, whoever holds it now, and the answer.                  *)
Unlock(r) ==
    /\ req[r].pc = "unlock"
    /\ lock' = 0
    /\ IF req[r].reply = "id" THEN RepliesId(r, req[r].store) ELSE Replies(r, "error")
    /\ UNCHANGED <<upload, hashes, chunks, record, blob, outside, published, counted>>

(* A command or a file operation fails.  The blob of a request that was    *)
(* starting the upload is removed; a failed FinTouch deletes the record it *)
(* created; a failed counter or unlock is only logged.                     *)
Failed(r) ==
    /\ Faults
    /\ req[r].pc \notin {"new", "done"}
    /\ CASE req[r].pc = "fintouch" -> Goes(r, "finundo") /\ UNCHANGED links
         [] req[r].pc = "count" -> Leaves(r, "id") /\ UNCHANGED links
         [] req[r].pc = "unlock" ->
              IF req[r].reply = "id" THEN RepliesId(r, req[r].store) ELSE Replies(r, "error")
         [] req[r].pc \in Finishing \ {"fintouch", "count", "unlock"} ->
              Leaves(r, "error") /\ UNCHANGED links
         [] OTHER -> Replies(r, "error")
    /\ blob' = IF req[r].pc \in {"birth", "claimupload", "reload"}
               THEN [blob EXCEPT ![req[r].store] = NoBlob] ELSE blob
    /\ UNCHANGED <<redis, outside, published, counted>>
------------------------------------------------------------------------------
(* The rest of the system, as far as it meets an upload.                   *)

(* A download of a single-view file (FileStore has the whole handler): the *)
(* record goes when the view is taken, the blob once it has been streamed. *)
Download(store) ==
    /\ store \in links
    /\ RecordLive(store)
    /\ record' = [record EXCEPT ![store] = 0]
    /\ leaving' = IF blob[store].there THEN leaving \cup {store} ELSE leaving
    /\ UNCHANGED <<now, upload, hashes, chunks, lock, blob, req, doomed, drawn, outcome>>

Unlink(store) ==
    /\ store \in leaving
    /\ leaving' = leaving \ {store}
    /\ blob' = [blob EXCEPT ![store] = NoBlob]
    /\ UNCHANGED <<now, redis, req, doomed, drawn, outcome>>

(* The janitor looks at a blob and then removes it.  A sweep removes what  *)
(* was due when it started; one that starts now has the latest cutoff.     *)
SweepInfo(store) ==
    /\ doomed = None
    /\ blob[store].there /\ blob[store].mtime <= now
    /\ doomed' = store
    /\ UNCHANGED <<now, redis, blob, req, leaving, drawn, outcome>>

SweepRemove ==
    /\ doomed # None
    /\ blob' = [blob EXCEPT ![doomed] = NoBlob]
    /\ doomed' = None
    /\ UNCHANGED <<now, redis, req, leaving, drawn, outcome>>

(* The server stops; Redis and the directory stay as they are.             *)
ServerCrash ==
    /\ Faults
    /\ req' = [r \in Requests |-> IF req[r].pc \in {"new", "done"} THEN req[r]
                                   ELSE [NewRequest EXCEPT !.pc = "done", !.reply = "error"]]
    /\ doomed' = None /\ leaving' = {}
    /\ UNCHANGED <<now, redis, blob, drawn, outcome>>

(* The record of an upload in progress is evicted, its working keys stay.  *)
Evict ==
    /\ Evictions
    /\ Upload.store # None /\ ~Upload.published
    /\ upload' = NoUpload
    /\ UNCHANGED <<now, hashes, chunks, lock, record, blob, req, doomed, leaving, drawn, outcome>>

Tick ==
    /\ now < MaxTime
    /\ \A r \in Requests : req[r].pc \in {"new", "done"} \/ now - req[r].since < Patience
    /\ now' = now + 1
    /\ UNCHANGED <<redis, blob, req, doomed, leaving, drawn, outcome>>

Served(r) ==
    \/ Load(r) \/ (\E store \in Stores : Create(r, store)) \/ Birth(r) \/ ClaimUpload(r) \/ Reload(r)
    \/ Claim(r) \/ Check(r) \/ Write(r) \/ TouchBlob(r) \/ RestorePTTL(r) \/ Restore(r)
    \/ RecordChunk(r) \/ Check2(r)
    \/ Lock(r) \/ FinLoad(r) \/ FinHashes(r) \/ FinSet(r) \/ Adopt(r) \/ FinPTTL(r)
    \/ FinRestore(r) \/ FinTouch(r) \/ FinUndo(r) \/ Publish(r) \/ Count(r) \/ Unlock(r)

Next ==
    \/ \E r \in Requests : Arrive(r) \/ Served(r) \/ Failed(r)
    \/ \E store \in Stores : Download(store) \/ Unlink(store) \/ SweepInfo(store)
    \/ SweepRemove \/ ServerCrash \/ Evict \/ Tick

Spec == Init /\ [][Next]_vars
------------------------------------------------------------------------------
Deadlines == 0..(MaxTime + UploadTTL + Lifetime)
ChunkBytes == [Chunks -> Bytes \cup {None}]
Pcs == {"new", "load", "create", "birth", "claimupload", "reload", "claim", "check", "write",
        "touch", "pttl", "restore", "sadd", "check2", "lock", "done"} \cup Finishing

(* The types of Redis, of the directory and of the requests.  In particular*)
(* no deadline lies further ahead than the longest lifetime, no lock or    *)
(* record is left without one, and a started upload has settings.          *)
TypeOK ==
    /\ now \in 0..MaxTime
    /\ upload \in [store : Stores \cup {None}, settings : Settings \cup {None},
                   published : BOOLEAN, hashes : ChunkBytes, deadline : Deadlines]
    /\ hashes \in [at : ChunkBytes, deadline : Deadlines]
    /\ chunks \in [Stores -> [got : SUBSET Chunks, deadline : Deadlines]]
    /\ lock \in Deadlines /\ record \in [Stores -> Deadlines]
    /\ blob \in [Stores -> [there : BOOLEAN, bytes : ChunkBytes, mtime : Deadlines]]
    /\ req \in [Requests -> [pc : Pcs, index : Chunks \cup {None}, bytes : Bytes \cup {None},
                             settings : Settings \cup {None}, store : Stores \cup {None},
                             since : 0..MaxTime, ttl : 0..Lifetime, began : 0..MaxTime,
                             hashes : ChunkBytes, reply : {"none", "ok", "error", "retry", "id"}]]
    /\ doomed \in Stores \cup {None} /\ leaving \subseteq Stores
    /\ drawn \subseteq Stores /\ links \subseteq drawn
    /\ published \in [Stores -> ChunkBytes] /\ counted \in Nat
    /\ upload.store # None => upload.settings # None

(* A request that finishes an upload still holds the lock it took.  The    *)
(* code does not ensure this: nothing renews the lock, and nothing checks  *)
(* it again.  The theorems name it where they rest on it.                  *)
HoldersKeepTheirLock == \A r \in Requests : req[r].pc \in Finishing => Locked

(* A newId is answered only for a file that was published with all of its  *)
(* slices, and from then on its blob never holds anything but those bytes: *)
(* not the bytes of a late request, of a conflicting one, or of an upload  *)
(* that was restarted under the same id.  (claimFileUploadChunk, the check *)
(* of the publication after it, and the slice counts per store key.)       *)
LinkIsWhole ==
    \A store \in links :
        /\ \A c \in Chunks : published[store][c] # None
        /\ blob[store].there => blob[store].bytes = published[store]

(* One published file is one stored file in the statistics, however many   *)
(* requests tried to finish it.  (finishFileUpload under its lock.)        *)
CountedOnce == counted <= Cardinality({store \in Stores : published[store] # Unset})

(* A link that is gone, downloaded or expired, does not come back.         *)
(* (finishFileUpload under its lock; "expired link came back to life".)    *)
LinkNeverComesBack == [][\A store \in links : RecordLive(store)' => RecordLive(store)]_vars

(* The record of a file whose link was answered ends with a download or    *)
(* its expiry: no failing request takes it away.  (finishFileUpload        *)
(* deletes only a record it created itself.)                               *)
LinkKeepsItsRecord ==
    [][\A store \in links : record'[store] # record[store] => Download(store)]_vars

(* Unless a request is just writing to it, the blob of a live file is due  *)
(* for the janitor when its record expires, and not when an upload would   *)
(* be.  (restoreFileExpiry: "A duplicate chunk racing completion must not  *)
(* shorten a live file's mtime"; the time is read before the record is     *)
(* set, which is at most one request earlier.)                             *)
LiveFileKeepsExpiry ==
    \A store \in links :
        RecordLive(store) /\ blob[store].there
            /\ (\A r \in Requests : req[r].store = store => req[r].pc \notin {"touch", "pttl", "restore"})
        => blob[store].mtime + Patience >= record[store]
==============================================================================

----------------------------- MODULE SecretStore -----------------------------
(***************************************************************************)
(* The text secrets of 1time.io: POST /api/saveSecret, /api/get and        *)
(* /api/secretStatus over Redis (backend/handlers.go, backend/storage.go). *)
(*                                                                         *)
(* Redis is one map from ids to records and a clock.  Each command is one  *)
(* step, and so is EXEC; everything else of a request is between commands. *)
(* Requests run concurrently: a read takes its view by WATCH, GET, PTTL    *)
(* and a MULTI/EXEC that Redis refuses when the watched key was touched    *)
(* (the reader is then "dirty") or has expired since.                      *)
(*                                                                         *)
(* save[s] is the one save request of client s; reader[r] is the request   *)
(* that reader r has in flight, or the answer to its last one.             *)
(***************************************************************************)
EXTENDS ReadTokens, FiniteSets

CONSTANTS
    Readers,        \* concurrent callers of /api/get
    Ids,            \* the ids generateStorageID draws from
    RequestViews,   \* what clients put in the views field
    RequestDurations,       \* what clients put in the duration field
    MaxStorageIDAttempts,   \* maxStorageIDAttempts: 5
    RetryWindow,    \* consumeMessageRetryWindow, in clock units
    MaxStatusIDs,   \* maxStatusIDs: 128
    MaxTime         \* bound of the clock, for TLC

ASSUME StoreAssumption ==
    /\ RequestViews \subseteq Int
    /\ RequestDurations \subseteq Int
    /\ MaxStorageIDAttempts \in Nat /\ MaxStorageIDAttempts >= 1
    /\ RetryWindow \in Nat
    /\ MaxStatusIDs \in Nat
    /\ MaxTime \in Nat

VARIABLES
    db,         \* Redis: the record under messageKey<id>
    now,        \* the clock
    save,       \* the save request of each client
    reader,     \* the read request of each reader
    dirty,      \* the readers whose watched key was written by another
    poll,       \* the /api/secretStatus request of the My Secrets page
    taken,      \* ghost: the views of each secret that a commit took
    delivered   \* ghost: the views of each secret answered with status ok

vars == <<db, now, save, reader, dirty, poll, taken, delivered>>

NoId == "no id"

ASSUME NoIdAssumption == NoId \notin Ids

Records ==
    [save : Saves, key : StoredKeys, version : {LegacyScheme, SchemeV3},
     views : 0 .. MaxViews, deadline : Nat]

NoRecord ==
    [save |-> NoSave, key |-> Empty, version |-> LegacyScheme, views |-> 0, deadline |-> 0]

(* Redis answers for a key until its deadline has passed.                  *)
Live(id) == db[id] # NoRecord /\ now <= db[id].deadline

(* The deadline of a key written with lifetime ttl: Redis keeps a key that *)
(* is written with lifetime 0 for ever, past the bound of the clock.       *)
Never == MaxTime + MaxDuration + 1

Expiry(ttl) == IF ttl > 0 THEN now + ttl ELSE Never

(* A write to a key spoils the transaction of every other reader that is   *)
(* watching it.                                                            *)
Watching == {"get", "pttl", "set", "del"}

Touch(id, by) ==
    dirty' = dirty \cup {r \in Readers \ by : reader[r].pc \in Watching /\ reader[r].id = id}
------------------------------------------------------------------------------
NoRequest ==
    [pc |-> "idle", id |-> NoId, key |-> Empty, cur |-> NoRecord, ttl |-> 0,
     start |-> 0, view |-> 0, status |-> "none", took |-> 0]

(* The answer of a read, which also ends its WATCH.                        *)
Answer(r, status) ==
    /\ reader' = [reader EXCEPT ![r] = [NoRequest EXCEPT !.status = status]]
    /\ dirty' = dirty \ {r}

NewSave ==
    [pc |-> "new", key |-> Empty, version |-> LegacyScheme, views |-> 0,
     duration |-> 0, attempts |-> 0, id |-> NoId, deadline |-> 0]

NoPoll == [asked |-> {}, todo |-> {}, gone |-> {}]

Init ==
    /\ db = [id \in Ids |-> NoRecord]
    /\ now = 0
    /\ save = [s \in Saves |-> NewSave]
    /\ reader = [r \in Readers |-> NoRequest]
    /\ dirty = {}
    /\ poll = NoPoll
    /\ taken = [s \in Saves |-> {}]
    /\ delivered = [s \in Saves |-> {}]
------------------------------------------------------------------------------
(* Saving a secret.                                                        *)

(* apiSaveSecret up to saveToStorage: an empty message and an unusable key *)
(* are answered "error" at once; views and duration are forced into range. *)
SaveRequest(s) ==
    /\ save[s].pc = "new"
    /\ \E form \in SaveForms(s), views \in RequestViews, duration \in RequestDurations,
          empty \in BOOLEAN :
          save' = [save EXCEPT ![s] =
                     IF ~empty /\ SchemeAccepted(form)
                     THEN [NewSave EXCEPT !.pc = "setnx",
                                          !.key = SchemeStored(form),
                                          !.version = form.v,
                                          !.views = ClampViews(views),
                                          !.duration = ClampDuration(duration)]
                     ELSE [NewSave EXCEPT !.pc = "error"]]
    /\ UNCHANGED <<db, now, reader, dirty, poll, taken, delivered>>

(* Mutant: SET instead of SETNX.                                           *)
SaveSetOver(s, id) ==
    /\ save[s].pc = "setnx"
    /\ db' = [db EXCEPT ![id] = [save     |-> s,
                                 key      |-> save[s].key,
                                 version  |-> save[s].version,
                                 views    |-> StoredViews(save[s].views),
                                 deadline |-> Expiry(save[s].duration)]]
    /\ save' = [save EXCEPT ![s].pc = "stored",
                            ![s].id = id,
                            ![s].deadline = Expiry(save[s].duration)]
    /\ Touch(id, {})
    /\ UNCHANGED <<now, reader, poll, taken, delivered>>

(* SETNX under a fresh random id stores the record.                        *)
SaveSetNX(s, id) ==
    /\ save[s].pc = "setnx"
    /\ ~Live(id)
    /\ db' = [db EXCEPT ![id] = [save     |-> s,
                                 key      |-> save[s].key,
                                 version  |-> save[s].version,
                                 views    |-> StoredViews(save[s].views),
                                 deadline |-> Expiry(save[s].duration)]]
    /\ save' = [save EXCEPT ![s].pc = "stored",
                            ![s].id = id,
                            ![s].deadline = Expiry(save[s].duration)]
    /\ Touch(id, {})
    /\ UNCHANGED <<now, reader, poll, taken, delivered>>

(* The id is in use: draw another one, a limited number of times.          *)
SaveCollision(s, id) ==
    /\ save[s].pc = "setnx"
    /\ Live(id)
    /\ save' = [save EXCEPT ![s].attempts = @ + 1,
                            ![s].pc = IF save[s].attempts + 1 < MaxStorageIDAttempts
                                      THEN "setnx" ELSE "error"]
    /\ UNCHANGED <<db, now, reader, dirty, poll, taken, delivered>>

(* The reply of SETNX arrives; the counters (module Stats) are             *)
(* best-effort, so the client gets its id whatever they do.                *)
SaveAnswer(s) ==
    /\ save[s].pc = "stored"
    /\ save' = [save EXCEPT ![s].pc = "ok"]
    /\ UNCHANGED <<db, now, reader, dirty, poll, taken, delivered>>

(* A failed SETNX, one whose reply was lost, or a crash of the server.     *)
SaveFailed(s) ==
    /\ save[s].pc \in {"setnx", "stored"}
    /\ save' = [save EXCEPT ![s].pc = "error"]
    /\ UNCHANGED <<db, now, reader, dirty, poll, taken, delivered>>
------------------------------------------------------------------------------
(* Reading a secret.                                                       *)

(* apiGetMessage: an id or a key of the wrong shape is answered without    *)
(* asking Redis.                                                           *)
ReadRequest(r) ==
    /\ reader[r].pc = "idle"
    /\ \E id \in Ids \cup {NoId}, key \in PresentedKeys :
          reader' = [reader EXCEPT ![r] =
             IF id = NoId
             THEN [NoRequest EXCEPT !.status = "no message"]
             ELSE IF ~IsValidHashedKey(key)
             THEN [NoRequest EXCEPT !.status = "wrong key"]
             ELSE [NoRequest EXCEPT !.pc = "watch", !.id = id, !.key = key, !.start = now]]
    /\ UNCHANGED <<db, now, save, dirty, poll, taken, delivered>>

(* One attempt of watchWithRetry begins.                                   *)
ReadWatch(r) ==
    /\ reader[r].pc = "watch"
    /\ reader' = [reader EXCEPT ![r].pc = "get"]
    /\ UNCHANGED <<db, now, save, dirty, poll, taken, delivered>>

(* GET.  A missing record and a wrong token end the request here; a record *)
(* with several views left goes on to PTTL, the last view to DEL.          *)
ReadGet(r) ==
    LET current == db[reader[r].id] IN
    /\ reader[r].pc = "get"
    /\ IF ~Live(reader[r].id)
       THEN Answer(r, "no message")
       ELSE IF ~TokenMatchesStored(current.key, current.version, reader[r].key)
       THEN Answer(r, "wrong key")
       ELSE /\ reader' = [reader EXCEPT ![r].cur = current,
                                        ![r].pc = IF current.views > 1 THEN "pttl" ELSE "del"]
            /\ UNCHANGED dirty
    /\ UNCHANGED <<db, now, save, poll, taken, delivered>>

(* Mutant: the key is watched only once the record has been read.          *)
ReadPTTLThenWatch(r) ==
    LET id == reader[r].id
        ttl == IF Live(id) THEN db[id].deadline - now ELSE -2 IN
    /\ reader[r].pc = "pttl"
    /\ reader' = [reader EXCEPT ![r].ttl = IF ttl > 0 THEN ttl ELSE 0,
                                 ![r].pc = IF ttl > 0 THEN "set" ELSE "del"]
    /\ dirty' = dirty \ {r}
    /\ UNCHANGED <<db, now, save, poll, taken, delivered>>

(* Mutant: a remainder of 0 is written back as it is.                      *)
ReadPTTLOfZero(r) ==
    LET id == reader[r].id
        ttl == IF Live(id) THEN db[id].deadline - now ELSE -2 IN
    /\ reader[r].pc = "pttl"
    /\ reader' = [reader EXCEPT ![r].ttl = IF ttl >= 0 THEN ttl ELSE 0,
                                 ![r].pc = IF ttl >= 0 THEN "set" ELSE "del"]
    /\ UNCHANGED <<db, now, save, dirty, poll, taken, delivered>>

(* PTTL rounds the rest of the last millisecond to 0 and a missing key is  *)
(* negative: neither may be written back, so the record is consumed.       *)
ReadPTTL(r) ==
    LET id == reader[r].id
        ttl == IF Live(id) THEN db[id].deadline - now ELSE -2 IN
    /\ reader[r].pc = "pttl"
    /\ reader' = [reader EXCEPT ![r].ttl = IF ttl > 0 THEN ttl ELSE 0,
                                 ![r].pc = IF ttl > 0 THEN "set" ELSE "del"]
    /\ UNCHANGED <<db, now, save, dirty, poll, taken, delivered>>

(* Redis runs EXEC only if the watched key is as it was.                   *)
ExecAllowed(r) == r \notin dirty /\ Live(reader[r].id)

TakeView(r, view) ==
    /\ taken' = [taken EXCEPT ![reader[r].cur.save] = @ \cup {view}]
    /\ reader' = [reader EXCEPT ![r].pc = "committed", ![r].view = view, ![r].took = @ + 1]
    /\ Touch(reader[r].id, {r})
    /\ UNCHANGED <<now, save, poll, delivered>>

(* Mutant: SET without WATCH.                                              *)
ReadSetUnwatched(r) ==
    LET id == reader[r].id
        updated == [reader[r].cur EXCEPT !.views = @ - 1, !.deadline = Expiry(reader[r].ttl)] IN
    /\ reader[r].pc = "set"
    /\ db' = [db EXCEPT ![id] = updated]
    /\ TakeView(r, updated.views)

(* MULTI SET EXEC: one view fewer, with the time PTTL reported.            *)
ReadExecSet(r) ==
    LET id == reader[r].id
        updated == [reader[r].cur EXCEPT !.views = @ - 1, !.deadline = Expiry(reader[r].ttl)] IN
    /\ reader[r].pc = "set"
    /\ ExecAllowed(r)
    /\ db' = [db EXCEPT ![id] = updated]
    /\ TakeView(r, updated.views)

(* MULTI DEL EXEC: the last view.                                          *)
ReadExecDel(r) ==
    /\ reader[r].pc = "del"
    /\ ExecAllowed(r)
    /\ db' = [db EXCEPT ![reader[r].id] = NoRecord]
    /\ TakeView(r, 0)

(* Mutant: only the EXEC is repeated, and for ever.                        *)
ReadExecAgain(r) ==
    /\ reader[r].pc \in {"set", "del"}
    /\ ~ExecAllowed(r)
    /\ UNCHANGED vars

(* EXEC refused: start over with a new WATCH until the window closes.      *)
ReadRefused(r) ==
    /\ reader[r].pc \in {"set", "del"}
    /\ ~ExecAllowed(r)
    /\ IF now - reader[r].start >= RetryWindow
       THEN Answer(r, "retry")
       ELSE /\ reader' = [reader EXCEPT ![r].pc = "watch", ![r].cur = NoRecord, ![r].ttl = 0]
            /\ dirty' = dirty \ {r}
    /\ UNCHANGED <<db, now, save, poll, taken, delivered>>

(* The reply of EXEC arrives and the reader gets the secret.               *)
ReadAnswer(r) ==
    /\ reader[r].pc = "committed"
    /\ Answer(r, "ok")
    /\ delivered' = [delivered EXCEPT ![reader[r].cur.save] = @ \cup {reader[r].view}]
    /\ UNCHANGED <<db, now, save, poll, taken>>

(* Mutant: watchWithRetry also repeats after an error that is not TxFailed. *)
ReadFailedRetried(r) ==
    /\ reader[r].pc # "idle"
    /\ reader' = [reader EXCEPT ![r].pc = "watch"]
    /\ dirty' = dirty \ {r}
    /\ UNCHANGED <<db, now, save, poll, taken, delivered>>

(* Mutant: the error path writes the record back as it was read.           *)
ReadFailedRefunds(r) ==
    /\ reader[r].pc # "idle"
    /\ Answer(r, "error")
    /\ db' = IF reader[r].pc = "committed"
             THEN [db EXCEPT ![reader[r].id] = reader[r].cur] ELSE db
    /\ UNCHANGED <<now, save, poll, taken, delivered>>

(* A command fails, or the reply of EXEC is lost after it committed.       *)
ReadFailed(r) ==
    /\ reader[r].pc # "idle"
    /\ Answer(r, "error")
    /\ UNCHANGED <<db, now, save, poll, taken, delivered>>
------------------------------------------------------------------------------
(* Asking whether secrets still exist.                                     *)

(* The page asks for secrets whose save was answered; the server keeps at  *)
(* most MaxStatusIDs of them.  poll.todo is what EXISTS was not run for.   *)
StatusRequest ==
    /\ poll.todo = {}
    /\ \E asked \in SUBSET {s \in Saves : save[s].pc = "ok"} :
          /\ Cardinality(asked) \in 1 .. MaxStatusIDs
          /\ poll' = [asked |-> asked, todo |-> asked, gone |-> {}]
    /\ UNCHANGED <<db, now, save, reader, dirty, taken, delivered>>

(* The EXISTS commands of the pipeline run one by one; the answer goes out *)
(* after the last one.                                                     *)
StatusExists(s) ==
    /\ s \in poll.todo
    /\ poll' = [poll EXCEPT !.todo = @ \ {s},
                            !.gone = IF Live(save[s].id) THEN @ ELSE @ \cup {s}]
    /\ UNCHANGED <<db, now, save, reader, dirty, taken, delivered>>

(* Mutant: a failed pipeline is answered like one that found nothing.      *)
StatusFailedAllGone ==
    /\ poll.todo # {}
    /\ poll' = [poll EXCEPT !.todo = {}, !.gone = poll.asked]
    /\ UNCHANGED <<db, now, save, reader, dirty, taken, delivered>>

(* The pipeline fails: the answer is "error" and says nothing of any id.   *)
StatusFailed ==
    /\ poll.todo # {}
    /\ poll' = NoPoll
    /\ UNCHANGED <<db, now, save, reader, dirty, taken, delivered>>
------------------------------------------------------------------------------
(* The server stops: whatever is in flight ends without an answer from it. *)
ServerCrash ==
    /\ save' = [s \in Saves |-> IF save[s].pc \in {"setnx", "stored"}
                                 THEN [save[s] EXCEPT !.pc = "error"] ELSE save[s]]
    /\ reader' = [r \in Readers |-> IF reader[r].pc = "idle" THEN reader[r]
                     ELSE [NoRequest EXCEPT !.status = "error"]]
    /\ poll' = IF poll.todo = {} THEN poll ELSE NoPoll
    /\ dirty' = {}
    /\ UNCHANGED <<db, now, taken, delivered>>

Tick ==
    /\ now < MaxTime
    /\ now' = now + 1
    /\ UNCHANGED <<db, save, reader, dirty, poll, taken, delivered>>

SaveStep(s) == SaveRequest(s) \/ (\E id \in Ids : SaveSetNX(s, id) \/ SaveCollision(s, id))
               \/ SaveAnswer(s) \/ SaveFailed(s)

(* What the server does for a request once it is in flight.                *)
ReadServed(r) ==
    \/ ReadWatch(r) \/ ReadGet(r) \/ ReadPTTL(r)
    \/ ReadExecSet(r) \/ ReadExecDel(r) \/ ReadRefused(r)
    \/ ReadAnswer(r)

StatusStep ==
    StatusRequest \/ (\E s \in Saves : StatusExists(s)) \/ StatusFailed

Next ==
    \/ \E s \in Saves : SaveStep(s)
    \/ \E r \in Readers : ReadRequest(r) \/ ReadServed(r) \/ ReadFailed(r)
    \/ StatusStep
    \/ ServerCrash
    \/ Tick

Spec == Init /\ [][Next]_vars

(* Goroutines run and Redis answers: a request in flight takes its next    *)
(* step.  Nothing obliges a client to ask, a command to fail or the server *)
(* to crash.                                                               *)
FairSpec == Spec /\ \A r \in Readers : WF_vars(ReadServed(r))
------------------------------------------------------------------------------
(* Properties.                                                             *)

ReadRequests ==
    [pc : {"idle", "watch", "get", "pttl", "set", "del", "committed"},
     id : Ids \cup {NoId}, key : PresentedKeys \cup {Empty},
     cur : Records \cup {NoRecord}, ttl : 0 .. MaxDuration, start : Nat, view : 0 .. MaxViews,
     status : {"none", "ok", "no message", "wrong key", "retry", "error"}, took : Nat]

SaveRequests ==
    [pc : {"new", "setnx", "stored", "ok", "error"}, key : StoredKeys \cup {Empty},
     version : {LegacyScheme, SchemeV3}, views : 0 .. MaxViews, duration : 0 .. MaxDuration,
     attempts : 0 .. MaxStorageIDAttempts, id : Ids \cup {NoId}, deadline : Nat]

(* What is left of a stored lifetime never exceeds MaxDuration: no read    *)
(* writes a record back without its expiry, or with a longer one.          *)
LifetimesBounded ==
    \A id \in Ids : db[id] # NoRecord => db[id].deadline <= now + MaxDuration

(* Every variable has its type; whatever clients send and readers write    *)
(* back, a stored count never exceeds MaxViews, a lifetime never           *)
(* MaxDuration, and no record is left without an expiry.                   *)
TypeOK ==
    /\ db \in [Ids -> Records \cup {NoRecord}]
    /\ LifetimesBounded
    /\ now \in Nat
    /\ save \in [Saves -> SaveRequests]
    /\ reader \in [Readers -> ReadRequests]
    /\ dirty \subseteq Readers
    /\ poll \in [asked : SUBSET Saves, todo : SUBSET Saves, gone : SUBSET Saves]
    /\ taken \in [Saves -> SUBSET (0 .. MaxViews)]
    /\ delivered \in [Saves -> SUBSET (0 .. MaxViews)]

(* A stored record and the committed reads of its secret add up to the     *)
(* views it was saved with, under every interleaving of concurrent reads   *)
(* and saves: no view is lost, invented or handed out twice, and no record *)
(* is left of a secret whose last view was taken.                          *)
ViewsConserved ==
    \A id \in Ids : db[id] # NoRecord =>
        LET s == db[id].save IN
        /\ save[s].id = id
        /\ ViewsOf(db[id].views) <= save[s].views
        /\ taken[s] = ViewsOf(db[id].views) .. (save[s].views - 1)

Holds(r, s, view) ==
    reader[r].pc = "committed" /\ reader[r].cur.save = s /\ reader[r].view = view

(* Two successful reads of a secret never get the same view: each reader   *)
(* is told a viewsLeft no other reader of that secret is ever told.        *)
ViewsAnsweredOnce ==
    \A r \in Readers : reader[r].pc = "committed" =>
        LET s == reader[r].cur.save IN
        /\ reader[r].view \in taken[s] \ delivered[s]
        /\ \A q \in Readers \ {r} : ~Holds(q, s, reader[r].view)

(* A link that was handed out works until its last view is taken or its    *)
(* lifetime ends: no other save, reader or crash takes it away early.      *)
AcknowledgedStaysReadable ==
    \A s \in Saves :
        save[s].pc = "ok" /\ 0 \notin taken[s] /\ now <= save[s].deadline
            => Live(save[s].id) /\ db[save[s].id].save = s

(* "retry" (a 503 that clients repeat), "no message" and "wrong key" prove *)
(* that the request consumed no view; no request consumes two.             *)
AnswersTellTheTruth ==
    [][\A r \in Readers :
        /\ reader'[r].took <= 1
        /\ reader[r].pc # "idle" /\ reader'[r].pc = "idle"
           /\ reader'[r].status \in {"retry", "no message", "wrong key"}
              => reader[r].took = 0]_vars

(* A secret is only ever read with the token of its own link; what the     *)
(* server stores for a v3 secret does not open it.                         *)
ReadByTokenHolder ==
    \A r \in Readers : reader[r].pc = "committed" =>
        reader[r].key = Token(reader[r].cur.save)

(* A secret that secretStatus reports gone is gone for good, however long  *)
(* ago the answer was given.                                               *)
GoneIsFinal ==
    \A s \in poll.gone, id \in Ids : db[id].save = s => ~Live(id)

(* Every read is answered, whatever the contention.                        *)
ReadsAnswered ==
    \A r \in Readers : reader[r].pc # "idle" ~> reader[r].pc = "idle"
------------------------------------------------------------------------------
(* The store implements the abstract one-time secret.                      *)

RecordOf(s) == {id \in Ids : Live(id) /\ db[id].save = s}

Abstract == INSTANCE OneTimeSecret WITH
    Secrets <- Saves,
    Requests <- Readers,
    left <- [s \in Saves |->
                IF save[s].id \in RecordOf(s) THEN ViewsOf(db[save[s].id].views) ELSE 0],
    created <- {s \in Saves : save[s].id # NoId},
    holding <- [r \in Readers |->
                IF reader[r].pc = "committed"
                THEN [secret |-> reader[r].cur.save, view |-> reader[r].view]
                ELSE [secret |-> NoSave, view |-> 0]],
    delivered <- delivered

(* Every behaviour of the store is one of OneTimeSecret.                   *)
ImplementsOneTimeSecret == Abstract!Spec
==============================================================================

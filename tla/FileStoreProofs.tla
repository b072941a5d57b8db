--------------------------- MODULE FileStoreProofs ---------------------------
(***************************************************************************)
(* Proofs about FileStore for any number of clients, readers and ids, any  *)
(* limits and any clock bound.                                             *)
(*                                                                         *)
(* FileInv needs nothing of the ids: it holds even if one is drawn twice.  *)
(* LinkInv, which speaks of blobs, needs them to be drawn once.            *)
(***************************************************************************)
EXTENDS FileStore, TLAPS

(* The phases of an upload before its record is stored.                    *)
Unsaved == {"new", "create", "copy", "chtimes", "setnx", "redo"}

(* How far an upload came and what that says of its request and its file.  *)
UploadPhases ==
    \A s \in Saves :
        /\ up[s].pc \in Unsaved \ {"new"} =>
              /\ up[s].key \in StoredKeys /\ up[s].views \in 1 .. MaxViews
              /\ up[s].duration > 0 /\ up[s].attempts < MaxStorageIDAttempts
        /\ up[s].pc \notin {"new", "create", "error"} => up[s].id \in Ids
        /\ up[s].pc \in Unsaved => taken[s] = {} /\ up[s].deadline = 0

(* What a download has established by the phase it is in: from the record  *)
(* it read to the view that it took of it.                                 *)
ReadPhases ==
    \A r \in Readers :
        /\ reader[r].pc # "idle" => reader[r].id \in Ids
        /\ reader[r].pc \notin {"idle", "watch", "get"} => reader[r].cur \in Records
        /\ reader[r].pc \in {"pttl", "set"} => reader[r].cur.views > 1
        /\ reader[r].pc = "set" => reader[r].ttl > 0
        /\ reader[r].pc \in {"committed", "unlink"} =>
              LET s == reader[r].cur.save IN
              /\ up[s].pc \notin Unsaved /\ up[s].id = reader[r].id
              /\ reader[r].view \in taken[s]
        /\ reader[r].pc = "unlink" => reader[r].view = 0

(* An untouched WATCH means the record is still the one that was read.     *)
SnapshotSound ==
    \A r \in Readers :
        reader[r].pc \in {"open", "pttl", "set", "del", "stale"} /\ r \notin dirty
            => db[reader[r].id] = reader[r].cur

(* A record belongs to an upload that came as far as storing it.           *)
RecordsOwned == \A id \in Ids : db[id] # NoRecord => up[db[id].save].pc \notin Unsaved

(* A view that is being streamed was taken, not delivered before, and is   *)
(* streamed to nobody else.                                                *)
ViewsStreamedOnce ==
    \A r \in Readers : reader[r].pc = "committed" =>
        LET s == reader[r].cur.save IN
        /\ reader[r].view \notin delivered[s]
        /\ \A q \in Readers \ {r} :
              ~ (reader[q].pc = "committed" /\ reader[q].cur.save = s
                 /\ reader[q].view = reader[r].view)

DeliveredWereTaken == \A s \in Saves : delivered[s] \subseteq taken[s]

FileInv ==
    /\ TypeOK
    /\ UploadPhases
    /\ ReadPhases
    /\ SnapshotSound
    /\ RecordsOwned
    /\ FileViewsConserved
    /\ ViewsStreamedOnce
    /\ DeliveredWereTaken
------------------------------------------------------------------------------
(* What else holds when no id is drawn twice.                              *)

IdsOfTheirOwn ==
    /\ \A s \in Saves : up[s].pc \in {"new", "create"} => up[s].id = NoId
    /\ \A s \in Saves : up[s].id # NoId => up[s].id \in drawn
    /\ \A s, t \in Saves : up[s].id = up[t].id /\ up[s].id # NoId => s = t

(* A blob is that of the upload with its id, and all of it once a record   *)
(* may follow.                                                             *)
BlobsOwned ==
    \A id \in Ids : blob[id] # NoBlob =>
        /\ up[blob[id].save].id = id
        /\ blob[id].whole \/ up[blob[id].save].pc \in {"copy", "undo", "error"}
        /\ db[id] # NoRecord => blob[id].whole

(* What a download opened is the file of the record that it will commit,   *)
(* and a record it is about to delete as stale has no blob.                *)
OpenedSound ==
    \A r \in Readers :
        /\ \/ reader[r].pc \in {"pttl", "set", "del"} /\ r \notin dirty
           \/ reader[r].pc = "committed"
           => reader[r].fd.whole /\ reader[r].fd.save = reader[r].cur.save
        /\ reader[r].pc = "stale" /\ r \notin dirty => blob[reader[r].id] = NoBlob

(* The time of a sweep has come, and the mtime it judges by had passed.    *)
SweepSound == sweep.seen <= sweep.at /\ sweep.at <= now

(* A file with views left keeps its record at least until the record's     *)
(* first deadline, which is no earlier than the end the blob was given.    *)
LifetimeKept ==
    /\ \A s \in Saves :
          /\ up[s].pc \in {"copy", "chtimes", "setnx"} => up[s].expires <= now + up[s].duration
          /\ up[s].pc \in {"stored", "ok"} =>
                /\ up[s].expires <= up[s].deadline
                /\ 0 \notin taken[s] /\ now <= up[s].deadline /\ blob[up[s].id].save = s =>
                      /\ db[up[s].id].save = s
                      /\ up[s].deadline <= db[up[s].id].deadline
    /\ \A r \in Readers :
          reader[r].pc = "set" /\ r \notin dirty => reader[r].cur.deadline <= now + reader[r].ttl

LinkInv ==
    /\ IdsOfTheirOwn
    /\ BlobsOwned
    /\ OpenedSound
    /\ SweepSound
    /\ LifetimeKept
-------------------------------------------------------------------------------
(* Each step of Next, named, for the case splits below.                    *)
LEMMA NextCases ==
    ASSUME Next
    PROVE  \/ \E s \in Saves :
                 \/ UploadRequest(s) \/ (\E id \in Ids : UploadCreate(s, id))
                 \/ UploadCopy(s) \/ UploadChtimes(s) \/ UploadSetNX(s) \/ UploadUndo(s)
                 \/ UploadAnswer(s) \/ UploadFailed(s)
           \/ \E r \in Readers :
                 \/ ReadRequest(r) \/ ReadWatch(r) \/ ReadGet(r) \/ ReadOpen(r) \/ ReadPTTL(r)
                 \/ ReadExecSet(r) \/ ReadExecDel(r) \/ ReadExecStale(r) \/ ReadRefused(r)
                 \/ ReadStream(r) \/ ReadUnlink(r) \/ ReadFailed(r)
           \/ SweepStart \/ SweepRemove \/ SweepEnd \/ SweepFailed
           \/ \E id \in Ids : SweepInfo(id)
           \/ ServerCrash
           \/ Tick
BY DEF Next, UploadStep, ReadServed, SweepStep

LEMMA ClampTypes ==
    /\ \A n \in Int : ClampViews(n) \in 1 .. MaxViews
    /\ \A d \in Int : ClampDuration(d) \in 1 .. MaxDuration
    /\ \A n \in 1 .. MaxViews : StoredViews(n) \in 0 .. MaxViews /\ ViewsOf(StoredViews(n)) = n
BY LimitsAssumption DEF ClampViews, ClampDuration, StoredViews, ViewsOf

LEMMA SchemeTypes ==
    ASSUME NEW s \in Saves, NEW form \in SaveForms(s), SchemeAccepted(form)
    PROVE  SchemeStored(form) \in StoredKeys /\ form.v \in {LegacyScheme, SchemeV3}
<1>1. /\ form.legacy \in {Empty, Malformed, Token(s)}
      /\ form.hash \in {Empty, Malformed, Hash(Token(s))}
    BY DEF SaveForms
<1>2. Token(s) \in StoredKeys /\ Hash(Token(s)) \in StoredKeys
    BY DEF StoredKeys
<1> QED BY <1>1, <1>2 DEF SchemeAccepted, SchemeStored, IsValidHashedKey, LegacyScheme, SchemeV3

LEMMA NoRequestType == NoRequest \in ReadRequests /\ NoRequest.pc = "idle"
BY LimitsAssumption DEF NoRequest, ReadRequests

Statuses == {"none", "ok", "no message", "wrong key", "retry", "error"}

(* The request of r is over, whatever it was answered.                     *)
Ended(r) ==
    /\ \E status \in Statuses : reader' = [reader EXCEPT ![r] = [NoRequest EXCEPT !.status = status]]
    /\ dirty' = dirty \ {r}

LEMMA EndedType ==
    ASSUME NEW status \in Statuses
    PROVE  /\ [NoRequest EXCEPT !.status = status] \in ReadRequests
           /\ [NoRequest EXCEPT !.status = status].pc = "idle"
           /\ [NoRequest EXCEPT !.status = status].status = status
           /\ [NoRequest EXCEPT !.status = status].took = 0
<1>1. NoRequest.took = 0
    BY DEF NoRequest
<1> QED BY <1>1, NoRequestType DEF ReadRequests, Statuses

LEMMA OutcomeType ==
    ASSUME NEW q \in ReadRequests
    PROVE  Outcome(q) \in Statuses
BY DEF Outcome, ReadRequests, Statuses

LEMMA AnsweredEnds ==
    ASSUME NEW r, NEW status \in Statuses, Answered(r, status)
    PROVE  Ended(r)
BY DEF Answered, Ended

(* Each step that may answer, with what it does if it does not.            *)
LEMMA GetCases ==
    ASSUME NEW r, ReadGet(r)
    PROVE  \/ Ended(r)
           \/ /\ Live(reader[r].id) /\ dirty' = dirty
              /\ reader' = [reader EXCEPT ![r].cur = db[reader[r].id], ![r].pc = "open"]
BY AnsweredEnds DEF ReadGet, Statuses

LEMMA RefusedCases ==
    ASSUME NEW r, ReadRefused(r)
    PROVE  \/ Ended(r)
           \/ /\ reader' = [reader EXCEPT ![r].pc = "watch", ![r].cur = NoRecord,
                                          ![r].fd = NoBlob, ![r].ttl = 0]
              /\ dirty' = dirty \ {r}
BY AnsweredEnds DEF ReadRefused, Statuses

LEMMA StreamCases ==
    ASSUME NEW r, ReadStream(r)
    PROVE  \/ Ended(r)
           \/ /\ reader[r].view = 0 /\ dirty' = dirty
              /\ \E status \in Statuses :
                    reader' = [reader EXCEPT ![r].pc = "unlink", ![r].status = status]
<1>1. PICK status \in Statuses : StreamEnds(r, status)
    BY DEF ReadStream, StreamStatus, Statuses
<1> QED BY <1>1, AnsweredEnds DEF StreamEnds

LEMMA EndCases ==
    ASSUME NEW r, reader[r] \in ReadRequests, ReadUnlink(r) \/ ReadFailed(r)
    PROVE  Ended(r)
<1>1. reader[r].status \in Statuses
    BY DEF ReadRequests, Statuses
<1> QED BY <1>1, OutcomeType, AnsweredEnds DEF ReadUnlink, ReadFailed

LEMMA NewUploadType ==
    /\ NewUpload \in UploadRequests
    /\ NewUpload.pc = "new" /\ NewUpload.id = NoId /\ NewUpload.deadline = 0
    /\ NewUpload.attempts = 0 /\ NewUpload.expires = 0 /\ NewUpload.views = 0
BY LimitsAssumption, FileAssumption DEF NewUpload, UploadRequests

LEMMA ReturnedType ==
    ASSUME NEW u \in UploadRequests, NEW pc \in {"ok", "error"}
    PROVE  /\ Returned(u, pc) \in UploadRequests
           /\ Returned(u, pc).pc = pc /\ Returned(u, pc).id = u.id
           /\ Returned(u, pc).views = u.views /\ Returned(u, pc).deadline = u.deadline
           /\ Returned(u, pc).expires = u.expires
<1>1. u.views \in 0 .. MaxViews /\ u.id \in Ids \cup {NoId} /\ u.expires \in Nat /\ u.deadline \in Nat
    BY DEF UploadRequests
<1> QED BY <1>1, NewUploadType DEF Returned, UploadRequests

LEMMA NoRecordIsNone == \A rec \in Records : rec # NoRecord /\ rec.save \in Saves
BY NoSaveAssumption DEF Records, NoRecord

LEMMA NoBlobIsNone == \A b \in Blobs : b # NoBlob /\ b.save \in Saves
BY NoSaveAssumption DEF Blobs, NoBlob

(* A record as SETNX stores it and as a download writes it back.           *)
LEMMA RecordType ==
    ASSUME NEW s \in Saves, NEW key \in StoredKeys, NEW version \in {LegacyScheme, SchemeV3},
           NEW views \in 0 .. MaxViews, NEW deadline \in Nat
    PROVE  [save |-> s, key |-> key, version |-> version, views |-> views,
            deadline |-> deadline] \in Records
BY DEF Records

LEMMA UpdatedType ==
    ASSUME NEW rec \in Records, rec.views > 1, NEW deadline \in Nat
    PROVE  [rec EXCEPT !.views = @ - 1, !.deadline = deadline] \in Records
<1>1. rec.views \in 0 .. MaxViews /\ rec.views - 1 \in 0 .. MaxViews
    BY LimitsAssumption DEF Records
<1> QED BY <1>1 DEF Records
-------------------------------------------------------------------------------
(* FileInv holds initially and is kept by every step.                      *)

LEMMA InitInv == Init => FileInv
<1> SUFFICES ASSUME Init PROVE FileInv
    OBVIOUS
<1>1. /\ \A s \in Saves : up[s] = NewUpload /\ taken[s] = {} /\ delivered[s] = {}
      /\ \A r \in Readers : reader[r] = NoRequest
      /\ \A id \in Ids : db[id] = NoRecord
    BY DEF Init
<1>2. TypeOK
    <2>1. Resting \in [pc : {"rest", "scan"}, at : Nat, todo : SUBSET Ids,
                       doomed : Ids \cup {NoId}, seen : Nat]
        BY DEF Resting
    <2> QED BY <2>1, NoRequestType, NewUploadType DEF Init, TypeOK
<1>3. /\ \A s \in Saves : up[s].pc = "new" /\ up[s].deadline = 0
      /\ \A r \in Readers : reader[r].pc = "idle"
    BY <1>1, NoRequestType, NewUploadType
<1>4. UploadPhases
    BY <1>1, <1>3 DEF UploadPhases, Unsaved
<1> QED BY <1>1, <1>2, <1>3, <1>4 DEF FileInv, ReadPhases, SnapshotSound, RecordsOwned,
        FileViewsConserved, ViewsStreamedOnce, DeliveredWereTaken

(* A step of an upload that leaves the records alone.                      *)
LEMMA UploadMoves ==
    ASSUME FileInv, NEW s \in Saves, NEW new \in UploadRequests,
           up' = [up EXCEPT ![s] = new],
           UNCHANGED <<db, dirty, now, reader, sweep, taken, delivered>>,
           drawn' \subseteq Ids, blob' \in [Ids -> Blobs \cup {NoBlob}],
           new.pc \in Unsaved \ {"new"} =>
               /\ new.key \in StoredKeys /\ new.views \in 1 .. MaxViews
               /\ new.duration > 0 /\ new.attempts < MaxStorageIDAttempts,
           new.pc \notin {"new", "create", "error"} => new.id \in Ids,
           new.pc \in Unsaved => up[s].pc \in Unsaved /\ new.deadline = 0,
           up[s].pc \notin Unsaved =>
               new.pc \notin Unsaved /\ new.id = up[s].id /\ new.views = up[s].views
    PROVE  FileInv'
<1> USE DEF FileInv
<1>1. up'[s] = new /\ \A t \in Saves \ {s} : up'[t] = up[t]
    BY DEF TypeOK
<1>2. TypeOK'
    BY DEF TypeOK
<1>3. UploadPhases'
    BY <1>1 DEF UploadPhases
<1>4. /\ \A id \in Ids : db[id] # NoRecord => db[id].save \in Saves
      /\ \A r \in Readers : reader[r].pc \in {"committed", "unlink"} => reader[r].cur.save \in Saves
    BY NoRecordIsNone DEF TypeOK, ReadPhases
<1>5. ReadPhases'
    <2>1. \A r \in Readers : reader[r].pc \in {"committed", "unlink"} =>
             LET t == reader[r].cur.save IN
             /\ up'[t].pc \notin Unsaved /\ up'[t].id = reader[r].id
             /\ reader[r].view \in taken[t]
        BY <1>1, <1>4 DEF ReadPhases
    <2> QED BY <2>1 DEF ReadPhases
<1>6. RecordsOwned' /\ FileViewsConserved'
    BY <1>1, <1>4 DEF RecordsOwned, FileViewsConserved
<1>7. SnapshotSound' /\ ViewsStreamedOnce' /\ DeliveredWereTaken'
    BY DEF SnapshotSound, ViewsStreamedOnce, DeliveredWereTaken
<1> QED BY <1>2, <1>3, <1>5, <1>6, <1>7

LEMMA AnotherIdType ==
    ASSUME NEW u \in UploadRequests, u.attempts < MaxStorageIDAttempts
    PROVE  /\ AnotherId(u) \in UploadRequests
           /\ AnotherId(u).pc \in {"create", "error"}
           /\ AnotherId(u).key = u.key \/ AnotherId(u).pc = "error"
           /\ AnotherId(u).duration = u.duration \/ AnotherId(u).pc = "error"
           /\ AnotherId(u).attempts < MaxStorageIDAttempts
           /\ AnotherId(u).views = u.views /\ AnotherId(u).deadline = u.deadline
           /\ AnotherId(u).id = NoId
<1>1. /\ u.attempts \in 0 .. MaxStorageIDAttempts /\ MaxStorageIDAttempts \in Nat
      /\ 0 < MaxStorageIDAttempts
    BY FileAssumption DEF UploadRequests
<1>2. CASE u.attempts + 1 < MaxStorageIDAttempts
    <2> DEFINE more == u.attempts + 1
    <2>1. AnotherId(u) = [u EXCEPT !.attempts = more, !.id = NoId, !.expires = 0, !.pc = "create"]
        BY <1>2 DEF AnotherId
    <2>2. more \in 0 .. MaxStorageIDAttempts /\ more < MaxStorageIDAttempts
        BY <1>1, <1>2
    <2> HIDE DEF more
    <2>3. AnotherId(u) \in UploadRequests
        <3> DEFINE v == [u EXCEPT !.attempts = more, !.id = NoId, !.expires = 0]
        <3>1. v \in UploadRequests
            BY <2>2 DEF UploadRequests
        <3>2. AnotherId(u) = [v EXCEPT !.pc = "create"]
            BY <2>1 DEF UploadRequests
        <3> HIDE DEF v
        <3> QED BY <3>1, <3>2 DEF UploadRequests
    <2>4. /\ AnotherId(u).pc = "create" /\ AnotherId(u).id = NoId /\ AnotherId(u).key = u.key
          /\ AnotherId(u).attempts = more /\ AnotherId(u).views = u.views
          /\ AnotherId(u).duration = u.duration /\ AnotherId(u).deadline = u.deadline
        BY <2>1 DEF UploadRequests
    <2> QED BY <2>2, <2>3, <2>4
<1>3. CASE ~ (u.attempts + 1 < MaxStorageIDAttempts)
    <2> DEFINE v == [u EXCEPT !.id = NoId]
    <2>1. AnotherId(u) = Returned(v, "error")
        BY <1>3 DEF AnotherId
    <2>2. /\ v \in UploadRequests /\ v.views = u.views /\ v.id = NoId
          /\ v.deadline = u.deadline
        BY DEF UploadRequests
    <2> HIDE DEF v
    <2>3. Returned(v, "error").attempts = 0
        BY NewUploadType DEF Returned, UploadRequests
    <2> QED BY <1>1, <2>1, <2>2, <2>3, ReturnedType
<1> QED BY <1>2, <1>3

LEMMA StepUploadRequest ==
    ASSUME FileInv, NEW s \in Saves, UploadRequest(s)
    PROVE  FileInv'
<1>1. PICK form \in SaveForms(s), views \in RequestViews, duration \in RequestDurations :
         up' = [up EXCEPT ![s] =
                   IF SchemeAccepted(form)
                   THEN [NewUpload EXCEPT !.pc = "create",
                                          !.key = SchemeStored(form),
                                          !.version = form.v,
                                          !.views = ClampViews(views),
                                          !.duration = ClampDuration(duration)]
                   ELSE [NewUpload EXCEPT !.pc = "error"]]
    BY DEF UploadRequest
<1>2. /\ up[s].pc = "new"
      /\ UNCHANGED <<db, blob, drawn, dirty, now, reader, sweep, taken, delivered>>
      /\ drawn \subseteq Ids /\ blob \in [Ids -> Blobs \cup {NoBlob}]
    BY DEF UploadRequest, uploadOnly, FileInv, TypeOK
<1>3. CASE SchemeAccepted(form)
    <2> DEFINE new == [NewUpload EXCEPT !.pc = "create", !.key = SchemeStored(form),
                                        !.version = form.v, !.views = ClampViews(views),
                                        !.duration = ClampDuration(duration)]
    <2>1. /\ ClampViews(views) \in 1 .. MaxViews /\ ClampDuration(duration) \in 1 .. MaxDuration
          /\ SchemeStored(form) \in StoredKeys /\ form.v \in {LegacyScheme, SchemeV3}
        BY <1>3, ClampTypes, SchemeTypes, FileAssumption
    <2>2. ClampViews(views) \in 0 .. MaxViews /\ ClampDuration(duration) \in 0 .. MaxDuration
        BY <2>1, LimitsAssumption
    <2>3. new \in UploadRequests
        BY <2>1, <2>2, NewUploadType DEF UploadRequests
    <2>4. /\ new.pc = "create" /\ new.key \in StoredKeys /\ new.views \in 1 .. MaxViews
          /\ new.duration > 0 /\ new.attempts < MaxStorageIDAttempts /\ new.deadline = 0
        BY <2>1, NewUploadType, FileAssumption, LimitsAssumption DEF UploadRequests
    <2>5. up' = [up EXCEPT ![s] = new]
        BY <1>1, <1>3
    <2> HIDE DEF new
    <2> QED BY <1>2, <2>3, <2>4, <2>5, UploadMoves DEF Unsaved
<1>4. CASE ~ SchemeAccepted(form)
    <2> DEFINE new == [NewUpload EXCEPT !.pc = "error"]
    <2>1. new \in UploadRequests /\ new.pc = "error"
        BY NewUploadType DEF UploadRequests
    <2>2. up' = [up EXCEPT ![s] = new]
        BY <1>1, <1>4
    <2> HIDE DEF new
    <2> QED BY <1>2, <2>1, <2>2, UploadMoves DEF Unsaved
<1> QED BY <1>3, <1>4

LEMMA StepUploadCreate ==
    ASSUME FileInv, NEW s \in Saves, NEW id \in Ids, UploadCreate(s, id)
    PROVE  FileInv'
<1>1. /\ up[s].pc = "create" /\ drawn' = drawn \cup {id}
      /\ UNCHANGED <<db, dirty, now, reader, sweep, taken, delivered>>
      /\ drawn' \subseteq Ids /\ blob \in [Ids -> Blobs \cup {NoBlob}] /\ now \in Nat
      /\ up[s] \in UploadRequests
    BY DEF UploadCreate, uploadOnly, FileInv, TypeOK
<1>2. /\ up[s].key \in StoredKeys /\ up[s].views \in 1 .. MaxViews
      /\ up[s].duration > 0 /\ up[s].attempts < MaxStorageIDAttempts /\ up[s].deadline = 0
      /\ up[s].duration \in Nat
    BY <1>1, LimitsAssumption DEF FileInv, UploadPhases, Unsaved, UploadRequests
<1>3. CASE blob[id] # NoBlob
    <2> DEFINE new == AnotherId(up[s])
    <2>1. up' = [up EXCEPT ![s] = new] /\ blob' = blob
        BY <1>3 DEF UploadCreate
    <2>2. /\ new \in UploadRequests /\ new.pc \in {"create", "error"} /\ new.deadline = 0
          /\ new.pc = "create" => /\ new.key \in StoredKeys /\ new.views \in 1 .. MaxViews
                                  /\ new.duration > 0 /\ new.attempts < MaxStorageIDAttempts
        BY <1>1, <1>2, AnotherIdType
    <2> HIDE DEF new
    <2> QED BY <1>1, <2>1, <2>2, UploadMoves DEF Unsaved
<1>4. CASE blob[id] = NoBlob
    <2> DEFINE expires == now + up[s].duration
               new == [up[s] EXCEPT !.pc = "copy", !.id = id, !.expires = expires]
    <2>1. /\ up' = [up EXCEPT ![s] = new]
          /\ blob' = [blob EXCEPT ![id] = [save |-> s, whole |-> FALSE, mtime |-> now]]
        BY <1>4 DEF UploadCreate
    <2>2. expires \in Nat
        BY <1>1, <1>2
    <2> HIDE DEF expires
    <2>3. new \in UploadRequests
        BY <1>1, <2>2 DEF UploadRequests
    <2>4. /\ new.pc = "copy" /\ new.id = id /\ new.key = up[s].key /\ new.views = up[s].views
          /\ new.duration = up[s].duration /\ new.attempts = up[s].attempts
          /\ new.deadline = up[s].deadline
        BY <1>1 DEF UploadRequests
    <2>5. blob' \in [Ids -> Blobs \cup {NoBlob}]
        BY <1>1, <2>1 DEF Blobs
    <2> HIDE DEF new
    <2> QED BY <1>1, <1>2, <2>1, <2>3, <2>4, <2>5, UploadMoves DEF Unsaved
<1> QED BY <1>3, <1>4

(* A step that only moves the phase on and touches the blob perhaps.       *)
LEMMA UploadPhaseMoves ==
    ASSUME FileInv, NEW s \in Saves,
           NEW pc \in {"copy", "chtimes", "setnx", "stored", "redo", "undo"},
           up[s].pc \notin {"new", "create", "error", "ok"},
           pc \in Unsaved => up[s].pc \in Unsaved,
           up' = [up EXCEPT ![s] = [up[s] EXCEPT !.pc = pc]],
           UNCHANGED <<db, drawn, dirty, now, reader, sweep, taken, delivered>>,
           blob' \in [Ids -> Blobs \cup {NoBlob}]
    PROVE  FileInv'
<1> DEFINE new == [up[s] EXCEPT !.pc = pc]
<1>1. up[s] \in UploadRequests /\ drawn' \subseteq Ids
    BY DEF FileInv, TypeOK
<1>2. /\ new \in UploadRequests /\ new.pc = pc /\ new.id = up[s].id /\ new.key = up[s].key
      /\ new.views = up[s].views /\ new.duration = up[s].duration
      /\ new.attempts = up[s].attempts /\ new.deadline = up[s].deadline
    BY <1>1 DEF UploadRequests
<1>3. up[s].id \in Ids
    BY DEF FileInv, UploadPhases
<1>4. up[s].pc \in Unsaved \ {"new"} =>
          /\ up[s].key \in StoredKeys /\ up[s].views \in 1 .. MaxViews
          /\ up[s].duration > 0 /\ up[s].attempts < MaxStorageIDAttempts /\ up[s].deadline = 0
    BY DEF FileInv, UploadPhases
<1>5. up' = [up EXCEPT ![s] = new]
    OBVIOUS
<1> HIDE DEF new
<1>6. /\ new.pc \in Unsaved \ {"new"} => up[s].pc \in Unsaved \ {"new"}
      /\ up[s].pc \notin Unsaved => new.pc \notin Unsaved
    BY <1>2
<1>7. UNCHANGED <<db, dirty, now, reader, sweep, taken, delivered>>
    OBVIOUS
<1>8. new.pc \in Unsaved \ {"new"} =>
          /\ new.key \in StoredKeys /\ new.views \in 1 .. MaxViews
          /\ new.duration > 0 /\ new.attempts < MaxStorageIDAttempts /\ new.deadline = 0
    BY <1>2, <1>4, <1>6
<1>9. /\ new.pc \in Unsaved => up[s].pc \in Unsaved /\ new.deadline = 0
      /\ up[s].pc \notin Unsaved =>
               new.pc \notin Unsaved /\ new.id = up[s].id /\ new.views = up[s].views
      /\ new.id \in Ids
    <2>1. new.pc # "new"
        BY <1>2
    <2> QED BY <1>2, <1>3, <1>6, <1>8, <2>1
<1> QED BY <1>1, <1>2, <1>5, <1>7, <1>8, <1>9, UploadMoves

LEMMA StepUploadCopy ==
    ASSUME FileInv, NEW s \in Saves, UploadCopy(s)
    PROVE  FileInv'
<1>1. /\ up[s].pc = "copy" /\ up' = [up EXCEPT ![s].pc = "chtimes"]
      /\ UNCHANGED <<db, drawn, dirty, now, reader, sweep, taken, delivered>>
      /\ blob \in [Ids -> Blobs \cup {NoBlob}] /\ now \in Nat
    BY DEF UploadCopy, uploadOnly, FileInv, TypeOK
<1>2. up' = [up EXCEPT ![s] = [up[s] EXCEPT !.pc = "chtimes"]]
    BY <1>1
<1>3. blob' \in [Ids -> Blobs \cup {NoBlob}]
    <2>1. CASE blob[up[s].id].save # s
        BY <1>1, <2>1 DEF UploadCopy
    <2>2. CASE blob[up[s].id].save = s
        <3> DEFINE id == up[s].id
                   b == [blob[id] EXCEPT !.whole = TRUE, !.mtime = now]
        <3>1. id \in Ids /\ blob[id] \in Blobs
            BY <1>1, <2>2, NoSaveAssumption DEF FileInv, UploadPhases, NoBlob
        <3>2. b \in Blobs
            BY <1>1, <3>1 DEF Blobs
        <3>3. blob' = [blob EXCEPT ![id] = b]
            BY <1>1, <2>2, <3>1 DEF UploadCopy
        <3> HIDE DEF b, id
        <3> QED BY <1>1, <3>2, <3>3
    <2> QED BY <2>1, <2>2
<1> QED BY <1>1, <1>2, <1>3, UploadPhaseMoves DEF Unsaved

LEMMA StepUploadChtimes ==
    ASSUME FileInv, NEW s \in Saves, UploadChtimes(s)
    PROVE  FileInv'
<1>1. /\ up[s].pc = "chtimes"
      /\ UNCHANGED <<db, drawn, dirty, now, reader, sweep, taken, delivered>>
      /\ blob \in [Ids -> Blobs \cup {NoBlob}] /\ up[s] \in UploadRequests
    BY DEF UploadChtimes, uploadOnly, FileInv, TypeOK
<1>2. CASE blob[up[s].id] = NoBlob
    <2>1. up' = [up EXCEPT ![s] = [up[s] EXCEPT !.pc = "undo"]] /\ blob' = blob
        BY <1>2 DEF UploadChtimes
    <2> QED BY <1>1, <2>1, UploadPhaseMoves DEF Unsaved
<1>3. CASE blob[up[s].id] # NoBlob
    <2> DEFINE id == up[s].id
               b == [blob[id] EXCEPT !.mtime = up[s].expires]
    <2>1. /\ up' = [up EXCEPT ![s] = [up[s] EXCEPT !.pc = "setnx"]]
          /\ blob' = [blob EXCEPT ![id].mtime = up[s].expires]
        BY <1>3 DEF UploadChtimes
    <2>2. id \in Ids /\ blob[id] \in Blobs
        BY <1>1, <1>3 DEF FileInv, UploadPhases
    <2>3. b \in Blobs
        BY <1>1, <2>2 DEF Blobs, UploadRequests
    <2>4. blob' = [blob EXCEPT ![id] = b]
        BY <1>1, <2>1, <2>2
    <2>5. blob' \in [Ids -> Blobs \cup {NoBlob}]
        <3> HIDE DEF b, id
        <3> QED BY <1>1, <2>3, <2>4
    <2> QED BY <1>1, <2>1, <2>5, UploadPhaseMoves DEF Unsaved
<1> QED BY <1>2, <1>3

(* The handler returns.                                                    *)
LEMMA UploadReturns ==
    ASSUME FileInv, NEW s \in Saves, NEW outcome \in {"ok", "error"},
           up[s].pc # "new", outcome = "ok" => up[s].pc = "stored",
           up' = [up EXCEPT ![s] = Returned(up[s], outcome)],
           UNCHANGED <<db, drawn, dirty, now, reader, sweep, taken, delivered>>,
           blob' \in [Ids -> Blobs \cup {NoBlob}]
    PROVE  FileInv'
<1> DEFINE new == Returned(up[s], outcome)
<1>1. up[s] \in UploadRequests /\ drawn' \subseteq Ids
    BY DEF FileInv, TypeOK
<1>2. /\ new \in UploadRequests /\ new.pc = outcome /\ new.id = up[s].id
      /\ new.views = up[s].views
    BY <1>1, ReturnedType
<1>3. outcome = "ok" => up[s].id \in Ids
    BY DEF FileInv, UploadPhases
<1>4. up' = [up EXCEPT ![s] = new]
    OBVIOUS
<1> HIDE DEF new
<1> QED BY <1>1, <1>2, <1>3, <1>4, UploadMoves DEF Unsaved

LEMMA StepUploadUndo ==
    ASSUME FileInv, NEW s \in Saves, UploadUndo(s)
    PROVE  FileInv'
<1>1. /\ up[s].pc \in {"redo", "undo"}
      /\ UNCHANGED <<db, drawn, dirty, now, reader, sweep, taken, delivered>>
      /\ up[s] \in UploadRequests /\ drawn' \subseteq Ids
      /\ blob' \in [Ids -> Blobs \cup {NoBlob}]
    BY DEF UploadUndo, uploadOnly, FileInv, TypeOK
<1>2. CASE up[s].pc = "undo"
    <2>1. up' = [up EXCEPT ![s] = Returned(up[s], "error")]
        BY <1>2 DEF UploadUndo
    <2> QED BY <1>1, <1>2, <2>1, UploadReturns
<1>3. CASE up[s].pc = "redo"
    <2> DEFINE new == AnotherId(up[s])
    <2>1. up' = [up EXCEPT ![s] = new]
        BY <1>3 DEF UploadUndo
    <2>2. /\ up[s].key \in StoredKeys /\ up[s].views \in 1 .. MaxViews
          /\ up[s].duration > 0 /\ up[s].attempts < MaxStorageIDAttempts /\ up[s].deadline = 0
        BY <1>3 DEF FileInv, UploadPhases, Unsaved
    <2>3. /\ new \in UploadRequests /\ new.pc \in {"create", "error"} /\ new.deadline = 0
          /\ new.pc = "create" => /\ new.key \in StoredKeys /\ new.views \in 1 .. MaxViews
                                  /\ new.duration > 0 /\ new.attempts < MaxStorageIDAttempts
        BY <1>1, <2>2, AnotherIdType
    <2> HIDE DEF new
    <2> QED BY <1>1, <1>3, <2>1, <2>3, UploadMoves DEF Unsaved
<1> QED BY <1>1, <1>2, <1>3

LEMMA StepUploadAnswer ==
    ASSUME FileInv, NEW s \in Saves, UploadAnswer(s)
    PROVE  FileInv'
<1>1. /\ up[s].pc = "stored" /\ up' = [up EXCEPT ![s] = Returned(up[s], "ok")]
      /\ UNCHANGED <<db, blob, drawn, dirty, now, reader, sweep, taken, delivered>>
      /\ blob \in [Ids -> Blobs \cup {NoBlob}]
    BY DEF UploadAnswer, uploadOnly, FileInv, TypeOK
<1> QED BY <1>1, UploadReturns

LEMMA StepUploadFailed ==
    ASSUME FileInv, NEW s \in Saves, UploadFailed(s)
    PROVE  FileInv'
<1>1. /\ up[s].pc \in {"create", "copy", "chtimes", "setnx", "stored"}
      /\ up' = [up EXCEPT ![s] = IF up[s].pc = "create" THEN Returned(up[s], "error")
                                 ELSE [up[s] EXCEPT !.pc = "undo"]]
      /\ UNCHANGED <<db, blob, drawn, dirty, now, reader, sweep, taken, delivered>>
      /\ blob \in [Ids -> Blobs \cup {NoBlob}]
    BY DEF UploadFailed, uploadOnly, FileInv, TypeOK
<1>2. CASE up[s].pc = "create"
    BY <1>1, <1>2, UploadReturns
<1>3. CASE up[s].pc # "create"
    BY <1>1, <1>3, UploadPhaseMoves DEF Unsaved
<1> QED BY <1>2, <1>3

(* SETNX starts the account of its file: all views left, none taken.       *)
LEMMA StepUploadSetNX ==
    ASSUME FileInv, NEW s \in Saves, UploadSetNX(s)
    PROVE  FileInv'
<1> USE DEF FileInv
<1> DEFINE id == up[s].id
           u == up[s]
<1>1. /\ u.pc = "setnx" /\ UNCHANGED <<blob, drawn, now, reader, sweep, taken, delivered>>
      /\ u \in UploadRequests /\ up \in [Saves -> UploadRequests] /\ now \in Nat
      /\ db \in [Ids -> Records \cup {NoRecord}] /\ blob \in [Ids -> Blobs \cup {NoBlob}]
    BY DEF UploadSetNX, uploadOnly, TypeOK
<1>2. CASE Live(id)
    <2>1. up' = [up EXCEPT ![s] = [up[s] EXCEPT !.pc = "redo"]] /\ UNCHANGED <<db, dirty>>
        BY <1>2 DEF UploadSetNX
    <2> QED BY <1>1, <2>1, UploadPhaseMoves DEF Unsaved
<1>3. CASE ~ Live(id)
    <2> DEFINE deadline == now + u.duration
               rec == [save |-> s, key |-> u.key, version |-> u.version,
                       views |-> StoredViews(u.views), deadline |-> deadline]
               new == [u EXCEPT !.pc = "stored", !.deadline = deadline]
    <2>1. /\ up' = [up EXCEPT ![s] = new] /\ db' = [db EXCEPT ![id] = rec] /\ Touch(id, {})
        BY <1>1, <1>3 DEF UploadSetNX
    <2>2. /\ id \in Ids /\ u.key \in StoredKeys /\ u.views \in 1 .. MaxViews
          /\ taken[s] = {} /\ deadline \in Nat
        <3>1. u.duration \in Nat
            BY <1>1, LimitsAssumption DEF UploadRequests
        <3> QED BY <1>1, <3>1 DEF UploadPhases, Unsaved
    <2>3. StoredViews(u.views) \in 0 .. MaxViews /\ ViewsOf(StoredViews(u.views)) = u.views
        BY <2>2, ClampTypes
    <2>4. rec \in Records /\ rec.save = s /\ rec.views = StoredViews(u.views)
        <3> HIDE DEF deadline
        <3> QED BY <1>1, <2>2, <2>3, RecordType DEF UploadRequests
    <2>5. /\ new \in UploadRequests /\ new.pc = "stored" /\ new.id = id /\ new.views = u.views
        <3> HIDE DEF deadline
        <3> QED BY <1>1, <2>2 DEF UploadRequests
    <2> HIDE DEF rec, new
    <2>6. up'[s] = new /\ \A t \in Saves \ {s} : up'[t] = up[t]
        BY <1>1, <2>1
    <2>7. db'[id] = rec /\ \A i \in Ids \ {id} : db'[i] = db[i]
        BY <1>1, <2>1, <2>2
    <2>8. dirty' = dirty \cup {r \in Readers : reader[r].pc \in Watching /\ reader[r].id = id}
        BY <2>1 DEF Touch
    <2>9. TypeOK'
        <3>1. up' \in [Saves -> UploadRequests]
            BY <1>1, <2>1, <2>5
        <3>2. db' \in [Ids -> Records \cup {NoRecord}]
            BY <1>1, <2>1, <2>4
        <3>3. dirty' \subseteq Readers
            BY <2>8 DEF TypeOK
        <3> QED BY <1>1, <3>1, <3>2, <3>3 DEF TypeOK
    <2>10. UploadPhases'
        BY <1>1, <2>2, <2>5, <2>6 DEF UploadPhases, Unsaved
    <2>11. \A i \in Ids : db[i] # NoRecord => db[i].save \in Saves \ {s}
        <3>1. \A i \in Ids : db[i] # NoRecord => db[i].save \in Saves
            BY <1>1, NoRecordIsNone
        <3> QED BY <1>1, <3>1 DEF RecordsOwned, Unsaved
    <2>12. \A r \in Readers : reader[r].pc \in {"committed", "unlink"} =>
               reader[r].cur.save \in Saves \ {s}
        <3>1. \A r \in Readers : reader[r].pc \in {"committed", "unlink"} =>
                  reader[r].cur.save \in Saves
            BY NoRecordIsNone DEF ReadPhases
        <3> QED BY <1>1, <3>1 DEF ReadPhases, Unsaved
    <2>13. ReadPhases'
        <3>1. \A r \in Readers : reader[r].pc \in {"committed", "unlink"} =>
                 LET t == reader[r].cur.save IN
                 /\ up'[t].pc \notin Unsaved /\ up'[t].id = reader[r].id
                 /\ reader[r].view \in taken[t]
            BY <2>6, <2>12 DEF ReadPhases
        <3> QED BY <1>1, <3>1 DEF ReadPhases
    <2>14. RecordsOwned'
        BY <2>4, <2>5, <2>6, <2>7, <2>11 DEF RecordsOwned, Unsaved
    <2>15. SnapshotSound'
        <3> SUFFICES ASSUME NEW r \in Readers,
                            reader[r].pc \in {"open", "pttl", "set", "del", "stale"},
                            r \notin dirty'
                     PROVE  db'[reader[r].id] = reader[r].cur
            BY <1>1 DEF SnapshotSound
        <3>1. reader[r].id # id /\ r \notin dirty
            BY <2>8 DEF Watching
        <3>2. reader[r].id \in Ids
            BY DEF ReadPhases
        <3> QED BY <2>7, <3>1, <3>2 DEF SnapshotSound
    <2>16. FileViewsConserved'
        <3>1. taken[s] = u.views .. (u.views - 1)
            BY <2>2
        <3>2. u.views <= u.views
            BY <2>2
        <3>3. ASSUME NEW i \in Ids, db'[i] # NoRecord
              PROVE  LET t == db'[i].save IN
                     /\ up'[t].id = i
                     /\ ViewsOf(db'[i].views) <= up'[t].views
                     /\ taken'[t] = ViewsOf(db'[i].views) .. (up'[t].views - 1)
            <4>1. CASE i = id
                BY <1>1, <2>3, <2>4, <2>5, <2>6, <2>7, <3>1, <3>2, <4>1
            <4>2. CASE i # id
                BY <1>1, <2>6, <2>7, <2>11, <3>3, <4>2 DEF FileViewsConserved
            <4> QED BY <4>1, <4>2
        <3> QED BY <3>3 DEF FileViewsConserved
    <2>17. ViewsStreamedOnce' /\ DeliveredWereTaken'
        BY <1>1 DEF ViewsStreamedOnce, DeliveredWereTaken
    <2> QED BY <2>9, <2>10, <2>13, <2>14, <2>15, <2>16, <2>17
<1> QED BY <1>2, <1>3
-------------------------------------------------------------------------------
(* A step of one download that takes no view and delivers none.            *)
LEMMA ReaderMoves ==
    ASSUME FileInv, NEW r \in Readers, NEW new \in ReadRequests,
           UNCHANGED <<db, now, drawn, up, sweep, taken, delivered>>,
           blob' \in [Ids -> Blobs \cup {NoBlob}],
           reader' = [reader EXCEPT ![r] = new],
           dirty' = dirty \/ dirty' = dirty \ {r},
           new.pc # "committed", new.pc # "unlink",
           new.pc # "idle" => new.id \in Ids,
           new.pc \notin {"idle", "watch", "get"} =>
               /\ new.cur \in Records
               /\ r \notin dirty' => db[new.id] = new.cur,
           new.pc \in {"pttl", "set"} => new.cur.views > 1,
           new.pc = "set" => new.ttl > 0
    PROVE  FileInv'
<1> USE DEF FileInv
<1>1. reader'[r] = new /\ \A q \in Readers \ {r} : reader'[q] = reader[q]
    BY DEF TypeOK
<1>2. \A q \in Readers \ {r} : q \in dirty' <=> q \in dirty
    OBVIOUS
<1>3. TypeOK'
    BY DEF TypeOK
<1>4. UploadPhases' /\ RecordsOwned' /\ FileViewsConserved' /\ DeliveredWereTaken'
    BY DEF UploadPhases, RecordsOwned, FileViewsConserved, DeliveredWereTaken
<1>5. ReadPhases'
    BY <1>1 DEF ReadPhases
<1>6. SnapshotSound'
    BY <1>1, <1>2 DEF SnapshotSound
<1>7. ViewsStreamedOnce'
    BY <1>1 DEF ViewsStreamedOnce
<1> QED BY <1>3, <1>4, <1>5, <1>6, <1>7

LEMMA StepEnded ==
    ASSUME FileInv, NEW r \in Readers, Ended(r),
           UNCHANGED <<db, now, drawn, up, sweep, taken, delivered>>,
           blob' \in [Ids -> Blobs \cup {NoBlob}]
    PROVE  FileInv'
<1>1. PICK status \in Statuses : reader' = [reader EXCEPT ![r] = [NoRequest EXCEPT !.status = status]]
    BY DEF Ended
<1> DEFINE new == [NoRequest EXCEPT !.status = status]
<1>2. new \in ReadRequests /\ new.pc = "idle"
    BY EndedType
<1>3. reader' = [reader EXCEPT ![r] = new] /\ dirty' = dirty \ {r}
    BY <1>1 DEF Ended
<1> HIDE DEF new
<1> QED BY <1>2, <1>3, ReaderMoves

LEMMA StepReadRequest ==
    ASSUME FileInv, NEW r \in Readers, ReadRequest(r)
    PROVE  FileInv'
<1>1. PICK id \in Ids, key \in PresentedKeys :
         reader' = [reader EXCEPT ![r] =
             [NoRequest EXCEPT !.pc = "watch", !.id = id, !.key = key, !.start = now]]
    BY DEF ReadRequest
<1>2. /\ UNCHANGED <<db, blob, dirty, now, drawn, up, sweep, taken, delivered>> /\ now \in Nat
      /\ blob \in [Ids -> Blobs \cup {NoBlob}]
    BY DEF ReadRequest, readOnly, FileInv, TypeOK
<1> DEFINE new == [NoRequest EXCEPT !.pc = "watch", !.id = id, !.key = key, !.start = now]
<1>3. new \in ReadRequests /\ new.pc = "watch" /\ new.id = id
    BY <1>2, NoRequestType DEF ReadRequests
<1>4. reader' = [reader EXCEPT ![r] = new]
    BY <1>1
<1> HIDE DEF new
<1> QED BY <1>2, <1>3, <1>4, ReaderMoves

LEMMA StepReadWatch ==
    ASSUME FileInv, NEW r \in Readers, ReadWatch(r)
    PROVE  FileInv'
<1> DEFINE new == [reader[r] EXCEPT !.pc = "get"]
<1>1. /\ reader[r].pc = "watch" /\ reader' = [reader EXCEPT ![r] = new]
      /\ UNCHANGED <<db, blob, dirty, now, drawn, up, sweep, taken, delivered>>
      /\ blob \in [Ids -> Blobs \cup {NoBlob}]
    BY DEF ReadWatch, readOnly, FileInv, TypeOK
<1>2. reader[r] \in ReadRequests /\ reader[r].id \in Ids
    BY <1>1 DEF FileInv, TypeOK, ReadPhases
<1>3. new \in ReadRequests /\ new.pc = "get" /\ new.id = reader[r].id
    BY <1>2 DEF ReadRequests
<1> HIDE DEF new
<1> QED BY <1>1, <1>2, <1>3, ReaderMoves

LEMMA StepReadGet ==
    ASSUME FileInv, NEW r \in Readers, ReadGet(r)
    PROVE  FileInv'
<1> DEFINE current == db[reader[r].id]
           new == [reader[r] EXCEPT !.cur = current, !.pc = "open"]
<1>1. /\ reader[r].pc = "get" /\ UNCHANGED <<db, blob, now, drawn, up, sweep, taken, delivered>>
      /\ blob \in [Ids -> Blobs \cup {NoBlob}]
    BY DEF ReadGet, readOnly, FileInv, TypeOK
<1>2. reader[r] \in ReadRequests /\ reader[r].id \in Ids
    BY <1>1 DEF FileInv, TypeOK, ReadPhases
<1>3. CASE Ended(r)
    BY <1>1, <1>3, StepEnded
<1>4. CASE /\ Live(reader[r].id) /\ UNCHANGED dirty
           /\ reader' = [reader EXCEPT ![r].cur = current, ![r].pc = "open"]
    <2>1. current \in Records
        BY <1>2, <1>4 DEF Live, FileInv, TypeOK
    <2>2. /\ new \in ReadRequests /\ new.pc = "open" /\ new.id = reader[r].id
          /\ new.cur = current
        <3> HIDE DEF current
        <3> QED BY <1>2, <2>1 DEF ReadRequests
    <2>3. reader' = [reader EXCEPT ![r] = new]
        BY <1>4
    <2> HIDE DEF new
    <2>4. db[new.id] = new.cur
        BY <2>2
    <2> HIDE DEF current
    <2> QED BY <1>1, <1>2, <1>4, <2>1, <2>2, <2>3, <2>4, ReaderMoves
<1> QED BY <1>3, <1>4, GetCases

LEMMA StepReadOpen ==
    ASSUME FileInv, NEW r \in Readers, ReadOpen(r)
    PROVE  FileInv'
<1> DEFINE found == blob[reader[r].id]
           pc == IF found = NoBlob THEN "stale"
                 ELSE IF reader[r].cur.views > 1 THEN "pttl" ELSE "del"
           new == [reader[r] EXCEPT !.fd = found, !.pc = pc]
<1>1. /\ reader[r].pc = "open" /\ reader' = [reader EXCEPT ![r] = new]
      /\ UNCHANGED <<db, blob, dirty, now, drawn, up, sweep, taken, delivered>>
      /\ blob \in [Ids -> Blobs \cup {NoBlob}]
    BY DEF ReadOpen, readOnly, FileInv, TypeOK
<1>2. /\ reader[r] \in ReadRequests /\ reader[r].id \in Ids /\ reader[r].cur \in Records
      /\ r \notin dirty => db[reader[r].id] = reader[r].cur
    BY <1>1 DEF FileInv, TypeOK, ReadPhases, SnapshotSound
<1>3. pc \in {"stale", "pttl", "del"} /\ (pc = "pttl" => reader[r].cur.views > 1)
    OBVIOUS
<1>4. found \in Blobs \cup {NoBlob}
    BY <1>1, <1>2
<1> HIDE DEF pc, found
<1>5. /\ new \in ReadRequests /\ new.pc = pc /\ new.id = reader[r].id
      /\ new.cur = reader[r].cur
    BY <1>2, <1>3, <1>4 DEF ReadRequests
<1> HIDE DEF new
<1> QED BY <1>1, <1>2, <1>3, <1>5, ReaderMoves

LEMMA StepReadPTTL ==
    ASSUME FileInv, NEW r \in Readers, ReadPTTL(r)
    PROVE  FileInv'
<1> DEFINE id == reader[r].id
           ttl == IF Live(id) THEN db[id].deadline - now ELSE -2
           rest == IF ttl > 0 THEN ttl ELSE 0
           pc == IF ttl > 0 THEN "set" ELSE "del"
           new == [reader[r] EXCEPT !.ttl = rest, !.pc = pc]
<1>1. /\ reader[r].pc = "pttl" /\ reader' = [reader EXCEPT ![r] = new]
      /\ UNCHANGED <<db, blob, dirty, now, drawn, up, sweep, taken, delivered>>
      /\ blob \in [Ids -> Blobs \cup {NoBlob}]
    BY DEF ReadPTTL, readOnly, FileInv, TypeOK
<1>2. /\ reader[r] \in ReadRequests /\ reader[r].id \in Ids /\ reader[r].cur \in Records
      /\ reader[r].cur.views > 1
      /\ r \notin dirty => db[reader[r].id] = reader[r].cur
    BY <1>1 DEF FileInv, TypeOK, ReadPhases, SnapshotSound
<1>3. ttl \in Int
    <2>1. now \in Nat
        BY DEF FileInv, TypeOK
    <2>2. Live(id) => db[id].deadline \in Nat
        BY <1>2 DEF FileInv, TypeOK, Live, Records
    <2> QED BY <2>1, <2>2
<1>4. rest \in Nat /\ pc \in {"set", "del"} /\ (pc = "set" => rest > 0)
    BY <1>3
<1> HIDE DEF rest, pc, ttl
<1>5. /\ new \in ReadRequests /\ new.pc = pc /\ new.id = reader[r].id /\ new.ttl = rest
      /\ new.cur = reader[r].cur
    BY <1>2, <1>4 DEF ReadRequests
<1> HIDE DEF new, id
<1>6. /\ new.id \in Ids /\ new.cur \in Records /\ (r \notin dirty' => db[new.id] = new.cur)
      /\ new.cur.views > 1 /\ (new.pc = "set" => new.ttl > 0)
      /\ new.pc # "committed" /\ new.pc # "unlink"
    BY <1>1, <1>2, <1>4, <1>5
<1> QED BY <1>1, <1>5, <1>6, ReaderMoves

LEMMA StepReadRefused ==
    ASSUME FileInv, NEW r \in Readers, ReadRefused(r)
    PROVE  FileInv'
<1> DEFINE new == [reader[r] EXCEPT !.pc = "watch", !.cur = NoRecord, !.fd = NoBlob, !.ttl = 0]
<1>1. /\ reader[r].pc \in {"set", "del", "stale"}
      /\ UNCHANGED <<db, blob, now, drawn, up, sweep, taken, delivered>>
      /\ blob \in [Ids -> Blobs \cup {NoBlob}]
    BY DEF ReadRefused, readOnly, FileInv, TypeOK
<1>2. reader[r] \in ReadRequests /\ reader[r].id \in Ids
    BY <1>1 DEF FileInv, TypeOK, ReadPhases
<1>3. CASE Ended(r)
    BY <1>1, <1>3, StepEnded
<1>4. CASE reader' = [reader EXCEPT ![r] = new] /\ dirty' = dirty \ {r}
    <2>1. new \in ReadRequests /\ new.pc = "watch" /\ new.id = reader[r].id
        BY <1>2 DEF ReadRequests
    <2>2. reader' = [reader EXCEPT ![r] = new]
        BY <1>4
    <2> HIDE DEF new
    <2> QED BY <1>1, <1>2, <1>4, <2>1, <2>2, ReaderMoves
<1>5. Ended(r) \/ (reader' = [reader EXCEPT ![r] = new] /\ dirty' = dirty \ {r})
    <2>1. \/ Ended(r)
          \/ /\ reader' = [reader EXCEPT ![r].pc = "watch", ![r].cur = NoRecord,
                                         ![r].fd = NoBlob, ![r].ttl = 0]
             /\ dirty' = dirty \ {r}
        BY RefusedCases
    <2> QED BY <2>1
<1> QED BY <1>3, <1>4, <1>5

LEMMA StepReadUnlink ==
    ASSUME FileInv, NEW r \in Readers, ReadUnlink(r)
    PROVE  FileInv'
<1>1. /\ UNCHANGED <<db, now, drawn, up, sweep, taken, delivered>>
      /\ blob' \in [Ids -> Blobs \cup {NoBlob}] /\ reader[r] \in ReadRequests
    BY DEF ReadUnlink, readOnly, FileInv, TypeOK
<1> QED BY <1>1, EndCases, StepEnded

LEMMA StepReadFailed ==
    ASSUME FileInv, NEW r \in Readers, ReadFailed(r)
    PROVE  FileInv'
<1>1. /\ UNCHANGED <<db, blob, now, drawn, up, sweep, taken, delivered>>
      /\ blob \in [Ids -> Blobs \cup {NoBlob}] /\ reader[r] \in ReadRequests
    BY DEF ReadFailed, readOnly, FileInv, TypeOK
<1> QED BY <1>1, EndCases, StepEnded

(* A commit: the record was still the one that was read, so the view taken *)
(* is the next one of its file and nobody had it before.                   *)
LEMMA Commit ==
    ASSUME FileInv, NEW r \in Readers, NEW view \in 0 .. MaxViews,
           NEW new \in Records \cup {NoRecord},
           reader[r].pc \in {"set", "del"}, ExecAllowed(r),
           db' = [db EXCEPT ![reader[r].id] = new],
           TakeView(r, view),
           \/ new = NoRecord /\ view = 0
           \/ /\ new \in Records /\ view = new.views
              /\ reader[r].cur.views > 1 /\ new.views = reader[r].cur.views - 1
              /\ new.save = reader[r].cur.save
    PROVE  FileInv'
<1> USE DEF FileInv
<1> DEFINE id == reader[r].id
           cur == reader[r].cur
           s == cur.save
           next == [reader[r] EXCEPT !.pc = "committed", !.view = view, !.key = Empty,
                                     !.ttl = 0, !.start = 0, !.took = reader[r].took + 1]
<1>1. reader[r] \in ReadRequests /\ id \in Ids /\ cur \in Records /\ db[id] = cur
    BY DEF TypeOK, ReadPhases, SnapshotSound, ExecAllowed
<1>2. /\ s \in Saves /\ cur.views \in 0 .. MaxViews /\ cur # NoRecord
    BY <1>1, NoRecordIsNone DEF Records
<1>3. /\ up[s].id = id /\ up[s].pc \notin Unsaved /\ up[s].views \in 0 .. MaxViews
      /\ ViewsOf(cur.views) <= up[s].views
      /\ taken[s] = ViewsOf(cur.views) .. (up[s].views - 1)
  <2>1. up[s].id = id /\ ViewsOf(cur.views) <= up[s].views
        /\ taken[s] = ViewsOf(cur.views) .. (up[s].views - 1)
    <3>1. FileViewsConserved
      OBVIOUS
    <3> QED BY <1>1, <1>2, <3>1 DEF FileViewsConserved
  <2>2. up[s].pc \notin Unsaved
    <3>1. RecordsOwned
      OBVIOUS
    <3> QED BY <1>1, <1>2, <3>1 DEF RecordsOwned
  <2>3. up[s].views \in 0 .. MaxViews
    <3>1. up \in [Saves -> UploadRequests]
      BY DEF TypeOK
    <3> QED BY <1>2, <3>1 DEF UploadRequests
  <2> QED BY <2>1, <2>2, <2>3
<1>4. /\ view < ViewsOf(cur.views) /\ view \notin taken[s]
      /\ ViewsOf(cur.views) \in 1 .. MaxViews
    BY <1>2, <1>3, LimitsAssumption DEF ViewsOf
<1>5. /\ reader' = [reader EXCEPT ![r] = next]
      /\ taken' = [taken EXCEPT ![s] = taken[s] \cup {view}]
      /\ UNCHANGED <<blob, now, drawn, up, sweep, delivered>> /\ Touch(id, {r})
    BY DEF TakeView, readOnly
<1>6. /\ next \in ReadRequests /\ next.pc = "committed" /\ next.view = view
      /\ next.id = id /\ next.cur = cur
    <2>1. next \in ReadRequests
        <3> DEFINE v == [reader[r] EXCEPT !.pc = "committed", !.view = view]
        <3>1. v \in ReadRequests
            BY <1>1 DEF ReadRequests
        <3>2. reader[r].took + 1 \in Nat
            <4>1. reader[r].took \in Nat
                BY <1>1 DEF ReadRequests
            <4> QED BY <4>1
        <3> DEFINE took == reader[r].took + 1
        <3>3. took \in Nat
            BY <3>2
        <3> HIDE DEF took
        <3>4. [v EXCEPT !.key = Empty, !.ttl = 0, !.start = 0, !.took = took] \in ReadRequests
            <4> HIDE DEF v
            <4> QED BY <3>1, <3>3 DEF ReadRequests
        <3>5. next = [v EXCEPT !.key = Empty, !.ttl = 0, !.start = 0, !.took = took]
            BY <1>1 DEF ReadRequests, took
        <3> HIDE DEF v, next
        <3> QED BY <3>4, <3>5
    <2>2. next.pc = "committed" /\ next.view = view /\ next.id = id /\ next.cur = cur
        BY <1>1 DEF ReadRequests
    <2> QED BY <2>1, <2>2
<1> HIDE DEF next
<1>7. reader'[r] = next /\ \A q \in Readers \ {r} : reader'[q] = reader[q]
    BY <1>5 DEF TypeOK
<1>8. /\ taken'[s] = taken[s] \cup {view} /\ \A t \in Saves \ {s} : taken'[t] = taken[t]
      /\ \A t \in Saves : taken[t] \subseteq taken'[t]
    BY <1>2, <1>5 DEF TypeOK
<1>9. db'[id] = new /\ \A i \in Ids \ {id} : db'[i] = db[i]
    BY <1>1 DEF TypeOK
<1>10. /\ dirty \subseteq dirty' /\ dirty' \subseteq Readers
       /\ \A q \in Readers \ {r} : reader[q].pc \in Watching /\ reader[q].id = id => q \in dirty'
    BY <1>5 DEF Touch, TypeOK
<1>11. /\ new = NoRecord \/ new \in Records
       /\ new \in Records => /\ new # NoRecord /\ new.save = s
                             /\ cur.views > 1 /\ view = cur.views - 1 /\ new.views = view
       /\ new = NoRecord => view = 0
    BY NoRecordIsNone
<1>12. TypeOK'
    <2>1. db' \in [Ids -> Records \cup {NoRecord}]
        BY <1>11 DEF TypeOK
    <2>2. reader' \in [Readers -> ReadRequests]
        BY <1>5, <1>6 DEF TypeOK
    <2>3. taken' \in [Saves -> SUBSET (0 .. MaxViews)]
        BY <1>4, <1>5, <1>2 DEF TypeOK
    <2> QED BY <1>5, <1>10, <2>1, <2>2, <2>3 DEF TypeOK
<1> HIDE DEF cur, id
<1>13. UploadPhases'
    BY <1>3, <1>5, <1>8 DEF UploadPhases
<1>14. RecordsOwned'
    BY <1>3, <1>5, <1>9, <1>11 DEF RecordsOwned
<1>15. ReadPhases'
    <2>1. \A q \in Readers : reader[q].pc \in {"committed", "unlink"} => reader[q].cur.save \in Saves
        BY NoRecordIsNone DEF ReadPhases
    <2>2. ASSUME NEW q \in Readers, reader'[q].pc \in {"committed", "unlink"}
          PROVE  LET t == reader'[q].cur.save IN
                 /\ up'[t].pc \notin Unsaved /\ up'[t].id = reader'[q].id
                 /\ reader'[q].view \in taken'[t]
        <3>1. CASE q = r
            <4>1. next.cur.save = s
                BY <1>6
            <4> HIDE DEF s
            <4> QED BY <1>3, <1>5, <1>6, <1>7, <1>8, <3>1, <4>1
        <3>2. CASE q # r
            BY <1>5, <1>7, <1>8, <2>1, <2>2, <3>2 DEF ReadPhases
        <3> QED BY <3>1, <3>2
    <2> QED BY <1>1, <1>6, <1>7, <2>2 DEF ReadPhases
<1>16. SnapshotSound'
    BY <1>6, <1>7, <1>9, <1>10 DEF SnapshotSound, ReadPhases, Watching
<1>17. FileViewsConserved'
    <2> SUFFICES ASSUME NEW i \in Ids, db'[i] # NoRecord
                 PROVE  LET t == db'[i].save IN
                        /\ up'[t].id = i
                        /\ ViewsOf(db'[i].views) <= up'[t].views
                        /\ taken'[t] = ViewsOf(db'[i].views) .. (up'[t].views - 1)
        BY DEF FileViewsConserved
    <2>1. CASE i = id
        <3>1. new \in Records
            BY <1>9, <1>11, <2>1
        <3>2. ViewsOf(new.views) = view /\ ViewsOf(cur.views) = view + 1
            BY <1>2, <1>11, <3>1 DEF ViewsOf
        <3>3. (view + 1) .. (up[s].views - 1) \cup {view} = view .. (up[s].views - 1)
            BY <1>3, <1>4, <3>2, LimitsAssumption
        <3>4. view <= up[s].views
            BY <1>3, <1>4, LimitsAssumption
        <3>5. db'[i].save = s /\ db'[i].views = new.views
            BY <1>9, <1>11, <2>1, <3>1
        <3>6. taken'[s] = view .. (up[s].views - 1)
            BY <1>3, <1>8, <3>2, <3>3
        <3> QED BY <1>3, <1>5, <2>1, <3>2, <3>4, <3>5, <3>6
    <2>2. CASE i # id
        <3>1. db[i] \in Records /\ db[i].save \in Saves /\ db[i] # NoRecord
            BY <1>9, <2>2, NoRecordIsNone DEF TypeOK
        <3>2. db[i].save # s
            BY <1>3, <2>2, <3>1 DEF FileViewsConserved
        <3> QED BY <1>5, <1>8, <1>9, <2>2, <3>1, <3>2 DEF FileViewsConserved
    <2> QED BY <2>1, <2>2
<1>18. DeliveredWereTaken'
    BY <1>5, <1>8 DEF DeliveredWereTaken
<1>19. ViewsStreamedOnce'
    <2>1. view \notin delivered[s]
        BY <1>2, <1>4 DEF DeliveredWereTaken
    <2>2. ASSUME NEW q \in Readers \ {r}, reader[q].pc = "committed", reader[q].cur.save = s
          PROVE  reader[q].view # view
        BY <1>4, <2>2 DEF ReadPhases
    <2>3. next.cur.save = s /\ s \in Saves
        BY <1>2, <1>6
    <2> HIDE DEF s
    <2>4. ASSUME NEW q \in Readers, reader'[q].pc = "committed"
          PROVE  reader'[q].view \notin delivered'[reader'[q].cur.save]
        <3>1. CASE q = r
            BY <1>5, <1>6, <1>7, <2>1, <2>3, <3>1
        <3>2. CASE q # r
            BY <1>5, <1>7, <2>4, <3>2 DEF ViewsStreamedOnce
        <3> QED BY <3>1, <3>2
    <2>5. ASSUME NEW q \in Readers, reader'[q].pc = "committed",
                 NEW p \in Readers \ {q}, reader'[p].pc = "committed",
                 reader'[p].cur.save = reader'[q].cur.save, reader'[p].view = reader'[q].view
          PROVE  FALSE
        <3>1. CASE q = r
            BY <1>6, <1>7, <2>2, <2>3, <2>5, <3>1
        <3>2. CASE p = r
            BY <1>6, <1>7, <2>2, <2>3, <2>5, <3>2
        <3>3. CASE q # r /\ p # r
            BY <1>7, <2>5, <3>3 DEF ViewsStreamedOnce
        <3> QED BY <3>1, <3>2, <3>3
    <2> QED BY <2>4, <2>5 DEF ViewsStreamedOnce
<1> QED BY <1>12, <1>13, <1>14, <1>15, <1>16, <1>17, <1>18, <1>19

LEMMA StepReadExecSet ==
    ASSUME FileInv, NEW r \in Readers, ReadExecSet(r)
    PROVE  FileInv'
<1> DEFINE new == [reader[r].cur EXCEPT !.views = reader[r].cur.views - 1,
                                        !.deadline = now + reader[r].ttl]
<1>1. /\ reader[r].pc = "set" /\ ExecAllowed(r)
      /\ db' = [db EXCEPT ![reader[r].id] = new] /\ TakeView(r, new.views)
    BY DEF ReadExecSet
<1>2. reader[r].pc \in {"set", "del"}
    BY <1>1
<1>3. reader[r].cur \in Records /\ reader[r].cur.views > 1
    BY <1>1 DEF FileInv, ReadPhases
<1>4. now + reader[r].ttl \in Nat
    <2>1. reader[r] \in ReadRequests /\ now \in Nat
        BY DEF FileInv, TypeOK
    <2>2. reader[r].ttl \in Nat
        BY <2>1 DEF ReadRequests
    <2> QED BY <2>1, <2>2
<1>5. new \in Records
    BY <1>3, <1>4, UpdatedType
<1>6. new.views = reader[r].cur.views - 1 /\ new.save = reader[r].cur.save
    BY <1>3 DEF Records
<1> HIDE DEF new
<1>7. new.views \in 0 .. MaxViews
    BY <1>5 DEF Records
<1> QED BY <1>1, <1>2, <1>3, <1>5, <1>6, <1>7, Commit

LEMMA StepReadExecDel ==
    ASSUME FileInv, NEW r \in Readers, ReadExecDel(r)
    PROVE  FileInv'
<1>1. /\ reader[r].pc \in {"set", "del"} /\ ExecAllowed(r) /\ TakeView(r, 0)
      /\ db' = [db EXCEPT ![reader[r].id] = NoRecord]
    BY DEF ReadExecDel
<1>2. 0 \in 0 .. MaxViews
    BY LimitsAssumption
<1> QED BY <1>1, <1>2, Commit

(* The record of a missing blob goes, and with it what was left of views.  *)
LEMMA StepReadExecStale ==
    ASSUME FileInv, NEW r \in Readers, ReadExecStale(r)
    PROVE  FileInv'
<1> USE DEF FileInv
<1>1. PICK id \in Ids : id = reader[r].id
    BY DEF ReadExecStale, ReadPhases
<1>2. /\ db' = [db EXCEPT ![id] = NoRecord]
      /\ \E status \in Statuses : reader' = [reader EXCEPT ![r] = [NoRequest EXCEPT !.status = status]]
      /\ dirty' = (dirty \ {r}) \cup
                  {q \in Readers \ {r} : reader[q].pc \in Watching /\ reader[q].id = id}
      /\ UNCHANGED <<blob, now, drawn, up, sweep, taken, delivered>>
    BY <1>1 DEF ReadExecStale, readOnly, Statuses
<1>3. db'[id] = NoRecord /\ \A i \in Ids \ {id} : db'[i] = db[i]
    BY <1>2 DEF TypeOK
<1>4. /\ reader' \in [Readers -> ReadRequests]
      /\ reader'[r].pc = "idle" /\ \A q \in Readers \ {r} : reader'[q] = reader[q]
    BY <1>2, EndedType DEF TypeOK
<1>5. TypeOK'
    <2>1. db' \in [Ids -> Records \cup {NoRecord}]
        BY <1>2 DEF TypeOK
    <2>2. dirty' \subseteq Readers
        BY <1>2 DEF TypeOK
    <2> QED BY <1>2, <1>4, <2>1, <2>2 DEF TypeOK
<1>6. UploadPhases' /\ DeliveredWereTaken'
    BY <1>2 DEF UploadPhases, DeliveredWereTaken
<1>7. ReadPhases'
    BY <1>2, <1>4 DEF ReadPhases
<1>8. SnapshotSound'
    <2> SUFFICES ASSUME NEW q \in Readers,
                        reader'[q].pc \in {"open", "pttl", "set", "del", "stale"}, q \notin dirty'
                 PROVE  db'[reader'[q].id] = reader'[q].cur
        BY DEF SnapshotSound
    <2>1. q # r /\ reader'[q] = reader[q]
        BY <1>4
    <2>2. q \notin dirty /\ reader[q].id # id /\ reader[q].id \in Ids
        BY <1>2, <2>1 DEF Watching, ReadPhases
    <2> QED BY <1>3, <2>1, <2>2 DEF SnapshotSound
<1>9. RecordsOwned' /\ FileViewsConserved'
    BY <1>2, <1>3 DEF RecordsOwned, FileViewsConserved
<1>10. ViewsStreamedOnce'
    BY <1>2, <1>4 DEF ViewsStreamedOnce
<1> QED BY <1>5, <1>6, <1>7, <1>8, <1>9, <1>10

(* The stream: the view a reader holds becomes one that was delivered, or  *)
(* is lost.                                                                *)
LEMMA StepReadStream ==
    ASSUME FileInv, NEW r \in Readers, ReadStream(r)
    PROVE  FileInv'
<1> USE DEF FileInv
<1> DEFINE s == reader[r].cur.save
<1>1. /\ reader[r].pc = "committed" /\ UNCHANGED <<db, blob, taken, now, drawn, up, sweep>>
      /\ \/ delivered' = delivered
         \/ delivered' = [delivered EXCEPT ![s] = delivered[s] \cup {reader[r].view}]
    BY DEF ReadStream, readOnly
<1>2. /\ s \in Saves /\ reader[r].view \in taken[s] /\ reader[r].view \in 0 .. MaxViews
      /\ reader[r] \in ReadRequests
    BY <1>1, NoRecordIsNone DEF ReadPhases, TypeOK, ReadRequests
<1>3. /\ \A t \in Saves \ {s} : delivered'[t] = delivered[t]
      /\ delivered'[s] \subseteq delivered[s] \cup {reader[r].view}
      /\ delivered' \in [Saves -> SUBSET (0 .. MaxViews)]
    BY <1>1, <1>2 DEF TypeOK
<1>4. PICK new \in ReadRequests :
         /\ reader' = [reader EXCEPT ![r] = new] /\ (dirty' = dirty \/ dirty' = dirty \ {r})
         /\ \/ new.pc = "idle"
            \/ /\ new.pc = "unlink" /\ new.view = 0 /\ new.view = reader[r].view
               /\ new.id = reader[r].id /\ new.cur = reader[r].cur
    <2>1. CASE Ended(r)
        BY <2>1, EndedType DEF Ended
    <2>2. CASE /\ reader[r].view = 0 /\ dirty' = dirty
               /\ \E status \in Statuses :
                     reader' = [reader EXCEPT ![r].pc = "unlink", ![r].status = status]
        <3>1. PICK status \in Statuses :
                 reader' = [reader EXCEPT ![r].pc = "unlink", ![r].status = status]
            BY <2>2
        <3> DEFINE v == [reader[r] EXCEPT !.pc = "unlink", !.status = status]
        <3>2. /\ v \in ReadRequests /\ v.pc = "unlink" /\ v.view = reader[r].view
              /\ v.id = reader[r].id /\ v.cur = reader[r].cur
            <4>1. v \in ReadRequests
                BY <1>2 DEF ReadRequests, Statuses
            <4>2. /\ v.pc = "unlink" /\ v.view = reader[r].view
                  /\ v.id = reader[r].id /\ v.cur = reader[r].cur
                BY <1>2 DEF ReadRequests
            <4> QED BY <4>1, <4>2
        <3>3. reader' = [reader EXCEPT ![r] = v]
            BY <3>1
        <3> HIDE DEF v
        <3> QED BY <2>2, <3>2, <3>3
    <2> QED BY <2>1, <2>2, StreamCases
<1>5. reader'[r] = new /\ \A q \in Readers \ {r} : reader'[q] = reader[q]
    BY <1>4 DEF TypeOK
<1>6. TypeOK'
    <2>1. reader' \in [Readers -> ReadRequests] /\ dirty' \subseteq Readers
        BY <1>4 DEF TypeOK
    <2> QED BY <1>1, <1>3, <2>1 DEF TypeOK
<1>7. UploadPhases' /\ RecordsOwned' /\ FileViewsConserved'
    BY <1>1 DEF UploadPhases, RecordsOwned, FileViewsConserved
<1>8. DeliveredWereTaken'
    BY <1>1, <1>2, <1>3 DEF DeliveredWereTaken
<1>9. ReadPhases'
    BY <1>1, <1>4, <1>5 DEF ReadPhases
<1>10. SnapshotSound'
    BY <1>1, <1>4, <1>5 DEF SnapshotSound
<1>11. ViewsStreamedOnce'
    <2>1. ASSUME NEW q \in Readers, reader'[q].pc = "committed"
          PROVE  /\ q # r /\ reader'[q] = reader[q]
                 /\ reader[q].view \notin delivered'[reader[q].cur.save]
        <3>1. q # r /\ reader'[q] = reader[q]
            BY <1>4, <1>5, <2>1
        <3>2. reader[q].cur.save \in Saves
            BY <2>1, <3>1, NoRecordIsNone DEF ReadPhases
        <3>3. CASE reader[q].cur.save = s
            BY <1>1, <1>3, <2>1, <3>1, <3>3 DEF ViewsStreamedOnce
        <3>4. CASE reader[q].cur.save # s
            BY <1>3, <2>1, <3>1, <3>2, <3>4 DEF ViewsStreamedOnce
        <3> QED BY <3>1, <3>3, <3>4
    <2> QED BY <2>1 DEF ViewsStreamedOnce
<1> QED BY <1>6, <1>7, <1>8, <1>9, <1>10, <1>11
-------------------------------------------------------------------------------
(* The janitor, a crash of the server, the clock.                          *)

LEMMA SweepMoves ==
    ASSUME FileInv, UNCHANGED <<db, now, drawn, up, reader, dirty, taken, delivered>>,
           blob' \in [Ids -> Blobs \cup {NoBlob}],
           sweep' \in [pc : {"rest", "scan"}, at : Nat, todo : SUBSET Ids,
                       doomed : Ids \cup {NoId}, seen : Nat]
    PROVE  FileInv'
BY DEF FileInv, TypeOK, UploadPhases, ReadPhases, SnapshotSound, RecordsOwned,
       FileViewsConserved, ViewsStreamedOnce, DeliveredWereTaken

LEMMA RestingType ==
    Resting \in [pc : {"rest", "scan"}, at : Nat, todo : SUBSET Ids,
                 doomed : Ids \cup {NoId}, seen : Nat]
BY DEF Resting

LEMMA StepSweep ==
    ASSUME FileInv,
           \/ SweepStart \/ SweepRemove \/ SweepEnd \/ SweepFailed
           \/ \E id \in Ids : SweepInfo(id)
    PROVE  FileInv'
<1> DEFINE Sweeps == [pc : {"rest", "scan"}, at : Nat, todo : SUBSET Ids,
                      doomed : Ids \cup {NoId}, seen : Nat]
<1>1. /\ sweep \in Sweeps /\ now \in Nat /\ blob \in [Ids -> Blobs \cup {NoBlob}]
    BY DEF FileInv, TypeOK
<1>2. CASE SweepStart
    <2> DEFINE todo == {id \in Ids : blob[id] # NoBlob}
    <2>1. sweep' = [Resting EXCEPT !.pc = "scan", !.at = now, !.todo = todo]
        BY <1>2 DEF SweepStart
    <2>2. todo \in SUBSET Ids
        OBVIOUS
    <2> HIDE DEF todo
    <2>3. sweep' \in Sweeps
        BY <1>1, <2>1, <2>2, RestingType
    <2> QED BY <1>1, <1>2, <2>3, SweepMoves DEF SweepStart, sweepOnly
<1>3. CASE SweepRemove
    <2>1. sweep' \in Sweeps /\ blob' \in [Ids -> Blobs \cup {NoBlob}]
        BY <1>1, <1>3 DEF SweepRemove
    <2> QED BY <1>3, <2>1, SweepMoves DEF SweepRemove, sweepOnly
<1>4. CASE SweepEnd \/ SweepFailed
    BY <1>1, <1>4, RestingType, SweepMoves DEF SweepEnd, SweepFailed, sweepOnly
<1>5. CASE \E id \in Ids : SweepInfo(id)
    <2>1. PICK id \in Ids : SweepInfo(id)
        BY <1>5
    <2>2. CASE blob[id] = NoBlob
        <3>1. sweep' = Resting
            BY <2>1, <2>2 DEF SweepInfo
        <3> QED BY <1>1, <2>1, <3>1, RestingType, SweepMoves DEF SweepInfo, sweepOnly
    <2>3. CASE blob[id] # NoBlob
        <3> DEFINE todo == sweep.todo \ {id}
                   seen == blob[id].mtime
        <3>1. todo \in SUBSET Ids /\ seen \in Nat
            BY <1>1, <2>3 DEF Blobs
        <3>2. \/ sweep' = [sweep EXCEPT !.todo = todo]
              \/ sweep' = [sweep EXCEPT !.todo = todo, !.doomed = id, !.seen = seen]
            BY <2>1, <2>3 DEF SweepInfo
        <3> HIDE DEF todo, seen
        <3>3. sweep' \in Sweeps
            BY <1>1, <3>1, <3>2
        <3> QED BY <1>1, <2>1, <3>3, SweepMoves DEF SweepInfo, sweepOnly
    <2> QED BY <2>2, <2>3
<1> QED BY <1>2, <1>3, <1>4, <1>5

LEMMA StepServerCrash ==
    ASSUME FileInv, ServerCrash
    PROVE  FileInv'
<1> USE DEF FileInv
<1>1. UNCHANGED <<db, blob, now, drawn, taken, delivered>> /\ dirty' = {} /\ sweep' = Resting
    BY DEF ServerCrash
<1>2. ASSUME NEW s \in Saves
      PROVE  /\ up'[s] \in UploadRequests
             /\ up'[s].id = up[s].id /\ up'[s].views = up[s].views
             /\ up'[s].deadline = up[s].deadline
             /\ \/ up'[s] = up[s] /\ up[s].pc \in {"new", "ok", "error"}
                \/ up'[s].pc = "error"
    <2>1. up[s] \in UploadRequests
        BY DEF TypeOK
    <2>2. up'[s] = IF up[s].pc \in {"new", "ok", "error"} THEN up[s]
                   ELSE Returned(up[s], "error")
        BY DEF ServerCrash
    <2> QED BY <2>1, <2>2, ReturnedType
<1>3. ASSUME NEW r \in Readers
      PROVE  reader'[r] \in ReadRequests /\ reader'[r].pc = "idle"
    <2>1. reader'[r] = IF reader[r].pc = "idle" THEN reader[r]
                       ELSE [NoRequest EXCEPT !.status = Outcome(reader[r])]
        BY DEF ServerCrash
    <2>2. reader[r] \in ReadRequests
        BY DEF TypeOK
    <2> QED BY <2>1, <2>2, EndedType, OutcomeType
<1>4. TypeOK'
    <2>1. up' \in [Saves -> UploadRequests]
        BY <1>2 DEF ServerCrash
    <2>2. reader' \in [Readers -> ReadRequests]
        BY <1>3 DEF ServerCrash
    <2> QED BY <1>1, <2>1, <2>2, RestingType DEF TypeOK
<1>5. UploadPhases'
    BY <1>1, <1>2 DEF UploadPhases, Unsaved
<1>6. ReadPhases' /\ SnapshotSound' /\ ViewsStreamedOnce' /\ DeliveredWereTaken'
    BY <1>1, <1>3 DEF ReadPhases, SnapshotSound, ViewsStreamedOnce, DeliveredWereTaken
<1>7. RecordsOwned' /\ FileViewsConserved'
    <2>1. \A id \in Ids : db[id] # NoRecord => db[id].save \in Saves
        BY NoRecordIsNone DEF TypeOK
    <2> QED BY <1>1, <1>2, <2>1 DEF RecordsOwned, FileViewsConserved, Unsaved
<1> QED BY <1>4, <1>5, <1>6, <1>7

LEMMA StepTick ==
    ASSUME FileInv, Tick
    PROVE  FileInv'
<1>1. /\ now \in Nat /\ now' = now + 1
      /\ UNCHANGED <<db, blob, drawn, up, reader, dirty, sweep, taken, delivered>>
    BY DEF Tick, FileInv, TypeOK
<1>2. TypeOK'
    BY <1>1 DEF TypeOK, FileInv
<1> QED BY <1>1, <1>2 DEF FileInv, UploadPhases, ReadPhases, SnapshotSound, RecordsOwned,
       FileViewsConserved, ViewsStreamedOnce, DeliveredWereTaken
-------------------------------------------------------------------------------
LEMMA StepInv == FileInv /\ [Next]_vars => FileInv'
<1> SUFFICES ASSUME FileInv, [Next]_vars PROVE FileInv'
    OBVIOUS
<1>1. CASE UNCHANGED vars
    BY <1>1 DEF vars, FileInv, TypeOK, UploadPhases, ReadPhases, SnapshotSound, RecordsOwned,
       FileViewsConserved, ViewsStreamedOnce, DeliveredWereTaken
<1>2. CASE Next
    BY <1>2, NextCases, StepUploadRequest, StepUploadCreate, StepUploadCopy, StepUploadChtimes,
       StepUploadSetNX, StepUploadUndo, StepUploadAnswer, StepUploadFailed,
       StepReadRequest, StepReadWatch, StepReadGet, StepReadOpen, StepReadPTTL,
       StepReadExecSet, StepReadExecDel, StepReadExecStale, StepReadRefused, StepReadStream,
       StepReadUnlink, StepReadFailed, StepSweep, StepServerCrash, StepTick
<1> QED BY <1>1, <1>2

(* FileInv holds in every reachable state, even if ids repeat.             *)
THEOREM FileInvariant == Spec => []FileInv
<1>1. FileInv /\ [Next]_vars => FileInv'
    BY StepInv
<1> QED BY <1>1, InitInv, PTL DEF Spec

(* Every variable keeps its type, whatever clients send.                   *)
THEOREM FileTypesHold == Spec => []TypeOK
BY FileInvariant, PTL DEF FileInv

(* The views of a record and those its downloads took add up to those of   *)
(* the upload, for any number of concurrent uploads, downloads and sweeps. *)
THEOREM FileViewsAreConserved == Spec => []FileViewsConserved
BY FileInvariant, PTL DEF FileInv
-------------------------------------------------------------------------------
(* LinkInv, from here on for ids that are drawn once.                      *)

LEMMA InitLink == Init => LinkInv
<1> SUFFICES ASSUME Init PROVE LinkInv
    OBVIOUS
<1>1. /\ \A s \in Saves : up[s].pc = "new" /\ up[s].id = NoId
      /\ \A r \in Readers : reader[r].pc = "idle"
      /\ \A id \in Ids : blob[id] = NoBlob
    BY NoRequestType, NewUploadType DEF Init
<1>2. SweepSound
    BY DEF Init, SweepSound, Resting
<1> QED BY <1>1, <1>2 DEF LinkInv, IdsOfTheirOwn, BlobsOwned, OpenedSound, LifetimeKept

(* A blob under the id of an upload is of that upload, and so is a record. *)
LEMMA OwnersByID ==
    ASSUME FileInv, LinkInv, NEW s \in Saves, up[s].id \in Ids
    PROVE  /\ blob[up[s].id] # NoBlob => blob[up[s].id].save = s
           /\ db[up[s].id] # NoRecord => db[up[s].id].save = s
<1>1. up[s].id # NoId
    BY NoIdAssumption
<1>2. blob[up[s].id] # NoBlob =>
          blob[up[s].id].save \in Saves /\ up[blob[up[s].id].save].id = up[s].id
    <2>1. blob \in [Ids -> Blobs \cup {NoBlob}]
        BY DEF FileInv, TypeOK
    <2> QED BY <2>1, NoBlobIsNone DEF LinkInv, BlobsOwned
<1>3. db[up[s].id] # NoRecord =>
          db[up[s].id].save \in Saves /\ up[db[up[s].id].save].id = up[s].id
    <2>1. db \in [Ids -> Records \cup {NoRecord}]
        BY DEF FileInv, TypeOK
    <2> QED BY <2>1, NoRecordIsNone DEF FileInv, FileViewsConserved
<1> QED BY <1>1, <1>2, <1>3 DEF LinkInv, IdsOfTheirOwn

(* A step of an upload that creates no blob and stores no record.          *)
LEMMA UploadLinks ==
    ASSUME FileInv, FileInv', LinkInv, NEW s \in Saves, NEW new \in UploadRequests,
           up' = [up EXCEPT ![s] = new],
           UNCHANGED <<db, dirty, now, reader, sweep, taken>>, drawn \subseteq drawn',
           new.id \in {NoId, up[s].id},
           new.pc \in {"new", "create"} => new.id = NoId,
           \A id \in Ids : \/ blob'[id] = blob[id]
                           \/ blob'[id] = NoBlob
                           \/ /\ blob[id] # NoBlob /\ blob'[id].save = blob[id].save
                              /\ blob[id].whole => blob'[id].whole,
           \A id \in Ids : blob'[id].save = s =>
               new.id = id /\ (blob'[id].whole \/ new.pc \in {"copy", "undo", "error"}),
           new.pc \in {"copy", "chtimes", "setnx"} =>
               /\ up[s].pc \in {"copy", "chtimes", "setnx"}
               /\ new.expires = up[s].expires /\ new.duration = up[s].duration,
           new.pc \in {"stored", "ok"} =>
               /\ up[s].pc \in {"stored", "ok"} /\ new.id = up[s].id
               /\ new.expires = up[s].expires /\ new.deadline = up[s].deadline
    PROVE  LinkInv'
<1> USE DEF LinkInv
<1>1. up'[s] = new /\ \A t \in Saves \ {s} : up'[t] = up[t]
    BY DEF FileInv, TypeOK
<1>2. IdsOfTheirOwn'
    BY <1>1 DEF IdsOfTheirOwn
<1>3. \A id \in Ids : blob[id] # NoBlob => blob[id].save \in Saves
    BY NoBlobIsNone DEF FileInv, TypeOK
<1>4. \A id \in Ids : blob'[id] # NoBlob =>
          /\ blob[id] # NoBlob /\ blob'[id].save = blob[id].save /\ blob'[id].save \in Saves
          /\ blob[id].whole => blob'[id].whole
    BY <1>3
<1>5. BlobsOwned'
    BY <1>1, <1>4 DEF BlobsOwned
<1>6. OpenedSound'
    <2>1. \A r \in Readers : reader[r].pc = "stale" => reader[r].id \in Ids
        BY DEF FileInv, ReadPhases
    <2> QED BY <1>4, <2>1 DEF OpenedSound
<1>7. SweepSound'
    BY DEF SweepSound
<1>8. LifetimeKept'
    <2>1. \A t \in Saves : up'[t].pc \in {"copy", "chtimes", "setnx"} =>
              up'[t].expires <= now + up'[t].duration
        BY <1>1 DEF LifetimeKept
    <2>2. ASSUME NEW t \in Saves, up'[t].pc \in {"stored", "ok"}
          PROVE  /\ up'[t].expires <= up'[t].deadline
                 /\ 0 \notin taken[t] /\ now <= up'[t].deadline /\ blob'[up'[t].id].save = t =>
                       /\ db[up'[t].id].save = t
                       /\ up'[t].deadline <= db[up'[t].id].deadline
        <3>1. /\ up[t].pc \in {"stored", "ok"} /\ up'[t].id = up[t].id
              /\ up'[t].expires = up[t].expires /\ up'[t].deadline = up[t].deadline
            BY <1>1, <2>2
        <3>2. up[t].id \in Ids
            BY <3>1 DEF FileInv, UploadPhases
        <3>3. blob'[up[t].id].save = t => blob[up[t].id].save = t
            BY <1>4, <3>2, NoSaveAssumption DEF NoBlob
        <3> QED BY <3>1, <3>3 DEF LifetimeKept
    <2> QED BY <2>1, <2>2 DEF LifetimeKept
<1> QED BY <1>2, <1>5, <1>6, <1>7, <1>8

LEMMA LinkUploadRequest ==
    ASSUME FileInv, FileInv', LinkInv, NEW s \in Saves, UploadRequest(s)
    PROVE  LinkInv'
<1>1. PICK form \in SaveForms(s), views \in RequestViews, duration \in RequestDurations :
         up' = [up EXCEPT ![s] =
                   IF SchemeAccepted(form)
                   THEN [NewUpload EXCEPT !.pc = "create",
                                          !.key = SchemeStored(form),
                                          !.version = form.v,
                                          !.views = ClampViews(views),
                                          !.duration = ClampDuration(duration)]
                   ELSE [NewUpload EXCEPT !.pc = "error"]]
    BY DEF UploadRequest
<1>2. /\ up[s].pc = "new"
      /\ UNCHANGED <<db, blob, drawn, dirty, now, reader, sweep, taken, delivered>>
    BY DEF UploadRequest, uploadOnly
<1>3. up'[s] \in UploadRequests /\ up'[s].id = NoId /\ up'[s].pc \in {"create", "error"}
    <2>1. up'[s] \in UploadRequests
        BY DEF FileInv, TypeOK
    <2>2. up'[s] = IF SchemeAccepted(form)
                   THEN [NewUpload EXCEPT !.pc = "create",
                                          !.key = SchemeStored(form),
                                          !.version = form.v,
                                          !.views = ClampViews(views),
                                          !.duration = ClampDuration(duration)]
                   ELSE [NewUpload EXCEPT !.pc = "error"]
        BY <1>1 DEF FileInv, TypeOK
    <2>3. up'[s].id = NoId /\ up'[s].pc \in {"create", "error"}
        BY <2>2, NewUploadType DEF UploadRequests
    <2> QED BY <2>1, <2>3
<1> DEFINE new == up'[s]
<1>4. up' = [up EXCEPT ![s] = new]
    BY <1>1 DEF FileInv, TypeOK
<1>5. \A id \in Ids : blob[id].save # s
    <2>1. up[s].id = NoId
        BY <1>2 DEF LinkInv, IdsOfTheirOwn
    <2> QED BY <2>1, NoIdAssumption, NoSaveAssumption DEF LinkInv, BlobsOwned, NoBlob
<1> QED BY <1>2, <1>3, <1>4, <1>5, UploadLinks

(* A drawn id is new: it is that of no other upload, blob or record.       *)
LEMMA LinkUploadCreate ==
    ASSUME IdsRepeat = FALSE, FileInv, FileInv', LinkInv,
           NEW s \in Saves, NEW id \in Ids, UploadCreate(s, id)
    PROVE  LinkInv'
<1>1. /\ up[s].pc = "create" /\ id \notin drawn /\ drawn' = drawn \cup {id}
      /\ UNCHANGED <<db, dirty, now, reader, sweep, taken>> /\ now \in Nat
      /\ up[s] \in UploadRequests /\ blob \in [Ids -> Blobs \cup {NoBlob}]
    BY DEF UploadCreate, uploadOnly, FileInv, TypeOK
<1>2. up[s].id = NoId /\ \A t \in Saves : up[t].id # id
    BY <1>1, NoIdAssumption DEF LinkInv, IdsOfTheirOwn
<1>3. blob[id] = NoBlob /\ db[id] = NoRecord
    <2>1. blob[id] # NoBlob => blob[id].save \in Saves
        BY <1>1, NoBlobIsNone
    <2>2. db[id] # NoRecord => db[id].save \in Saves
        BY NoRecordIsNone DEF FileInv, TypeOK
    <2> QED BY <1>2, <2>1, <2>2 DEF FileInv, FileViewsConserved, LinkInv, BlobsOwned
<1> DEFINE expires == now + up[s].duration
           fresh == [save |-> s, whole |-> FALSE, mtime |-> now]
           new == [up[s] EXCEPT !.pc = "copy", !.id = id, !.expires = expires]
<1>4. up' = [up EXCEPT ![s] = new] /\ blob' = [blob EXCEPT ![id] = fresh]
    BY <1>3 DEF UploadCreate
<1>5. /\ new.pc = "copy" /\ new.id = id /\ new.expires = now + up[s].duration
      /\ new.duration = up[s].duration
    BY <1>1 DEF UploadRequests
<1>6. /\ fresh.save = s /\ fresh.whole = FALSE
    OBVIOUS
<1> HIDE DEF new, fresh
<1>7. /\ up'[s] = new /\ \A t \in Saves \ {s} : up'[t] = up[t]
      /\ blob'[id] = fresh /\ \A i \in Ids \ {id} : blob'[i] = blob[i]
    BY <1>1, <1>4 DEF FileInv, TypeOK
<1>8. IdsOfTheirOwn'
    BY <1>1, <1>2, <1>5, <1>7 DEF LinkInv, IdsOfTheirOwn
<1>9. BlobsOwned'
    <2>1. \A i \in Ids : blob[i] # NoBlob => blob[i].save \in Saves
        BY <1>1, NoBlobIsNone
    <2>2. \A i \in Ids : blob[i] # NoBlob => blob[i].save # s
        BY <1>2, NoIdAssumption DEF LinkInv, BlobsOwned
    <2> QED BY <1>1, <1>3, <1>5, <1>6, <1>7, <2>1, <2>2 DEF LinkInv, BlobsOwned
<1>10. OpenedSound'
    <2>1. \A r \in Readers : reader[r].pc = "stale" /\ r \notin dirty =>
              reader[r].id \in Ids /\ reader[r].id # id
        BY <1>3, NoRecordIsNone DEF FileInv, ReadPhases, SnapshotSound
    <2> QED BY <1>1, <1>7, <2>1 DEF LinkInv, OpenedSound
<1>11. SweepSound'
    BY <1>1 DEF LinkInv, SweepSound
<1>12. LifetimeKept'
    <2>1. new.expires <= now + new.duration
        <3>1. expires \in Int
            BY <1>1, LimitsAssumption DEF UploadRequests
        <3> QED BY <1>5, <3>1
    <2>2. \A t \in Saves : up[t].pc \in {"stored", "ok"} => up[t].id \in Ids \ {id}
        BY <1>2 DEF FileInv, UploadPhases
    <2> QED BY <1>1, <1>5, <1>7, <2>1, <2>2 DEF LinkInv, LifetimeKept
<1> QED BY <1>8, <1>9, <1>10, <1>11, <1>12 DEF LinkInv

(* The phase moves on and the blob stays as it is.                         *)
LEMMA LinkPhaseMoves ==
    ASSUME FileInv, FileInv', LinkInv, NEW s \in Saves,
           NEW pc \in {"copy", "chtimes", "setnx", "redo", "undo"},
           up[s].pc \notin {"new", "create", "error"},
           pc \in {"copy", "chtimes", "setnx"} => up[s].pc \in {"copy", "chtimes", "setnx"},
           up' = [up EXCEPT ![s] = [up[s] EXCEPT !.pc = pc]],
           UNCHANGED <<db, drawn, dirty, now, reader, sweep, taken>>,
           \A id \in Ids :
               \/ blob'[id] = blob[id]
               \/ /\ id = up[s].id /\ blob[id] # NoBlob
                  /\ blob'[id].save = blob[id].save
                  /\ blob[id].whole => blob'[id].whole,
           blob'[up[s].id].save = s => blob'[up[s].id].whole \/ pc \in {"copy", "undo"}
    PROVE  LinkInv'
<1> DEFINE new == [up[s] EXCEPT !.pc = pc]
<1>1. up[s] \in UploadRequests
    BY DEF FileInv, TypeOK
<1>2. /\ new \in UploadRequests /\ new.pc = pc /\ new.id = up[s].id
      /\ new.duration = up[s].duration /\ new.expires = up[s].expires
    BY <1>1 DEF UploadRequests
<1>3. up' = [up EXCEPT ![s] = new]
    OBVIOUS
<1> HIDE DEF new
<1>4. up[s].id \in Ids
    BY DEF FileInv, UploadPhases
<1>5. \A id \in Ids : blob'[id].save = s => id = up[s].id
    <2>1. \A id \in Ids : blob[id].save = s => id = up[s].id
        BY NoSaveAssumption DEF LinkInv, BlobsOwned, NoBlob
    <2> QED BY <2>1
<1>6. /\ new.pc \notin {"new", "create", "stored", "ok"}
      /\ new.pc \in {"copy", "chtimes", "setnx"} => up[s].pc \in {"copy", "chtimes", "setnx"}
    BY <1>2
<1>7. \A id \in Ids : blob'[id].save = s =>
          new.id = id /\ (blob'[id].whole \/ new.pc \in {"copy", "undo", "error"})
    BY <1>2, <1>5
<1>8. UNCHANGED <<db, dirty, now, reader, sweep, taken>> /\ drawn \subseteq drawn'
    OBVIOUS
<1>9. \A id \in Ids : \/ blob'[id] = blob[id]
                      \/ blob'[id] = NoBlob
                      \/ /\ blob[id] # NoBlob /\ blob'[id].save = blob[id].save
                         /\ blob[id].whole => blob'[id].whole
    OBVIOUS
<1>10. /\ new.id \in {NoId, up[s].id}
       /\ new.pc \in {"new", "create"} => new.id = NoId
       /\ new.pc \in {"copy", "chtimes", "setnx"} =>
              /\ up[s].pc \in {"copy", "chtimes", "setnx"}
              /\ new.expires = up[s].expires /\ new.duration = up[s].duration
    BY <1>2, <1>6
<1>11. new.pc \in {"stored", "ok"} =>
               /\ up[s].pc \in {"stored", "ok"} /\ new.id = up[s].id
               /\ new.expires = up[s].expires /\ new.deadline = up[s].deadline
    BY <1>6
<1> QED BY <1>2, <1>3, <1>7, <1>8, <1>9, <1>10, <1>11, UploadLinks

LEMMA LinkUploadCopy ==
    ASSUME FileInv, FileInv', LinkInv, NEW s \in Saves, UploadCopy(s)
    PROVE  LinkInv'
<1>1. /\ up[s].pc = "copy" /\ up' = [up EXCEPT ![s] = [up[s] EXCEPT !.pc = "chtimes"]]
      /\ UNCHANGED <<db, drawn, dirty, now, reader, sweep, taken>>
      /\ blob \in [Ids -> Blobs \cup {NoBlob}]
    BY DEF UploadCopy, uploadOnly, FileInv, TypeOK
<1>2. PICK id \in Ids : id = up[s].id
    BY <1>1 DEF FileInv, UploadPhases
<1>3. CASE blob[id].save # s
    <2>1. blob' = blob
        BY <1>2, <1>3 DEF UploadCopy
    <2> QED BY <1>1, <1>2, <1>3, <2>1, LinkPhaseMoves
<1>4. CASE blob[id].save = s
    <2> DEFINE b == [blob[id] EXCEPT !.whole = TRUE, !.mtime = now]
    <2>1. blob[id] \in Blobs /\ blob[id] # NoBlob
        BY <1>1, <1>4, NoSaveAssumption, NoBlobIsNone DEF NoBlob
    <2>2. b.save = blob[id].save /\ b.whole = TRUE
        BY <2>1 DEF Blobs
    <2>3. blob'[id] = b /\ \A i \in Ids \ {id} : blob'[i] = blob[i]
        BY <1>1, <1>2, <1>4 DEF UploadCopy
    <2> HIDE DEF b
    <2> QED BY <1>1, <1>2, <2>1, <2>2, <2>3, LinkPhaseMoves
<1> QED BY <1>3, <1>4

LEMMA LinkUploadChtimes ==
    ASSUME FileInv, FileInv', LinkInv, NEW s \in Saves, UploadChtimes(s)
    PROVE  LinkInv'
<1>1. /\ up[s].pc = "chtimes"
      /\ UNCHANGED <<db, drawn, dirty, now, reader, sweep, taken>>
      /\ blob \in [Ids -> Blobs \cup {NoBlob}]
    BY DEF UploadChtimes, uploadOnly, FileInv, TypeOK
<1>2. PICK id \in Ids : id = up[s].id
    BY <1>1 DEF FileInv, UploadPhases
<1>3. CASE blob[id] = NoBlob
    <2>1. blob' = blob /\ up' = [up EXCEPT ![s] = [up[s] EXCEPT !.pc = "undo"]]
        BY <1>2, <1>3 DEF UploadChtimes
    <2> QED BY <1>1, <1>2, <2>1, LinkPhaseMoves
<1>4. CASE blob[id] # NoBlob
    <2> DEFINE b == [blob[id] EXCEPT !.mtime = up[s].expires]
    <2>1. blob[id] \in Blobs /\ (blob[id].save = s => blob[id].whole)
        BY <1>1, <1>4 DEF LinkInv, BlobsOwned
    <2>2. b.save = blob[id].save /\ b.whole = blob[id].whole
        BY <2>1 DEF Blobs
    <2>3. /\ blob'[id] = b /\ \A i \in Ids \ {id} : blob'[i] = blob[i]
          /\ up' = [up EXCEPT ![s] = [up[s] EXCEPT !.pc = "setnx"]]
        BY <1>1, <1>2, <1>4 DEF UploadChtimes
    <2> HIDE DEF b
    <2>4. \A i \in Ids :
             \/ blob'[i] = blob[i]
             \/ /\ i = up[s].id /\ blob[i] # NoBlob
                /\ blob'[i].save = blob[i].save
                /\ blob[i].whole => blob'[i].whole
        BY <1>2, <1>4, <2>2, <2>3
    <2>5. blob'[up[s].id].save = s => blob'[up[s].id].whole
        BY <1>2, <2>1, <2>2, <2>3
    <2> QED BY <1>1, <2>3, <2>4, <2>5, LinkPhaseMoves
<1> QED BY <1>3, <1>4

(* The record is stored while the id and the blob under it are the         *)
(* upload's own.                                                           *)
LEMMA LinkUploadSetNX ==
    ASSUME FileInv, FileInv', LinkInv, NEW s \in Saves, UploadSetNX(s)
    PROVE  LinkInv'
<1> USE DEF LinkInv
<1>1. /\ up[s].pc = "setnx" /\ UNCHANGED <<blob, drawn, now, reader, sweep, taken>>
      /\ up[s] \in UploadRequests /\ now \in Nat
    BY DEF UploadSetNX, uploadOnly, FileInv, TypeOK
<1>2. PICK id \in Ids : id = up[s].id
    BY <1>1 DEF FileInv, UploadPhases
<1>3. CASE Live(id)
    <2>1. up' = [up EXCEPT ![s] = [up[s] EXCEPT !.pc = "redo"]] /\ UNCHANGED <<db, dirty>>
        BY <1>2, <1>3 DEF UploadSetNX
    <2>2. blob[id].save = s => blob[id].whole
        BY <1>1, NoSaveAssumption DEF BlobsOwned, NoBlob
    <2> QED BY <1>1, <1>2, <2>1, <2>2, LinkPhaseMoves
<1>4. CASE ~ Live(id)
    <2> DEFINE deadline == now + up[s].duration
               rec == [save |-> s, key |-> up[s].key, version |-> up[s].version,
                       views |-> StoredViews(up[s].views), deadline |-> deadline]
               new == [up[s] EXCEPT !.pc = "stored", !.deadline = deadline]
    <2>1. up' = [up EXCEPT ![s] = new] /\ db' = [db EXCEPT ![id] = rec] /\ Touch(id, {})
        BY <1>2, <1>4 DEF UploadSetNX
    <2>2. /\ new.pc = "stored" /\ new.id = id /\ new.expires = up[s].expires
          /\ new.deadline = deadline /\ rec.save = s /\ rec.deadline = deadline
        <3> HIDE DEF deadline
        <3> QED BY <1>1, <1>2 DEF UploadRequests
    <2>3. new.expires <= deadline /\ deadline \in Int
        BY <1>1, <2>2, LimitsAssumption DEF LifetimeKept, UploadRequests
    <2> HIDE DEF new, rec, deadline
    <2>4. /\ up'[s] = new /\ \A t \in Saves \ {s} : up'[t] = up[t]
          /\ db'[id] = rec /\ \A i \in Ids \ {id} : db'[i] = db[i]
        BY <2>1 DEF FileInv, TypeOK
    <2>5. dirty \subseteq dirty'
        BY <2>1 DEF Touch
    <2>6. \A t \in Saves \ {s} : up[t].id # id
        BY <1>2, NoIdAssumption DEF IdsOfTheirOwn
    <2>7. IdsOfTheirOwn'
        BY <1>1, <1>2, <2>2, <2>4 DEF IdsOfTheirOwn
    <2>8. BlobsOwned'
        <3>1. blob[id] # NoBlob => blob[id].save = s /\ blob[id].whole
            <4>1. blob[id] # NoBlob => blob[id].save = s
                BY <1>2, OwnersByID
            <4> QED BY <1>1, <4>1 DEF BlobsOwned
        <3>2. \A i \in Ids \ {id} : blob[i] # NoBlob => blob[i].save # s
            BY <1>2 DEF BlobsOwned
        <3>3. \A i \in Ids : blob[i] # NoBlob => blob[i].save \in Saves
            BY NoBlobIsNone DEF FileInv, TypeOK
        <3> QED BY <1>1, <1>2, <2>2, <2>4, <3>1, <3>2, <3>3 DEF BlobsOwned
    <2>9. OpenedSound' /\ SweepSound'
        BY <1>1, <2>5 DEF OpenedSound, SweepSound
    <2>10. LifetimeKept'
        <3>1. \A t \in Saves : up[t].pc \in {"stored", "ok"} /\ t # s => up[t].id \in Ids \ {id}
            BY <2>6 DEF FileInv, UploadPhases
        <3>2. deadline <= deadline
            BY <2>3
        <3>3. ASSUME NEW t \in Saves
              PROVE  /\ up'[t].pc \in {"copy", "chtimes", "setnx"} =>
                            up'[t].expires <= now + up'[t].duration
                     /\ up'[t].pc \in {"stored", "ok"} =>
                          /\ up'[t].expires <= up'[t].deadline
                          /\ 0 \notin taken[t] /\ now <= up'[t].deadline /\ blob[up'[t].id].save = t =>
                                /\ db'[up'[t].id].save = t
                                /\ up'[t].deadline <= db'[up'[t].id].deadline
            <4>1. CASE t = s
                BY <1>2, <2>2, <2>3, <2>4, <3>2, <4>1
            <4>2. CASE t # s
                BY <2>4, <3>1, <4>2 DEF LifetimeKept
            <4> QED BY <4>1, <4>2
        <3> QED BY <1>1, <2>5, <3>3 DEF LifetimeKept
    <2> QED BY <2>7, <2>8, <2>9, <2>10
<1> QED BY <1>3, <1>4

(* The upload gives its id up, and the blob it had made is gone.           *)
LEMMA LinkUploadReturns ==
    ASSUME FileInv, FileInv', LinkInv, NEW s \in Saves, NEW new \in UploadRequests,
           up' = [up EXCEPT ![s] = new],
           new.pc \in {"create", "error"},
           new.pc = "create" => new.id = NoId,
           new.id \in {NoId, up[s].id},
           UNCHANGED <<db, dirty, now, reader, sweep, taken>>, drawn \subseteq drawn',
           \A id \in Ids : blob'[id] = blob[id] \/ blob'[id] = NoBlob,
           \A id \in Ids : blob'[id].save # s
    PROVE  LinkInv'
BY UploadLinks

LEMMA LinkUploadUndo ==
    ASSUME FileInv, FileInv', LinkInv, NEW s \in Saves, UploadUndo(s)
    PROVE  LinkInv'
<1>1. /\ up[s].pc \in {"redo", "undo"}
      /\ UNCHANGED <<db, drawn, dirty, now, reader, sweep, taken>>
      /\ up[s] \in UploadRequests /\ blob \in [Ids -> Blobs \cup {NoBlob}]
    BY DEF UploadUndo, uploadOnly, FileInv, TypeOK
<1>2. PICK id \in Ids : id = up[s].id
    BY <1>1 DEF FileInv, UploadPhases
<1>3. blob'[id] = NoBlob /\ \A i \in Ids \ {id} : blob'[i] = blob[i]
    BY <1>1, <1>2 DEF UploadUndo
<1>4. \A i \in Ids : blob'[i].save # s
    BY <1>2, <1>3, NoSaveAssumption DEF NoBlob, LinkInv, BlobsOwned
<1>5. PICK new \in UploadRequests :
         /\ up' = [up EXCEPT ![s] = new] /\ new.pc \in {"create", "error"}
         /\ new.pc = "create" => new.id = NoId
         /\ new.id \in {NoId, up[s].id}
    <2>1. CASE up[s].pc = "undo"
        <3>1. up' = [up EXCEPT ![s] = Returned(up[s], "error")]
            BY <2>1 DEF UploadUndo
        <3> QED BY <1>1, <3>1, ReturnedType
    <2>2. CASE up[s].pc = "redo"
        <3>1. up' = [up EXCEPT ![s] = AnotherId(up[s])]
            BY <2>2 DEF UploadUndo
        <3>2. up[s].attempts < MaxStorageIDAttempts
            BY <2>2 DEF FileInv, UploadPhases, Unsaved
        <3> QED BY <1>1, <3>1, <3>2, AnotherIdType
    <2> QED BY <1>1, <2>1, <2>2
<1> QED BY <1>1, <1>3, <1>4, <1>5, LinkUploadReturns

LEMMA LinkUploadAnswer ==
    ASSUME FileInv, FileInv', LinkInv, NEW s \in Saves, UploadAnswer(s)
    PROVE  LinkInv'
<1> DEFINE new == Returned(up[s], "ok")
<1>1. /\ up[s].pc = "stored" /\ up' = [up EXCEPT ![s] = new]
      /\ UNCHANGED <<db, blob, drawn, dirty, now, reader, sweep, taken>>
      /\ up[s] \in UploadRequests
    BY DEF UploadAnswer, uploadOnly, FileInv, TypeOK
<1>2. /\ new \in UploadRequests /\ new.pc = "ok" /\ new.id = up[s].id
      /\ new.expires = up[s].expires /\ new.deadline = up[s].deadline
    BY <1>1, ReturnedType
<1> HIDE DEF new
<1>3. \A id \in Ids : blob[id].save = s => new.id = id /\ blob[id].whole
    BY <1>1, <1>2, NoSaveAssumption DEF LinkInv, BlobsOwned, NoBlob
<1>4. /\ new.id \in {NoId, up[s].id}
      /\ new.pc \notin {"new", "create"} /\ new.pc \notin {"copy", "chtimes", "setnx"}
      /\ new.pc \in {"stored", "ok"} =>
               /\ up[s].pc \in {"stored", "ok"} /\ new.id = up[s].id
               /\ new.expires = up[s].expires /\ new.deadline = up[s].deadline
    BY <1>1, <1>2
<1>5. blob' = blob /\ drawn \subseteq drawn'
      /\ UNCHANGED <<db, dirty, now, reader, sweep, taken>>
    BY <1>1
<1>6. \A id \in Ids : blob'[id].save = s =>
          new.id = id /\ (blob'[id].whole \/ new.pc \in {"copy", "undo", "error"})
    BY <1>3, <1>5
<1>7. \A id \in Ids : blob'[id] = blob[id]
    BY <1>5
<1>8. up' = [up EXCEPT ![s] = new] /\ new \in UploadRequests
    BY <1>1, <1>2
<1> QED BY <1>4, <1>5, <1>6, <1>7, <1>8, UploadLinks

LEMMA LinkUploadFailed ==
    ASSUME FileInv, FileInv', LinkInv, NEW s \in Saves, UploadFailed(s)
    PROVE  LinkInv'
<1>1. /\ up[s].pc \in {"create", "copy", "chtimes", "setnx", "stored"}
      /\ up' = [up EXCEPT ![s] = IF up[s].pc = "create" THEN Returned(up[s], "error")
                                 ELSE [up[s] EXCEPT !.pc = "undo"]]
      /\ UNCHANGED <<db, blob, drawn, dirty, now, reader, sweep, taken>>
      /\ up[s] \in UploadRequests
    BY DEF UploadFailed, uploadOnly, FileInv, TypeOK
<1>2. CASE up[s].pc = "create"
    <2>1. \A id \in Ids : blob[id].save # s
        <3>1. up[s].id = NoId
            BY <1>2 DEF LinkInv, IdsOfTheirOwn
        <3> QED BY <3>1, NoIdAssumption, NoSaveAssumption DEF LinkInv, BlobsOwned, NoBlob
    <2> DEFINE new == Returned(up[s], "error")
    <2>2. new \in UploadRequests /\ new.pc = "error" /\ new.id = up[s].id
        BY <1>1, ReturnedType
    <2>3. up' = [up EXCEPT ![s] = new]
        BY <1>1, <1>2
    <2> HIDE DEF new
    <2> QED BY <1>1, <2>1, <2>2, <2>3, LinkUploadReturns
<1>3. CASE up[s].pc # "create"
    <2>1. up' = [up EXCEPT ![s] = [up[s] EXCEPT !.pc = "undo"]]
        BY <1>1, <1>3
    <2>2. up[s].pc \notin {"new", "create", "error"}
        BY <1>1, <1>3
    <2>3. \A id \in Ids : blob'[id] = blob[id]
        BY <1>1
    <2> DEFINE pc == "undo"
    <2>4. /\ pc \in {"copy", "chtimes", "setnx", "redo", "undo"} /\ pc \in {"copy", "undo"}
          /\ pc \notin {"copy", "chtimes", "setnx"}
          /\ up' = [up EXCEPT ![s] = [up[s] EXCEPT !.pc = pc]]
        BY <2>1
    <2> HIDE DEF pc
    <2>5. UNCHANGED <<db, drawn, dirty, now, reader, sweep, taken>>
        BY <1>1
    <2> QED BY <2>2, <2>3, <2>4, <2>5, LinkPhaseMoves
<1> QED BY <1>2, <1>3

(* A step of one download that takes no view.                              *)
LEMMA ReaderLinks ==
    ASSUME FileInv, FileInv', LinkInv, NEW r \in Readers, NEW new \in ReadRequests,
           UNCHANGED <<db, now, drawn, up, sweep, taken>>,
           \A id \in Ids : blob'[id] = blob[id] \/ blob'[id] = NoBlob,
           reader' = [reader EXCEPT ![r] = new],
           dirty' = dirty \/ dirty' = dirty \ {r},
           new.pc \in {"pttl", "set", "del"} /\ r \notin dirty' =>
               new.fd.whole /\ new.fd.save = new.cur.save,
           new.pc # "committed",
           new.pc = "stale" /\ r \notin dirty' => blob[new.id] = NoBlob,
           new.pc = "set" /\ r \notin dirty' => new.cur.deadline <= now + new.ttl
    PROVE  LinkInv'
<1> USE DEF LinkInv
<1>1. reader'[r] = new /\ \A q \in Readers \ {r} : reader'[q] = reader[q]
    BY DEF FileInv, TypeOK
<1>2. \A q \in Readers \ {r} : q \in dirty' <=> q \in dirty
    OBVIOUS
<1>3. IdsOfTheirOwn' /\ BlobsOwned' /\ SweepSound'
    BY DEF IdsOfTheirOwn, BlobsOwned, SweepSound
<1>4. OpenedSound'
    <2>1. \A q \in Readers : reader'[q].pc = "stale" => reader'[q].id \in Ids
        BY DEF FileInv, ReadPhases
    <2> QED BY <1>1, <1>2, <2>1 DEF OpenedSound
<1>5. LifetimeKept'
    <2>1. ASSUME NEW t \in Saves, up[t].pc \in {"stored", "ok"}, blob'[up[t].id].save = t
          PROVE  blob[up[t].id].save = t
        BY <2>1, NoSaveAssumption DEF NoBlob, FileInv, UploadPhases
    <2> QED BY <1>1, <1>2, <2>1 DEF LifetimeKept
<1> QED BY <1>3, <1>4, <1>5

LEMMA LinkEnded ==
    ASSUME FileInv, FileInv', LinkInv, NEW r \in Readers, Ended(r),
           UNCHANGED <<db, now, drawn, up, sweep, taken>>,
           \A id \in Ids : blob'[id] = blob[id] \/ blob'[id] = NoBlob
    PROVE  LinkInv'
<1>1. PICK status \in Statuses : reader' = [reader EXCEPT ![r] = [NoRequest EXCEPT !.status = status]]
    BY DEF Ended
<1> DEFINE new == [NoRequest EXCEPT !.status = status]
<1>2. new \in ReadRequests /\ new.pc = "idle"
    BY EndedType
<1>3. reader' = [reader EXCEPT ![r] = new] /\ dirty' = dirty \ {r}
    BY <1>1 DEF Ended
<1> HIDE DEF new
<1> QED BY <1>2, <1>3, ReaderLinks

(* The steps before the blob is opened.                                    *)
LEMMA LinkReadBegins ==
    ASSUME FileInv, FileInv', LinkInv, NEW r \in Readers,
           ReadRequest(r) \/ ReadWatch(r) \/ ReadGet(r) \/ ReadRefused(r)
    PROVE  LinkInv'
<1> DEFINE new == reader'[r]
<1>1. /\ UNCHANGED <<db, blob, now, drawn, up, sweep, taken>>
      /\ reader \in [Readers -> ReadRequests] /\ new \in ReadRequests
    BY DEF ReadRequest, ReadWatch, ReadGet, ReadRefused, readOnly, FileInv, TypeOK
<1>2. /\ reader' = [reader EXCEPT ![r] = new] /\ (dirty' = dirty \/ dirty' = dirty \ {r})
      /\ new.pc \in {"idle", "watch", "get", "open"}
    <2>1. CASE ReadRequest(r)
        <3>1. PICK id \in Ids, key \in PresentedKeys :
                reader' = [reader EXCEPT ![r] =
                    [NoRequest EXCEPT !.pc = "watch", !.id = id, !.key = key, !.start = now]]
            BY <2>1 DEF ReadRequest
        <3>2. new = [NoRequest EXCEPT !.pc = "watch", !.id = id, !.key = key, !.start = now]
            BY <1>1, <3>1
        <3>3. new.pc = "watch"
            BY <3>2, NoRequestType DEF ReadRequests
        <3> QED BY <1>1, <2>1, <3>1, <3>3 DEF ReadRequest
    <2>2. CASE ReadWatch(r)
        <3>1. new = [reader[r] EXCEPT !.pc = "get"] /\ reader[r] \in ReadRequests
            BY <1>1, <2>2 DEF ReadWatch
        <3>2. new.pc = "get"
            BY <3>1 DEF ReadRequests
        <3> QED BY <1>1, <2>2, <3>2 DEF ReadWatch
    <2>3. CASE Ended(r)
        BY <1>1, <2>3, EndedType DEF Ended
    <2>4. CASE ReadGet(r) /\ ~ Ended(r)
        <3>1. /\ reader' = [reader EXCEPT ![r].cur = db[reader[r].id], ![r].pc = "open"]
              /\ dirty' = dirty
            BY <2>4, GetCases
        <3>2. new = [reader[r] EXCEPT !.cur = db[reader[r].id], !.pc = "open"]
              /\ reader[r] \in ReadRequests
            BY <1>1, <3>1
        <3>3. new.pc = "open"
            BY <3>2 DEF ReadRequests
        <3> QED BY <1>1, <3>1, <3>3
    <2>5. CASE ReadRefused(r) /\ ~ Ended(r)
        <3>1. /\ reader' = [reader EXCEPT ![r].pc = "watch", ![r].cur = NoRecord,
                                        ![r].fd = NoBlob, ![r].ttl = 0]
              /\ dirty' = dirty \ {r}
            BY <2>5, RefusedCases
        <3>2. new = [reader[r] EXCEPT !.pc = "watch", !.cur = NoRecord, !.fd = NoBlob, !.ttl = 0]
              /\ reader[r] \in ReadRequests
            BY <1>1, <3>1
        <3>3. new.pc = "watch"
            BY <3>2 DEF ReadRequests
        <3> QED BY <1>1, <3>1, <3>3
    <2> QED BY <2>1, <2>2, <2>3, <2>4, <2>5
<1> HIDE DEF new
<1>3. \A id \in Ids : blob'[id] = blob[id] \/ blob'[id] = NoBlob
    BY <1>1
<1> QED BY <1>1, <1>2, <1>3, ReaderLinks

(* What is opened under the id of a record is the file of that record.     *)
LEMMA LinkReadOpen ==
    ASSUME FileInv, FileInv', LinkInv, NEW r \in Readers, ReadOpen(r)
    PROVE  LinkInv'
<1> DEFINE found == blob[reader[r].id]
           pc == IF found = NoBlob THEN "stale"
                 ELSE IF reader[r].cur.views > 1 THEN "pttl" ELSE "del"
           new == [reader[r] EXCEPT !.fd = found, !.pc = pc]
<1>1. /\ reader[r].pc = "open" /\ reader' = [reader EXCEPT ![r] = new]
      /\ UNCHANGED <<db, blob, dirty, now, drawn, up, sweep, taken>>
    BY DEF ReadOpen, readOnly
<1>2. PICK id \in Ids : id = reader[r].id
    BY <1>1 DEF FileInv, ReadPhases
<1>3. /\ reader[r] \in ReadRequests /\ reader[r].cur \in Records
      /\ r \notin dirty => db[id] = reader[r].cur
    BY <1>1, <1>2 DEF FileInv, TypeOK, ReadPhases, SnapshotSound
<1>4. ASSUME r \notin dirty, found # NoBlob
      PROVE  found.whole /\ found.save = reader[r].cur.save
    <2>1. db[id] # NoRecord /\ db[id].save \in Saves /\ db[id] = reader[r].cur
        BY <1>3, <1>4, NoRecordIsNone
    <2>2. up[db[id].save].id = id
        BY <2>1 DEF FileInv, FileViewsConserved
    <2>3. found.save = db[id].save
        BY <1>2, <1>4, <2>1, <2>2, OwnersByID
    <2>4. found.whole
        BY <1>2, <1>4, <2>1 DEF LinkInv, BlobsOwned
    <2> QED BY <2>1, <2>3, <2>4
<1>5. /\ pc \in {"stale", "pttl", "del"} /\ (pc = "stale" <=> found = NoBlob)
    OBVIOUS
<1>6. found \in Blobs \cup {NoBlob} /\ found = blob[id]
    BY <1>2 DEF FileInv, TypeOK
<1> HIDE DEF pc, found
<1>7. /\ new \in ReadRequests /\ new.pc = pc /\ new.id = reader[r].id
      /\ new.cur = reader[r].cur /\ new.fd = found
    BY <1>3, <1>5, <1>6 DEF ReadRequests
<1> HIDE DEF new
<1> QED BY <1>1, <1>2, <1>4, <1>5, <1>6, <1>7, ReaderLinks

(* The lifetime read by PTTL ends no earlier than the record's.            *)
LEMMA LinkReadPTTL ==
    ASSUME FileInv, FileInv', LinkInv, NEW r \in Readers, ReadPTTL(r)
    PROVE  LinkInv'
<1> DEFINE id == reader[r].id
           ttl == IF Live(id) THEN db[id].deadline - now ELSE -2
           rest == IF ttl > 0 THEN ttl ELSE 0
           pc == IF ttl > 0 THEN "set" ELSE "del"
           new == [reader[r] EXCEPT !.ttl = rest, !.pc = pc]
<1>1. /\ reader[r].pc = "pttl" /\ reader' = [reader EXCEPT ![r] = new]
      /\ UNCHANGED <<db, blob, dirty, now, drawn, up, sweep, taken>>
    BY DEF ReadPTTL, readOnly
<1>2. /\ reader[r] \in ReadRequests /\ reader[r].id \in Ids /\ reader[r].cur \in Records
      /\ r \notin dirty => db[reader[r].id] = reader[r].cur
      /\ r \notin dirty => reader[r].fd.whole /\ reader[r].fd.save = reader[r].cur.save
    BY <1>1 DEF FileInv, TypeOK, ReadPhases, SnapshotSound, LinkInv, OpenedSound
<1>3. now \in Nat /\ reader[r].cur.deadline \in Nat /\ ttl \in Int
    <2>1. now \in Nat /\ reader[r].cur.deadline \in Nat
        BY <1>2 DEF FileInv, TypeOK, Records
    <2>2. Live(id) => db[id].deadline \in Nat
        BY <1>2 DEF FileInv, TypeOK, Live, Records
    <2> QED BY <2>1, <2>2
<1>4. /\ rest \in Nat /\ pc \in {"set", "del"} /\ (pc = "set" => rest > 0)
      /\ pc = "set" /\ r \notin dirty => reader[r].cur.deadline <= now + rest
    <2>1. rest \in Nat /\ pc \in {"set", "del"} /\ (pc = "set" => rest > 0 /\ rest = ttl /\ Live(id))
        BY <1>3
    <2>2. Live(id) => ttl = db[id].deadline - now
        OBVIOUS
    <2> HIDE DEF rest, pc, ttl
    <2> QED BY <1>2, <1>3, <2>1, <2>2
<1> HIDE DEF rest, pc, ttl
<1>5. /\ new \in ReadRequests /\ new.pc = pc /\ new.id = reader[r].id /\ new.ttl = rest
      /\ new.cur = reader[r].cur /\ new.fd = reader[r].fd
    BY <1>2, <1>4 DEF ReadRequests
<1> HIDE DEF new, id
<1> QED BY <1>1, <1>2, <1>4, <1>5, ReaderLinks

(* A commit: what the reader opened goes with the view, and a record that  *)
(* stays ends no earlier than before.                                      *)
LEMMA LinkCommit ==
    ASSUME FileInv, FileInv', LinkInv, NEW r \in Readers, NEW view \in Nat,
           NEW new \in Records \cup {NoRecord},
           reader[r].pc \in {"set", "del"}, ExecAllowed(r),
           db' = [db EXCEPT ![reader[r].id] = new],
           TakeView(r, view),
           \/ new = NoRecord /\ view = 0
           \/ /\ new \in Records /\ new.save = reader[r].cur.save
              /\ reader[r].cur.deadline <= new.deadline
    PROVE  LinkInv'
<1> USE DEF LinkInv
<1> DEFINE cur == reader[r].cur
           next == [reader[r] EXCEPT !.pc = "committed", !.view = view, !.key = Empty,
                                     !.ttl = 0, !.start = 0, !.took = reader[r].took + 1]
<1>1. PICK id \in Ids : id = reader[r].id
    BY DEF FileInv, ReadPhases
<1>2. PICK s \in Saves : s = cur.save
    BY NoRecordIsNone DEF FileInv, ReadPhases
<1>3. /\ reader[r] \in ReadRequests /\ db[id] = cur /\ db[id] # NoRecord /\ r \notin dirty
      /\ cur \in Records /\ reader[r].fd.whole /\ reader[r].fd.save = s
    BY <1>1, <1>2 DEF FileInv, TypeOK, ReadPhases, SnapshotSound, ExecAllowed, Live, OpenedSound
<1>4. up[s].id = id
    BY <1>2, <1>3 DEF FileInv, FileViewsConserved
<1>5. /\ reader' = [reader EXCEPT ![r] = next]
      /\ taken' = [taken EXCEPT ![s] = taken[s] \cup {view}]
      /\ UNCHANGED <<blob, now, drawn, up, sweep>> /\ dirty \subseteq dirty'
    BY <1>2 DEF TakeView, readOnly, Touch
<1>6. next.pc = "committed" /\ next.fd = reader[r].fd /\ next.cur = cur
    BY <1>3 DEF ReadRequests
<1> HIDE DEF next
<1>7. /\ reader'[r] = next /\ \A q \in Readers \ {r} : reader'[q] = reader[q]
      /\ taken'[s] = taken[s] \cup {view} /\ \A t \in Saves : taken[t] \subseteq taken'[t]
      /\ db'[id] = new /\ \A i \in Ids \ {id} : db'[i] = db[i]
    BY <1>1, <1>5 DEF FileInv, TypeOK
<1>8. IdsOfTheirOwn' /\ SweepSound'
    BY <1>5 DEF IdsOfTheirOwn, SweepSound
<1>9. BlobsOwned'
    BY <1>3, <1>5, <1>7 DEF BlobsOwned
<1>10. OpenedSound'
    BY <1>2, <1>3, <1>5, <1>6, <1>7 DEF OpenedSound
<1>11. LifetimeKept'
    <2>1. ASSUME NEW t \in Saves, up[t].pc \in {"stored", "ok"}, 0 \notin taken'[t],
                 now <= up[t].deadline, blob[up[t].id].save = t
          PROVE  db'[up[t].id].save = t /\ up[t].deadline <= db'[up[t].id].deadline
        <3>1. db[up[t].id].save = t /\ up[t].deadline <= db[up[t].id].deadline
            BY <1>7, <2>1 DEF LifetimeKept
        <3>2. up[t].id \in Ids
            BY <2>1 DEF FileInv, UploadPhases
        <3>3. CASE up[t].id = id
            <4>1. t = s
                BY <1>2, <1>3, <3>1, <3>3
            <4>2. new # NoRecord /\ new \in Records
                BY <1>7, <2>1, <4>1, NoRecordIsNone
            <4>3. up[t].deadline \in Nat /\ cur.deadline \in Nat /\ new.deadline \in Nat
                BY <1>3, <4>2 DEF FileInv, TypeOK, UploadRequests, Records
            <4>4. new.save = s /\ cur.deadline <= new.deadline
                BY <1>2, <4>2
            <4> QED BY <1>3, <1>7, <3>1, <3>3, <4>1, <4>3, <4>4
        <3>4. CASE up[t].id # id
            BY <1>7, <3>1, <3>2, <3>4
        <3> QED BY <3>3, <3>4
    <2>2. ASSUME NEW q \in Readers, reader'[q].pc = "set", q \notin dirty'
          PROVE  reader'[q].cur.deadline <= now + reader'[q].ttl
        BY <1>5, <1>6, <1>7, <2>2 DEF LifetimeKept
    <2> QED BY <1>5, <2>1, <2>2 DEF LifetimeKept
<1> QED BY <1>8, <1>9, <1>10, <1>11

LEMMA LinkReadExec ==
    ASSUME FileInv, FileInv', LinkInv, NEW r \in Readers, ReadExecSet(r) \/ ReadExecDel(r)
    PROVE  LinkInv'
<1>1. CASE ReadExecDel(r)
    <2>1. /\ reader[r].pc \in {"set", "del"} /\ ExecAllowed(r) /\ TakeView(r, 0)
          /\ db' = [db EXCEPT ![reader[r].id] = NoRecord]
        BY <1>1 DEF ReadExecDel
    <2> QED BY <2>1, LinkCommit
<1>2. CASE ReadExecSet(r)
    <2> DEFINE new == [reader[r].cur EXCEPT !.views = reader[r].cur.views - 1,
                                            !.deadline = now + reader[r].ttl]
    <2>1. /\ reader[r].pc = "set" /\ ExecAllowed(r)
          /\ db' = [db EXCEPT ![reader[r].id] = new] /\ TakeView(r, new.views)
        BY <1>2 DEF ReadExecSet
    <2>2. reader[r].cur \in Records /\ reader[r].cur.views > 1
        BY <2>1 DEF FileInv, ReadPhases
    <2>3. now \in Nat /\ reader[r].ttl \in Nat
        BY DEF FileInv, TypeOK, ReadRequests
    <2>4. now + reader[r].ttl \in Nat
        BY <2>3
    <2>5. new \in Records
        BY <2>2, <2>4, UpdatedType
    <2>6. new.save = reader[r].cur.save /\ new.deadline = now + reader[r].ttl
        BY <2>2 DEF Records
    <2> HIDE DEF new
    <2>7. new.views \in Nat
        BY <2>5, LimitsAssumption DEF Records
    <2>8. reader[r].cur.deadline <= new.deadline
        BY <2>1, <2>6 DEF LinkInv, LifetimeKept, ExecAllowed
    <2>9. reader[r].pc \in {"set", "del"}
        BY <2>1
    <2> QED BY <2>1, <2>5, <2>6, <2>7, <2>8, <2>9, LinkCommit
<1> QED BY <1>1, <1>2

(* A record that is deleted as stale has no blob.                          *)
LEMMA LinkReadExecStale ==
    ASSUME FileInv, FileInv', LinkInv, NEW r \in Readers, ReadExecStale(r)
    PROVE  LinkInv'
<1> USE DEF LinkInv
<1>1. PICK id \in Ids : id = reader[r].id
    BY DEF ReadExecStale, FileInv, ReadPhases
<1>2. /\ db' = [db EXCEPT ![id] = NoRecord]
      /\ \E status \in Statuses : reader' = [reader EXCEPT ![r] = [NoRequest EXCEPT !.status = status]]
      /\ dirty \ {r} \subseteq dirty' /\ UNCHANGED <<blob, now, drawn, up, sweep, taken>>
      /\ blob[id] = NoBlob
    BY <1>1 DEF ReadExecStale, readOnly, ExecAllowed, OpenedSound, Statuses
<1>3. /\ reader'[r].pc = "idle" /\ \A q \in Readers \ {r} : reader'[q] = reader[q]
      /\ db'[id] = NoRecord /\ \A i \in Ids \ {id} : db'[i] = db[i]
    BY <1>2, EndedType DEF FileInv, TypeOK
<1>4. IdsOfTheirOwn' /\ SweepSound' /\ BlobsOwned'
    BY <1>2, <1>3 DEF IdsOfTheirOwn, SweepSound, BlobsOwned
<1>5. OpenedSound'
    BY <1>2, <1>3 DEF OpenedSound
<1>6. LifetimeKept'
    <2>1. ASSUME NEW t \in Saves, up[t].pc \in {"stored", "ok"}, blob[up[t].id].save = t
          PROVE  db'[up[t].id] = db[up[t].id]
        <3>1. up[t].id \in Ids
            BY <2>1 DEF FileInv, UploadPhases
        <3>2. up[t].id # id
            BY <1>2, <2>1, NoSaveAssumption DEF NoBlob
        <3> QED BY <1>3, <3>1, <3>2
    <2> QED BY <1>2, <1>3, <2>1 DEF LifetimeKept
<1> QED BY <1>4, <1>5, <1>6

LEMMA LinkReadEnds ==
    ASSUME FileInv, FileInv', LinkInv, NEW r \in Readers,
           ReadStream(r) \/ ReadUnlink(r) \/ ReadFailed(r)
    PROVE  LinkInv'
<1>1. UNCHANGED <<db, now, drawn, up, sweep, taken>> /\ reader[r] \in ReadRequests
    BY DEF ReadStream, ReadUnlink, ReadFailed, readOnly, FileInv, TypeOK
<1>2. \A id \in Ids : blob'[id] = blob[id] \/ blob'[id] = NoBlob
    BY DEF ReadStream, ReadUnlink, ReadFailed, FileInv, TypeOK
<1>3. CASE Ended(r)
    BY <1>1, <1>2, <1>3, LinkEnded
<1>4. CASE /\ reader[r].view = 0 /\ dirty' = dirty
           /\ \E status \in Statuses :
                 reader' = [reader EXCEPT ![r].pc = "unlink", ![r].status = status]
    <2>1. PICK status \in Statuses :
             reader' = [reader EXCEPT ![r].pc = "unlink", ![r].status = status]
        BY <1>4
    <2> DEFINE new == [reader[r] EXCEPT !.pc = "unlink", !.status = status]
    <2>2. new \in ReadRequests /\ new.pc = "unlink"
        BY <1>1 DEF ReadRequests, Statuses
    <2>3. reader' = [reader EXCEPT ![r] = new]
        BY <2>1
    <2> HIDE DEF new
    <2> QED BY <1>1, <1>2, <1>4, <2>2, <2>3, ReaderLinks
<1> QED BY <1>1, <1>3, <1>4, StreamCases, EndCases

LEMMA SweepLinks ==
    ASSUME FileInv, LinkInv, UNCHANGED <<db, now, drawn, up, reader, dirty, taken>>,
           \A id \in Ids : blob'[id] = blob[id] \/ blob'[id] = NoBlob,
           SweepSound'
    PROVE  LinkInv'
<1>1. IdsOfTheirOwn' /\ BlobsOwned'
    BY DEF LinkInv, IdsOfTheirOwn, BlobsOwned
<1>2. OpenedSound'
    BY DEF LinkInv, OpenedSound, FileInv, ReadPhases
<1>3. LifetimeKept'
    <2>1. ASSUME NEW t \in Saves, up[t].pc \in {"stored", "ok"}, blob'[up[t].id].save = t
          PROVE  blob[up[t].id].save = t
        BY <2>1, NoSaveAssumption DEF NoBlob, FileInv, UploadPhases
    <2> QED BY <2>1 DEF LinkInv, LifetimeKept
<1> QED BY <1>1, <1>2, <1>3 DEF LinkInv

(* A blob is removed only for an mtime that had passed when the sweep      *)
(* began.                                                                  *)
LEMMA LinkSweep ==
    ASSUME FileInv, LinkInv,
           \/ SweepStart \/ SweepRemove \/ SweepEnd \/ SweepFailed
           \/ \E id \in Ids : SweepInfo(id)
    PROVE  LinkInv'
<1>1. /\ sweep \in [pc : {"rest", "scan"}, at : Nat, todo : SUBSET Ids,
                    doomed : Ids \cup {NoId}, seen : Nat]
      /\ now \in Nat /\ blob \in [Ids -> Blobs \cup {NoBlob}]
      /\ UNCHANGED <<db, now, drawn, up, reader, dirty, taken>>
      /\ sweep.seen <= sweep.at /\ sweep.at <= now
    BY DEF FileInv, TypeOK, LinkInv, SweepSound, SweepStart, SweepRemove, SweepEnd, SweepFailed,
       SweepInfo, sweepOnly
<1>2. Resting.seen = 0 /\ Resting.at = 0 /\ 0 <= now
    BY <1>1 DEF Resting
<1>3. \A id \in Ids : blob'[id] = blob[id] \/ blob'[id] = NoBlob
    BY <1>1 DEF SweepStart, SweepRemove, SweepEnd, SweepFailed, SweepInfo
<1>4. SweepSound'
    <2>1. CASE SweepStart
        <3>1. sweep'.seen = 0 /\ sweep'.at = now
            BY <2>1 DEF SweepStart, Resting
        <3> QED BY <1>1, <3>1 DEF SweepSound
    <2>2. CASE SweepRemove
        <3>1. sweep' = [sweep EXCEPT !.doomed = NoId, !.seen = 0]
            BY <2>2 DEF SweepRemove
        <3>2. sweep'.seen = 0 /\ sweep'.at = sweep.at
            BY <1>1, <3>1
        <3> QED BY <1>1, <3>2 DEF SweepSound
    <2>3. CASE sweep' = Resting
        BY <1>1, <1>2, <2>3 DEF SweepSound
    <2>4. CASE \E id \in Ids : SweepInfo(id) /\ sweep' # Resting
        <3>1. PICK id \in Ids : SweepInfo(id) /\ sweep' # Resting
            BY <2>4
        <3>2. blob[id] \in Blobs
            BY <1>1, <3>1 DEF SweepInfo
        <3>3. blob[id].mtime \in Nat
            BY <3>2 DEF Blobs
        <3> DEFINE todo == sweep.todo \ {id}
                   seen == blob[id].mtime
        <3>4. \/ sweep' = [sweep EXCEPT !.todo = todo]
              \/ /\ ~ (seen > sweep.at)
                 /\ sweep' = [sweep EXCEPT !.todo = todo, !.doomed = id, !.seen = seen]
            BY <3>1 DEF SweepInfo
        <3> HIDE DEF todo, seen
        <3>5. /\ sweep'.at = sweep.at
              /\ sweep'.seen = sweep.seen \/ (sweep'.seen = seen /\ ~ (seen > sweep.at))
            BY <1>1, <3>4
        <3>6. sweep.at \in Nat /\ seen \in Nat
            BY <1>1, <3>3 DEF seen
        <3> QED BY <1>1, <3>5, <3>6 DEF SweepSound
    <2> QED BY <2>1, <2>2, <2>3, <2>4 DEF SweepEnd, SweepFailed
<1> QED BY <1>1, <1>3, <1>4, SweepLinks

LEMMA CrashEndsReads ==
    ASSUME FileInv, ServerCrash, NEW r \in Readers
    PROVE  reader'[r].pc = "idle"
<1>1. reader'[r] = IF reader[r].pc = "idle" THEN reader[r]
                   ELSE [NoRequest EXCEPT !.status = Outcome(reader[r])]
    BY DEF ServerCrash
<1>2. reader[r] \in ReadRequests
    BY DEF FileInv, TypeOK
<1> QED BY <1>1, <1>2, EndedType, OutcomeType

LEMMA LinkServerCrash ==
    ASSUME FileInv, FileInv', LinkInv, ServerCrash
    PROVE  LinkInv'
<1>1. UNCHANGED <<db, blob, now, drawn, taken>> /\ sweep' = Resting
    BY DEF ServerCrash
<1>2. ASSUME NEW s \in Saves
      PROVE  /\ up'[s].id = up[s].id
             /\ \/ up'[s] = up[s] /\ up[s].pc \in {"new", "ok", "error"}
                \/ up'[s].pc = "error"
    <2>1. up[s] \in UploadRequests
        BY DEF FileInv, TypeOK
    <2>2. up'[s] = IF up[s].pc \in {"new", "ok", "error"} THEN up[s]
                   ELSE Returned(up[s], "error")
        BY DEF ServerCrash
    <2> QED BY <2>1, <2>2, ReturnedType
<1>3. \A r \in Readers : reader'[r].pc = "idle"
    BY CrashEndsReads
<1>4. IdsOfTheirOwn'
    BY <1>1, <1>2 DEF LinkInv, IdsOfTheirOwn
<1>5. BlobsOwned'
    <2>1. \A id \in Ids : blob[id] # NoBlob => blob[id].save \in Saves
        BY NoBlobIsNone DEF FileInv, TypeOK
    <2> QED BY <1>1, <1>2, <2>1 DEF LinkInv, BlobsOwned
<1>6. OpenedSound' /\ LifetimeKept'
    BY <1>1, <1>2, <1>3 DEF LinkInv, OpenedSound, LifetimeKept
<1>7. SweepSound'
    BY <1>1 DEF SweepSound, Resting, FileInv, TypeOK
<1> QED BY <1>4, <1>5, <1>6, <1>7 DEF LinkInv

LEMMA LinkTick ==
    ASSUME FileInv, LinkInv, Tick
    PROVE  LinkInv'
<1>1. /\ now \in Nat /\ now' = now + 1
      /\ UNCHANGED <<db, blob, drawn, up, reader, dirty, sweep, taken>>
    BY DEF Tick, FileInv, TypeOK
<1>2. \A s \in Saves : /\ up[s].expires \in Nat /\ up[s].deadline \in Nat
                       /\ up[s].duration \in Nat
    BY LimitsAssumption DEF FileInv, TypeOK, UploadRequests
<1>3. IdsOfTheirOwn' /\ BlobsOwned' /\ OpenedSound'
    BY <1>1 DEF LinkInv, IdsOfTheirOwn, BlobsOwned, OpenedSound
<1>4. SweepSound'
    BY <1>1 DEF LinkInv, SweepSound, FileInv, TypeOK
<1>5. LifetimeKept'
    <2>1. ASSUME NEW s \in Saves
          PROVE  /\ up[s].expires <= now + up[s].duration => up[s].expires <= now' + up[s].duration
                 /\ now' <= up[s].deadline => now <= up[s].deadline
        BY <1>1, <1>2
    <2>2. ASSUME NEW r \in Readers, reader[r].pc = "set"
          PROVE  reader[r].cur.deadline <= now + reader[r].ttl =>
                     reader[r].cur.deadline <= now' + reader[r].ttl
        <3>1. reader[r] \in ReadRequests /\ reader[r].cur \in Records
            BY <2>2 DEF FileInv, TypeOK, ReadPhases
        <3>2. reader[r].cur.deadline \in Nat /\ reader[r].ttl \in Nat
            BY <3>1 DEF ReadRequests, Records
        <3> QED BY <1>1, <3>2
    <2> QED BY <1>1, <2>1, <2>2 DEF LinkInv, LifetimeKept
<1> QED BY <1>3, <1>4, <1>5 DEF LinkInv

LEMMA StepLink ==
    ASSUME IdsRepeat = FALSE, FileInv, FileInv', LinkInv, [Next]_vars
    PROVE  LinkInv'
<1>1. CASE UNCHANGED vars
    BY <1>1 DEF vars, LinkInv, IdsOfTheirOwn, BlobsOwned, OpenedSound, SweepSound, LifetimeKept
<1>2. CASE Next
    BY <1>2, NextCases, LinkUploadRequest, LinkUploadCreate, LinkUploadCopy, LinkUploadChtimes,
       LinkUploadSetNX, LinkUploadUndo, LinkUploadAnswer, LinkUploadFailed, LinkReadBegins,
       LinkReadOpen, LinkReadPTTL, LinkReadExec, LinkReadExecStale, LinkReadEnds, LinkSweep,
       LinkServerCrash, LinkTick
<1> QED BY <1>1, <1>2

(* LinkInv holds in every reachable state if no id is drawn twice.         *)
THEOREM LinkInvariant == ASSUME IdsRepeat = FALSE PROVE Spec => [](FileInv /\ LinkInv)
<1>1. Init => FileInv /\ LinkInv
    BY InitInv, InitLink
<1>2. FileInv /\ LinkInv /\ [Next]_vars => (FileInv /\ LinkInv)'
    BY StepInv, StepLink
<1> QED BY <1>1, <1>2, PTL DEF Spec

(* A download that took a view holds all the bytes of its file.            *)
THEOREM DownloadsHoldTheFile == ASSUME IdsRepeat = FALSE PROVE Spec => []DownloadsAreWhole
<1>1. LinkInv => DownloadsAreWhole
    BY DEF LinkInv, OpenedSound, DownloadsAreWhole
<1> QED BY <1>1, LinkInvariant, PTL

(* The record of a file stays as long as its blob is there.                *)
LEMMA RecordKept ==
    ASSUME FileInv, LinkInv, NEW s \in Saves
    PROVE  RecordStays(s)
<1> SUFFICES ASSUME Placed(s), up[s].pc # "setnx", blob[up[s].id].save = s
             PROVE  Live(up[s].id) /\ db[up[s].id].save = s
    BY DEF RecordStays
<1>1. PICK id \in Ids : id = up[s].id
    BY DEF Placed, FileInv, UploadPhases
<1>2. up[s].pc \in {"stored", "ok"} /\ 0 \notin taken[s] /\ now < up[s].expires
    BY DEF Placed
<1>3. now \in Nat /\ up[s].expires \in Nat /\ up[s].deadline \in Nat
    BY DEF FileInv, TypeOK, UploadRequests
<1>4. up[s].expires <= up[s].deadline
    BY <1>2 DEF LinkInv, LifetimeKept
<1>5. now <= up[s].deadline
    BY <1>2, <1>3, <1>4
<1>6. db[id].save = s /\ up[s].deadline <= db[id].deadline
    BY <1>1, <1>2, <1>5 DEF LinkInv, LifetimeKept
<1>7. db[id] # NoRecord
    BY <1>6, NoSaveAssumption DEF NoRecord
<1>8. db[id].deadline \in Nat
    BY <1>7 DEF FileInv, TypeOK, Records
<1> QED BY <1>1, <1>3, <1>5, <1>6, <1>7, <1>8 DEF Live

(* Nothing but such a sweep takes the blob away.                           *)
LEMMA BlobKept ==
    ASSUME FileInv, LinkInv, Next, NEW s \in Saves
    PROVE  BlobStays(s)
<1> SUFFICES ASSUME Placed(s), blob[up[s].id].save = s, blob'[up[s].id].save # s
             PROVE  sweep.doomed = up[s].id /\ sweep.seen < up[s].expires
    BY DEF BlobStays
<1>1. PICK id \in Ids : id = up[s].id
    BY DEF Placed, FileInv, UploadPhases
<1>2. /\ blob[id].save = s /\ blob'[id].save # s /\ blob[id] # NoBlob
      /\ blob \in [Ids -> Blobs \cup {NoBlob}] /\ up[s].pc \in {"setnx", "stored", "ok"}
    BY <1>1, NoSaveAssumption DEF NoBlob, FileInv, TypeOK, Placed
<1>3. blob' # blob
    BY <1>2
<1>4. \A t \in Saves : up[t].id = id => t = s
    BY <1>1, NoIdAssumption DEF LinkInv, IdsOfTheirOwn
<1>5. ASSUME NEW t \in Saves, NEW i \in Ids, UploadCreate(t, i)
      PROVE  FALSE
    <2>1. CASE blob[i] # NoBlob
        BY <1>3, <1>5, <2>1 DEF UploadCreate
    <2>2. CASE blob[i] = NoBlob
        BY <1>2, <1>5, <2>2 DEF UploadCreate
    <2> QED BY <2>1, <2>2
<1>6. ASSUME NEW t \in Saves, UploadCopy(t) \/ UploadChtimes(t)
      PROVE  FALSE
    <2>1. up[t].pc \in {"copy", "chtimes"} /\ up[t].id \in Ids
        BY <1>6 DEF UploadCopy, UploadChtimes, FileInv, UploadPhases
    <2>2. up[t].id # id
        BY <1>2, <1>4, <2>1
    <2> QED BY <1>2, <1>6, <2>1, <2>2 DEF UploadCopy, UploadChtimes
<1>7. ASSUME NEW t \in Saves, UploadUndo(t)
      PROVE  FALSE
    <2>1. up[t].pc \in {"redo", "undo"}
        BY <1>7 DEF UploadUndo
    <2>2. up[t].id # id
        BY <1>2, <1>4, <2>1
    <2> QED BY <1>2, <1>7, <2>2 DEF UploadUndo
<1>8. ASSUME NEW r \in Readers, ReadUnlink(r)
      PROVE  FALSE
    <2>1. PICK t \in Saves : t = reader[r].cur.save
        BY <1>8, NoRecordIsNone DEF ReadUnlink, FileInv, ReadPhases
    <2>2. up[t].id = reader[r].id /\ 0 \in taken[t]
        BY <1>8, <2>1 DEF ReadUnlink, FileInv, ReadPhases
    <2>3. reader[r].id # id
        BY <1>4, <2>2 DEF Placed
    <2> QED BY <1>2, <1>8, <2>3 DEF ReadUnlink
<1>9. CASE SweepRemove
    <2>1. sweep.doomed = id
        BY <1>2, <1>9 DEF SweepRemove
    <2>2. /\ sweep.seen \in Nat /\ sweep.at \in Nat /\ now \in Nat /\ up[s].expires \in Nat
          /\ sweep.seen <= sweep.at /\ sweep.at <= now /\ now < up[s].expires
        BY DEF FileInv, TypeOK, UploadRequests, LinkInv, SweepSound, Placed
    <2>3. sweep.seen < up[s].expires
        BY <2>2
    <2> QED BY <1>1, <2>1, <2>3
<1>10. ASSUME NEW t \in Saves
       PROVE  ~ UploadRequest(t) /\ ~ UploadSetNX(t) /\ ~ UploadAnswer(t) /\ ~ UploadFailed(t)
    BY <1>3 DEF UploadRequest, UploadSetNX, UploadAnswer, UploadFailed
<1>11. ASSUME NEW r \in Readers
       PROVE  /\ ~ ReadRequest(r) /\ ~ ReadWatch(r) /\ ~ ReadGet(r) /\ ~ ReadOpen(r)
              /\ ~ ReadPTTL(r) /\ ~ ReadExecSet(r) /\ ~ ReadExecDel(r) /\ ~ ReadExecStale(r)
              /\ ~ ReadRefused(r) /\ ~ ReadStream(r) /\ ~ ReadFailed(r)
    BY <1>3 DEF ReadRequest, ReadWatch, ReadGet, ReadOpen, ReadPTTL, ReadExecSet, ReadExecDel,
       TakeView, ReadExecStale, ReadRefused, ReadStream, ReadFailed
<1>12. /\ ~ SweepStart /\ ~ SweepEnd /\ ~ SweepFailed /\ ~ ServerCrash /\ ~ Tick
       /\ \A i \in Ids : ~ SweepInfo(i)
    BY <1>3 DEF SweepStart, SweepEnd, SweepFailed, SweepInfo, ServerCrash, Tick
<1> QED BY <1>5, <1>6, <1>7, <1>8, <1>9, <1>10, <1>11, <1>12, NextCases

(* If no id is drawn twice, a file keeps its blob from Chtimes on until    *)
(* its last view is taken or its deadline comes, but for a sweep that      *)
(* looked at the blob before Chtimes; and its record as long as the blob.  *)
THEOREM LinksKeepTheirFile == ASSUME IdsRepeat = FALSE PROVE Spec => LinkKeepsItsFile
<1> DEFINE Kept == \A s \in Saves : RecordStays(s)' /\ BlobStays(s)
<1>1. FileInv /\ LinkInv /\ [Next]_vars /\ FileInv' /\ LinkInv' => [Kept]_vars
    <2> SUFFICES ASSUME FileInv, LinkInv, Next, FileInv', LinkInv', NEW s \in Saves
                 PROVE  RecordStays(s)' /\ BlobStays(s)
        OBVIOUS
    <2>1. RecordStays(s)'
        BY RecordKept, PTL
    <2> QED BY <2>1, BlobKept
<1> HIDE DEF Kept
<1>2. Spec => [][Kept]_vars
    BY <1>1, LinkInvariant, PTL DEF Spec
<1> QED BY <1>2 DEF LinkKeepsItsFile, Kept
-------------------------------------------------------------------------------
(* What a request took, and what it was answered.                          *)
TookOnce ==
    \A r \in Readers :
        /\ reader[r].took = IF reader[r].pc \in {"committed", "unlink"} THEN 1 ELSE 0
        /\ reader[r].pc = "unlink" => reader[r].status \in {"ok", "error"}

(* A step of r: it takes a view by committing and in no other way, and     *)
(* says "ok" or "error" once it did.                                       *)
TruthKept(r) ==
    /\ reader'[r].took = IF reader'[r].pc \in {"committed", "unlink"} THEN 1 ELSE 0
    /\ reader'[r].pc = "unlink" => reader'[r].status \in {"ok", "error"}
    /\ reader[r].pc \in {"committed", "unlink"} /\ reader'[r].pc = "idle"
          => reader'[r].status \in {"ok", "error"}

LEMMA EndedTruth ==
    ASSUME FileInv, NEW r \in Readers, NEW status \in Statuses,
           reader'[r] = [NoRequest EXCEPT !.status = status],
           reader[r].pc \in {"committed", "unlink"} => status \in {"ok", "error"}
    PROVE  TruthKept(r)
BY EndedType DEF TruthKept

(* A step before the commit that neither answers nor commits.              *)
LEMMA MovesTruth ==
    ASSUME TookOnce, NEW r \in Readers, reader[r].pc \notin {"committed", "unlink"},
           reader'[r].pc \notin {"committed", "unlink"}, reader'[r].took = reader[r].took
    PROVE  TruthKept(r)
BY DEF TookOnce, TruthKept

LEMMA ReadBeginsTruth ==
    ASSUME FileInv, TookOnce, NEW r \in Readers,
           \/ ReadRequest(r) \/ ReadWatch(r) \/ ReadGet(r) \/ ReadOpen(r) \/ ReadPTTL(r)
           \/ ReadRefused(r) \/ ReadExecStale(r)
    PROVE  TruthKept(r)
<1>1. /\ reader \in [Readers -> ReadRequests] /\ reader[r] \in ReadRequests
      /\ reader[r].pc \notin {"committed", "unlink"}
    BY DEF FileInv, TypeOK, ReadRequest, ReadWatch, ReadGet, ReadOpen, ReadPTTL, ReadRefused,
       ReadExecStale
<1>2. CASE \E status \in Statuses : reader' = [reader EXCEPT ![r] = [NoRequest EXCEPT !.status = status]]
    <2>1. PICK status \in Statuses : reader'[r] = [NoRequest EXCEPT !.status = status]
        BY <1>1, <1>2
    <2> QED BY <1>1, <2>1, EndedTruth
<1>3. CASE ReadRequest(r)
    <2>1. PICK id \in Ids, key \in PresentedKeys :
             reader'[r] = [NoRequest EXCEPT !.pc = "watch", !.id = id, !.key = key, !.start = now]
        BY <1>1, <1>3 DEF ReadRequest
    <2>2. reader'[r].pc = "watch" /\ reader'[r].took = 0
        BY <2>1 DEF NoRequest
    <2> QED BY <1>1, <2>2 DEF TruthKept
<1>4. CASE ReadWatch(r)
    <2>1. reader'[r] = [reader[r] EXCEPT !.pc = "get"]
        BY <1>1, <1>4 DEF ReadWatch
    <2>2. reader'[r].pc = "get" /\ reader'[r].took = reader[r].took
        BY <1>1, <2>1 DEF ReadRequests
    <2> QED BY <1>1, <2>2, MovesTruth
<1>5. CASE ReadGet(r) /\ ~ Ended(r)
    <2>1. reader'[r] = [reader[r] EXCEPT !.cur = db[reader[r].id], !.pc = "open"]
        BY <1>1, <1>5, GetCases
    <2>2. reader'[r].pc = "open" /\ reader'[r].took = reader[r].took
        BY <1>1, <2>1 DEF ReadRequests
    <2> QED BY <1>1, <2>2, MovesTruth
<1>6. CASE ReadOpen(r)
    <2> DEFINE pc == IF blob[reader[r].id] = NoBlob THEN "stale"
                     ELSE IF reader[r].cur.views > 1 THEN "pttl" ELSE "del"
    <2>1. reader'[r] = [reader[r] EXCEPT !.fd = blob[reader[r].id], !.pc = pc]
        BY <1>1, <1>6 DEF ReadOpen
    <2>2. pc \in {"stale", "pttl", "del"}
        OBVIOUS
    <2> HIDE DEF pc
    <2>3. reader'[r].pc = pc /\ reader'[r].took = reader[r].took
        BY <1>1, <2>1 DEF ReadRequests
    <2> QED BY <1>1, <2>2, <2>3, MovesTruth
<1>7. CASE ReadPTTL(r)
    <2> DEFINE id == reader[r].id
               ttl == IF Live(id) THEN db[id].deadline - now ELSE -2
               rest == IF ttl > 0 THEN ttl ELSE 0
               pc == IF ttl > 0 THEN "set" ELSE "del"
    <2>1. reader'[r] = [reader[r] EXCEPT !.ttl = rest, !.pc = pc]
        BY <1>1, <1>7 DEF ReadPTTL
    <2>2. pc \in {"set", "del"}
        OBVIOUS
    <2> HIDE DEF pc, rest
    <2>3. reader'[r].pc = pc /\ reader'[r].took = reader[r].took
        BY <1>1, <2>1 DEF ReadRequests
    <2> QED BY <1>1, <2>2, <2>3, MovesTruth
<1>8. CASE ReadRefused(r) /\ ~ Ended(r)
    <2>1. reader'[r] = [reader[r] EXCEPT !.pc = "watch", !.cur = NoRecord, !.fd = NoBlob, !.ttl = 0]
        <3>1. reader' = [reader EXCEPT ![r].pc = "watch", ![r].cur = NoRecord,
                                       ![r].fd = NoBlob, ![r].ttl = 0]
            BY <1>8, RefusedCases
        <3> QED BY <1>1, <3>1
    <2>2. reader'[r].pc = "watch" /\ reader'[r].took = reader[r].took
        BY <1>1, <2>1 DEF ReadRequests
    <2> QED BY <1>1, <2>2, MovesTruth
<1>9. CASE ReadExecStale(r)
    BY <1>2, <1>9 DEF ReadExecStale, Statuses
<1> QED BY <1>2, <1>3, <1>4, <1>5, <1>6, <1>7, <1>8, <1>9 DEF Ended

LEMMA ReadEndsTruth ==
    ASSUME FileInv, TookOnce, NEW r \in Readers,
           \/ ReadExecSet(r) \/ ReadExecDel(r)
           \/ ReadStream(r) \/ ReadUnlink(r) \/ ReadFailed(r)
    PROVE  TruthKept(r)
<1>1. reader \in [Readers -> ReadRequests] /\ reader[r] \in ReadRequests
    BY DEF FileInv, TypeOK
<1>2. CASE ReadExecSet(r) \/ ReadExecDel(r)
    <2>1. PICK view : reader' = [reader EXCEPT ![r].pc = "committed", ![r].view = view,
                                 ![r].key = Empty, ![r].ttl = 0, ![r].start = 0, ![r].took = @ + 1]
        BY <1>2 DEF ReadExecSet, ReadExecDel, TakeView
    <2>2. reader'[r] = [reader[r] EXCEPT !.pc = "committed", !.view = view, !.key = Empty,
                                         !.ttl = 0, !.start = 0, !.took = @ + 1]
        BY <1>1, <2>1
    <2>3. reader'[r].pc = "committed" /\ reader'[r].took = reader[r].took + 1
        BY <1>1, <2>2 DEF ReadRequests
    <2>4. reader[r].took = 0 /\ reader[r].pc \notin {"committed", "unlink"}
        BY <1>2 DEF ReadExecSet, ReadExecDel, TookOnce
    <2> QED BY <2>3, <2>4 DEF TruthKept
<1>3. CASE ReadStream(r)
    <2>1. PICK status \in {"ok", "error"} : StreamEnds(r, status)
        BY <1>3 DEF ReadStream, StreamStatus
    <2>2. CASE reader[r].view = 0
        <3>1. reader'[r] = [reader[r] EXCEPT !.pc = "unlink", !.status = status]
            BY <1>1, <2>1, <2>2 DEF StreamEnds
        <3>2. /\ reader'[r].pc = "unlink" /\ reader'[r].status = status
              /\ reader'[r].took = reader[r].took
            BY <1>1, <3>1 DEF ReadRequests
        <3>3. reader[r].pc = "committed"
            BY <1>3 DEF ReadStream
        <3> QED BY <3>2, <3>3 DEF TookOnce, TruthKept
    <2>3. CASE reader[r].view # 0
        <3>1. reader'[r] = [NoRequest EXCEPT !.status = status]
            BY <1>1, <2>1, <2>3 DEF StreamEnds, Answered
        <3> QED BY <3>1, EndedTruth DEF Statuses
    <2> QED BY <2>2, <2>3
<1>4. CASE ReadUnlink(r) \/ ReadFailed(r)
    <2>1. reader'[r] = [NoRequest EXCEPT !.status = Outcome(reader[r])]
        BY <1>1, <1>4 DEF ReadUnlink, ReadFailed, Answered, Outcome
    <2>2. Outcome(reader[r]) \in {"ok", "error"}
        BY DEF Outcome, TookOnce
    <2> HIDE DEF Outcome
    <2> QED BY <2>1, <2>2, EndedTruth DEF Statuses
<1> QED BY <1>2, <1>3, <1>4

LEMMA StepTruth ==
    ASSUME FileInv, TookOnce, Next, NEW r \in Readers
    PROVE  TruthKept(r)
<1>1. reader \in [Readers -> ReadRequests]
    BY DEF FileInv, TypeOK
<1>2. CASE reader'[r] = reader[r]
    BY <1>2 DEF TookOnce, TruthKept
<1>3. ASSUME NEW q \in Readers,
             \/ ReadRequest(q) \/ ReadWatch(q) \/ ReadGet(q) \/ ReadOpen(q) \/ ReadPTTL(q)
             \/ ReadRefused(q) \/ ReadExecStale(q) \/ ReadExecSet(q) \/ ReadExecDel(q)
             \/ ReadStream(q) \/ ReadUnlink(q) \/ ReadFailed(q)
      PROVE  TruthKept(r)
    <2>1. CASE q = r
        BY <1>3, <2>1, ReadBeginsTruth, ReadEndsTruth
    <2>2. CASE q # r
        <3>1. reader'[r] = reader[r]
            BY <1>1, <1>3, <2>2 DEF ReadRequest, ReadWatch, ReadGet, ReadOpen, ReadPTTL, ReadRefused,
               ReadExecStale, ReadExecSet, ReadExecDel, TakeView, ReadStream, StreamEnds,
               ReadUnlink, ReadFailed, Answered
        <3> QED BY <1>2, <3>1
    <2> QED BY <2>1, <2>2
<1>4. CASE ServerCrash
    <2>1. CASE reader[r].pc = "idle"
        BY <1>2, <1>4, <2>1 DEF ServerCrash
    <2>2. CASE reader[r].pc # "idle"
        <3>1. reader'[r] = [NoRequest EXCEPT !.status = Outcome(reader[r])]
            BY <1>4, <2>2 DEF ServerCrash
        <3>2. Outcome(reader[r]) \in {"ok", "error"}
            BY DEF Outcome, TookOnce
        <3> HIDE DEF Outcome
        <3> QED BY <3>1, <3>2, EndedTruth DEF Statuses
    <2> QED BY <2>1, <2>2
<1>5. ASSUME NEW s \in Saves,
             \/ UploadRequest(s) \/ (\E id \in Ids : UploadCreate(s, id)) \/ UploadCopy(s)
             \/ UploadChtimes(s) \/ UploadSetNX(s) \/ UploadUndo(s) \/ UploadAnswer(s)
             \/ UploadFailed(s)
      PROVE  TruthKept(r)
    BY <1>2, <1>5 DEF UploadRequest, UploadCreate, UploadCopy, UploadChtimes, UploadSetNX,
       UploadUndo, UploadAnswer, UploadFailed, uploadOnly
<1>6. CASE SweepStart \/ SweepRemove \/ SweepEnd \/ SweepFailed \/ Tick
           \/ (\E id \in Ids : SweepInfo(id))
    BY <1>2, <1>6 DEF SweepStart, SweepRemove, SweepEnd, SweepFailed, SweepInfo, Tick, sweepOnly
<1> QED BY <1>3, <1>4, <1>5, <1>6, NextCases

(* "retry", "no message" and "wrong key" prove that the request took no    *)
(* view, and no request takes two, whatever is refused, fails or crashes.  *)
THEOREM FileAnswersAreTrue == Spec => AnswersTellTheTruth
<1> DEFINE Truth ==
        \A r \in Readers :
            /\ reader'[r].took <= 1
            /\ reader[r].pc # "idle" /\ reader'[r].pc = "idle"
               /\ reader'[r].status \in {"retry", "no message", "wrong key"}
                  => reader[r].took = 0
<1>1. Init => TookOnce
    BY DEF Init, NoRequest, TookOnce
<1>2. FileInv /\ TookOnce /\ [Next]_vars => TookOnce' /\ [Truth]_vars
    <2> SUFFICES ASSUME FileInv, TookOnce, [Next]_vars PROVE TookOnce' /\ [Truth]_vars
        OBVIOUS
    <2>1. CASE UNCHANGED vars
        BY <2>1 DEF vars, TookOnce
    <2>2. CASE Next
        <3>1. \A r \in Readers : TruthKept(r)
            BY <2>2, StepTruth
        <3>2. TookOnce'
            BY <3>1 DEF TookOnce, TruthKept
        <3>3. ASSUME NEW r \in Readers
              PROVE  /\ reader'[r].took <= 1
                     /\ reader[r].pc # "idle" /\ reader'[r].pc = "idle"
                        /\ reader'[r].status \in {"retry", "no message", "wrong key"}
                           => reader[r].took = 0
            <4>1. reader'[r].took = 0 \/ reader'[r].took = 1
                BY <3>1 DEF TruthKept
            <4>2. reader[r].pc \notin {"committed", "unlink"} => reader[r].took = 0
                BY DEF TookOnce
            <4>3. reader[r].pc \in {"committed", "unlink"} /\ reader'[r].pc = "idle"
                     => reader'[r].status \in {"ok", "error"}
                BY <3>1 DEF TruthKept
            <4>4. reader'[r].took <= 1
                BY <4>1
            <4>5. ASSUME reader'[r].pc = "idle",
                         reader'[r].status \in {"retry", "no message", "wrong key"}
                  PROVE  reader[r].took = 0
                <5>1. reader[r].pc \notin {"committed", "unlink"}
                    BY <4>3, <4>5
                <5> QED BY <4>2, <5>1
            <4> QED BY <4>4, <4>5
        <3>4. Truth
            BY <3>3
        <3> QED BY <3>2, <3>4
    <2> QED BY <2>1, <2>2
<1> HIDE DEF Truth
<1>3. Spec => [][Truth]_vars
    BY <1>1, <1>2, FileInvariant, PTL DEF Spec
<1> QED BY <1>3 DEF AnswersTellTheTruth, Truth
-------------------------------------------------------------------------------
(* The state of the promise that a state of the store stands for.          *)
Readable(s) == up[s].id \in Ids /\ Live(up[s].id) /\ db[up[s].id].save = s

Left == [s \in Saves |-> IF Readable(s) THEN ViewsOf(db[up[s].id].views) ELSE 0]

Created == {s \in Saves : up[s].deadline # 0}

Held(q) ==
    IF q.pc = "committed" THEN [secret |-> q.cur.save, view |-> q.view]
    ELSE [secret |-> NoSave, view |-> 0]

Holding == [r \in Readers |-> Held(reader[r])]

(* The refinement mapping of the store is made of these.                   *)
LEMMA MappedInit ==
    ASSUME Left = [s \in Saves |-> 0], Created = {}, delivered = [s \in Saves |-> {}],
           Holding = [r \in Readers |-> [secret |-> NoSave, view |-> 0]]
    PROVE  Abstract!Init
BY DEF Abstract!Init, Abstract!NoView, Left, Created, Holding, Held, Readable, RecordOf, NoSave

LEMMA MappedStutter ==
    ASSUME UNCHANGED <<Left, Created, Holding, delivered>>
    PROVE  UNCHANGED Abstract!vars
BY DEF Abstract!vars, Left, Created, Holding, Held, Readable, RecordOf

LEMMA MappedCreate ==
    ASSUME NEW s \in Saves, NEW n \in 1 .. MaxViews, s \notin Created,
           Left' = [Left EXCEPT ![s] = n], Created' = Created \cup {s},
           UNCHANGED <<Holding, delivered>>
    PROVE  Abstract!Next
BY DEF Abstract!Next, Abstract!Create, Left, Created, Holding, Held, Readable, RecordOf

LEMMA MappedTake ==
    ASSUME NEW r \in Readers, NEW s \in Saves, NEW v, v = Left[s] - 1 \/ v = 0,
           Left[s] > 0, Holding[r] = [secret |-> NoSave, view |-> 0],
           Left' = [Left EXCEPT ![s] = v],
           Holding' = [Holding EXCEPT ![r] = [secret |-> s, view |-> v]],
           UNCHANGED <<Created, delivered>>
    PROVE  Abstract!Next
<1>1. Abstract!Take(r, s)
    BY ZenonT(60) DEF Abstract!Take, Abstract!NoView, Abstract!View, Left, Created, Holding, Held, Readable,
       RecordOf, NoSave
<1> QED BY <1>1 DEF Abstract!Next

LEMMA MappedDeliver ==
    ASSUME NEW r \in Readers, NEW s \in Saves, NEW v,
           Holding[r] = [secret |-> s, view |-> v], v \notin delivered[s],
           delivered' = [delivered EXCEPT ![s] = @ \cup {v}],
           Holding' = [Holding EXCEPT ![r] = [secret |-> NoSave, view |-> 0]],
           UNCHANGED <<Left, Created>>
    PROVE  Abstract!Next
<1>1. Abstract!Deliver(r, s)
    BY ZenonT(60), NoSaveAssumption DEF Abstract!Deliver, Abstract!NoView, Abstract!View, Left, Created,
       Holding, Held, Readable, RecordOf, NoSave
<1> QED BY <1>1 DEF Abstract!Next

LEMMA MappedLose ==
    ASSUME NEW failed \in SUBSET Readers,
           Holding' = [r \in Readers |-> IF r \in failed THEN [secret |-> NoSave, view |-> 0]
                                         ELSE Holding[r]],
           UNCHANGED <<Left, Created, delivered>>
    PROVE  Abstract!Next
<1>1. Abstract!Lose
    BY DEF Abstract!Lose, Abstract!NoView, Abstract!View, Left, Created, Holding, Held, Readable,
       RecordOf, NoSave
<1> QED BY <1>1 DEF Abstract!Next

LEMMA MappedExpire ==
    ASSUME NEW over \in SUBSET Saves,
           Left' = [s \in Saves |-> IF s \in over THEN 0 ELSE Left[s]],
           UNCHANGED <<Created, Holding, delivered>>
    PROVE  Abstract!Next
<1>1. Abstract!Expire
    BY DEF Abstract!Expire, Left, Created, Holding, Held, Readable, RecordOf
<1> QED BY <1>1 DEF Abstract!Next
-------------------------------------------------------------------------------
(* What the mapped state is made of, one file and one reader at a time.    *)
LEMMA UnsavedUnreadable ==
    ASSUME FileInv, NEW s \in Saves, up[s].pc \in Unsaved
    PROVE  ~ Readable(s)
BY DEF Readable, Live, FileInv, RecordsOwned

(* An upload keeps the id it stored its record under, and its deadline.    *)
IDKept(s) ==
    /\ up'[s].deadline = up[s].deadline
    /\ \/ up'[s].id = up[s].id
       \/ up[s].pc \in Unsaved /\ (up'[s].pc \in Unsaved \/ up'[s].id = NoId)

LEMMA KeptMapped ==
    ASSUME FileInv, FileInv', UNCHANGED <<db, now>>, \A s \in Saves : IDKept(s)
    PROVE  Left' = Left /\ Created' = Created
<1>1. ASSUME NEW s \in Saves
      PROVE  /\ Readable(s)' <=> Readable(s)
             /\ Readable(s) => up'[s].id = up[s].id
    <2>1. CASE up'[s].id = up[s].id
        BY <2>1 DEF Readable, Live
    <2>2. CASE up[s].pc \in Unsaved /\ (up'[s].pc \in Unsaved \/ up'[s].id = NoId)
        <3>1. ~ Readable(s)
            BY <2>2, UnsavedUnreadable
        <3>2. ~ Readable(s)'
            BY <2>2, NoIdAssumption DEF Readable, Live, FileInv, RecordsOwned
        <3> QED BY <3>1, <3>2
    <2> QED BY <2>1, <2>2 DEF IDKept
<1>2. Left' = Left
    BY <1>1 DEF Left
<1>3. Created' = Created
    BY DEF IDKept, Created
<1> QED BY <1>2, <1>3

(* The steps of an upload but for the SETNX that stores its record.        *)
LEMMA UploadKeepsID ==
    ASSUME FileInv, FileInv', NEW s \in Saves, NEW t \in Saves,
           \/ UploadRequest(s) \/ UploadCopy(s) \/ UploadChtimes(s) \/ UploadUndo(s)
           \/ UploadAnswer(s) \/ UploadFailed(s)
           \/ \E id \in Ids : UploadCreate(s, id)
           \/ UploadSetNX(s) /\ Live(up[s].id)
    PROVE  IDKept(t)
<1>1. /\ up \in [Saves -> UploadRequests] /\ up[s] \in UploadRequests
      /\ up' \in [Saves -> UploadRequests]
    BY DEF FileInv, TypeOK
<1>2. up[s].pc \in Unsaved => up[s].deadline = 0
    BY DEF FileInv, UploadPhases
<1>3. ASSUME NEW new \in UploadRequests, up' = [up EXCEPT ![s] = new],
             new.deadline = up[s].deadline,
             \/ new.id = up[s].id
             \/ up[s].pc \in Unsaved /\ (new.pc \in Unsaved \/ new.id = NoId)
      PROVE  IDKept(t)
    <2>1. up'[s] = new /\ (t # s => up'[t] = up[t])
        BY <1>1, <1>3
    <2> QED BY <1>3, <2>1 DEF IDKept
<1>4. ASSUME NEW pc \in {"chtimes", "setnx", "undo", "redo"},
             up' = [up EXCEPT ![s].pc = pc]
      PROVE  IDKept(t)
    <2> DEFINE new == [up[s] EXCEPT !.pc = pc]
    <2>1. new \in UploadRequests /\ new.id = up[s].id /\ new.deadline = up[s].deadline
        BY <1>1 DEF UploadRequests
    <2>2. up' = [up EXCEPT ![s] = new]
        BY <1>4
    <2> HIDE DEF new
    <2> QED BY <1>3, <2>1, <2>2
<1>5. ASSUME NEW pc \in {"ok", "error"}, up' = [up EXCEPT ![s] = Returned(up[s], pc)]
      PROVE  IDKept(t)
    BY <1>1, <1>3, <1>5, ReturnedType
<1>6. ASSUME up' = [up EXCEPT ![s] = AnotherId(up[s])], up[s].pc \in Unsaved \ {"new"}
      PROVE  IDKept(t)
    <2>1. up[s].attempts < MaxStorageIDAttempts
        BY <1>6 DEF FileInv, UploadPhases
    <2> QED BY <1>1, <1>3, <1>6, <2>1, AnotherIdType
<1>7. CASE UploadRequest(s)
    <2>1. PICK form \in SaveForms(s), views \in RequestViews, duration \in RequestDurations :
            up' = [up EXCEPT ![s] =
                      IF SchemeAccepted(form)
                      THEN [NewUpload EXCEPT !.pc = "create",
                                             !.key = SchemeStored(form),
                                             !.version = form.v,
                                             !.views = ClampViews(views),
                                             !.duration = ClampDuration(duration)]
                      ELSE [NewUpload EXCEPT !.pc = "error"]]
        BY <1>7 DEF UploadRequest
    <2> DEFINE new == up'[s]
    <2>2. new = IF SchemeAccepted(form)
                THEN [NewUpload EXCEPT !.pc = "create",
                                       !.key = SchemeStored(form),
                                       !.version = form.v,
                                       !.views = ClampViews(views),
                                       !.duration = ClampDuration(duration)]
                ELSE [NewUpload EXCEPT !.pc = "error"]
        BY <1>1, <2>1
    <2>3. new.id = NoId /\ new.deadline = 0
        BY <2>2, NewUploadType DEF UploadRequests
    <2>4. up[s].pc = "new" /\ up' = [up EXCEPT ![s] = new] /\ new \in UploadRequests
        BY <1>1, <1>7, <2>1 DEF UploadRequest
    <2> HIDE DEF new
    <2> QED BY <1>2, <1>3, <2>3, <2>4 DEF Unsaved
<1>8. CASE \E id \in Ids : UploadCreate(s, id)
    <2>1. PICK id \in Ids : UploadCreate(s, id)
        BY <1>8
    <2>2. CASE blob[id] # NoBlob
        BY <1>6, <2>1, <2>2 DEF UploadCreate, Unsaved
    <2>3. CASE blob[id] = NoBlob
        <3> DEFINE new == up'[s]
                   expires == now + up[s].duration
        <3>1. new = [up[s] EXCEPT !.pc = "copy", !.id = id, !.expires = expires]
            BY <1>1, <2>1, <2>3 DEF UploadCreate
        <3>2. new.pc = "copy" /\ new.deadline = up[s].deadline
            BY <1>1, <3>1 DEF UploadRequests
        <3>3. up[s].pc = "create" /\ up' = [up EXCEPT ![s] = new] /\ new \in UploadRequests
            BY <1>1, <2>1, <2>3 DEF UploadCreate
        <3> HIDE DEF new
        <3> QED BY <1>3, <3>2, <3>3 DEF Unsaved
    <2> QED BY <2>2, <2>3
<1>9. CASE UploadCopy(s)
    BY <1>4, <1>9 DEF UploadCopy
<1>10. CASE UploadChtimes(s)
    BY <1>4, <1>10 DEF UploadChtimes
<1>11. CASE UploadSetNX(s) /\ Live(up[s].id)
    BY <1>4, <1>11 DEF UploadSetNX
<1>12. CASE UploadUndo(s)
    <2>1. CASE up[s].pc = "redo"
        BY <1>6, <1>12, <2>1 DEF UploadUndo, Unsaved
    <2>2. CASE up[s].pc # "redo"
        BY <1>5, <1>12, <2>2 DEF UploadUndo
    <2> QED BY <2>1, <2>2
<1>13. CASE UploadAnswer(s)
    BY <1>5, <1>13 DEF UploadAnswer
<1>14. CASE UploadFailed(s)
    <2>1. CASE up[s].pc = "create"
        BY <1>5, <1>14, <2>1 DEF UploadFailed
    <2>2. CASE up[s].pc # "create"
        BY <1>1, <1>4, <1>14, <2>2 DEF UploadFailed
    <2> QED BY <2>1, <2>2
<1> QED BY <1>7, <1>8, <1>9, <1>10, <1>11, <1>12, <1>13, <1>14

(* A step that leaves the records and the delivered views alone at most    *)
(* loses views.                                                            *)
LEMMA StepLose ==
    ASSUME FileInv, FileInv', UNCHANGED <<db, now, delivered>>, \A s \in Saves : IDKept(s),
           \A r \in Readers : reader'[r] = reader[r] \/ reader'[r].pc # "committed"
    PROVE  Abstract!Next
<1> DEFINE failed == {r \in Readers : reader'[r].pc # "committed"}
<1>1. Left' = Left /\ Created' = Created
    BY KeptMapped
<1>2. ASSUME NEW r \in Readers
      PROVE  Held(reader'[r]) = IF r \in failed THEN [secret |-> NoSave, view |-> 0]
                                ELSE Held(reader[r])
    BY DEF Held
<1>3. Holding' = [r \in Readers |-> IF r \in failed THEN [secret |-> NoSave, view |-> 0]
                                    ELSE Holding[r]]
    BY <1>2 DEF Holding
<1> HIDE DEF failed
<1>4. failed \in SUBSET Readers
    BY DEF failed
<1> QED BY <1>1, <1>3, <1>4, MappedLose

(* A step after which fewer records can be read.                           *)
LEMMA StepExpire ==
    ASSUME FileInv, UNCHANGED <<up, delivered, Holding>>,
           \A s \in Saves : Readable(s)' => Readable(s) /\ db'[up[s].id] = db[up[s].id]
    PROVE  Abstract!Next
<1> DEFINE over == {s \in Saves : ~ Readable(s)'}
<1>1. Left' = [s \in Saves |-> IF s \in over THEN 0 ELSE Left[s]]
    BY DEF Left
<1>2. UNCHANGED <<Created, Holding, delivered>>
    BY DEF Created
<1> HIDE DEF over
<1>3. over \in SUBSET Saves
    BY DEF over
<1> QED BY <1>1, <1>2, <1>3, MappedExpire

(* Each upload step but the storing SETNX, and each crash.                 *)
LEMMA StepUploadMaps ==
    ASSUME FileInv, FileInv', NEW s \in Saves,
           \/ UploadRequest(s) \/ UploadCopy(s) \/ UploadChtimes(s) \/ UploadUndo(s)
           \/ UploadAnswer(s) \/ UploadFailed(s)
           \/ \E id \in Ids : UploadCreate(s, id)
           \/ UploadSetNX(s) /\ Live(up[s].id)
    PROVE  Abstract!Next
<1>1. \A t \in Saves : IDKept(t)
    BY UploadKeepsID
<1>2. UNCHANGED <<db, now, delivered, reader>>
    BY DEF UploadRequest, UploadCopy, UploadChtimes, UploadUndo, UploadAnswer, UploadFailed,
       UploadCreate, UploadSetNX, uploadOnly
<1> QED BY <1>1, <1>2, StepLose

LEMMA StepCrashMaps ==
    ASSUME FileInv, FileInv', ServerCrash
    PROVE  Abstract!Next
<1>1. \A s \in Saves : IDKept(s)
    <2> TAKE s \in Saves
    <2>1. up[s] \in UploadRequests
        BY DEF FileInv, TypeOK
    <2>2. up'[s] = IF up[s].pc \in {"new", "ok", "error"} THEN up[s]
                   ELSE Returned(up[s], "error")
        BY DEF ServerCrash
    <2> QED BY <2>1, <2>2, ReturnedType DEF IDKept
<1>2. \A r \in Readers : reader'[r].pc = "idle"
    BY CrashEndsReads
<1>3. UNCHANGED <<db, now, delivered>>
    BY DEF ServerCrash
<1> QED BY <1>1, <1>2, <1>3, StepLose

(* The downloads up to the commit, and those that break off.               *)
LEMMA StepReadMaps ==
    ASSUME FileInv, FileInv', NEW r \in Readers, UNCHANGED delivered,
           \/ ReadRequest(r) \/ ReadWatch(r) \/ ReadGet(r) \/ ReadOpen(r) \/ ReadPTTL(r)
           \/ ReadRefused(r) \/ ReadStream(r) \/ ReadUnlink(r) \/ ReadFailed(r)
    PROVE  Abstract!Next
<1>1. UNCHANGED <<db, now, up>>
    BY DEF ReadRequest, ReadWatch, ReadGet, ReadOpen, ReadPTTL, ReadRefused, ReadStream,
       ReadUnlink, ReadFailed, readOnly
<1>2. \A s \in Saves : IDKept(s)
    BY <1>1 DEF IDKept
<1>3. reader \in [Readers -> ReadRequests] /\ reader[r] \in ReadRequests
    BY DEF FileInv, TypeOK
<1>4. \A q \in Readers \ {r} : reader'[q] = reader[q]
    BY <1>3 DEF ReadRequest, ReadWatch, ReadGet, ReadOpen, ReadPTTL, ReadRefused, ReadStream,
       StreamEnds, ReadUnlink, ReadFailed, Answered
<1>5. reader'[r].pc # "committed"
    <2>1. CASE Ended(r)
        BY <1>3, <2>1, EndedType DEF Ended
    <2>2. CASE ReadRequest(r)
        <3>1. PICK id \in Ids, key \in PresentedKeys :
                reader' = [reader EXCEPT ![r] =
                    [NoRequest EXCEPT !.pc = "watch", !.id = id, !.key = key, !.start = now]]
            BY <2>2 DEF ReadRequest
        <3>2. reader'[r] = [NoRequest EXCEPT !.pc = "watch", !.id = id, !.key = key, !.start = now]
            BY <1>3, <3>1
        <3> QED BY <3>2, NoRequestType DEF ReadRequests
    <2>3. CASE ReadWatch(r)
        <3>1. reader'[r] = [reader[r] EXCEPT !.pc = "get"]
            BY <1>3, <2>3 DEF ReadWatch
        <3> QED BY <1>3, <3>1 DEF ReadRequests
    <2>4. CASE ReadGet(r) /\ ~ Ended(r)
        <3>1. reader'[r] = [reader[r] EXCEPT !.cur = db[reader[r].id], !.pc = "open"]
            <4>1. reader' = [reader EXCEPT ![r].cur = db[reader[r].id], ![r].pc = "open"]
                BY <2>4, GetCases
            <4> QED BY <1>3, <4>1
        <3> QED BY <1>3, <3>1 DEF ReadRequests
    <2>5. CASE ReadOpen(r)
        <3> DEFINE pc == IF blob[reader[r].id] = NoBlob THEN "stale"
                         ELSE IF reader[r].cur.views > 1 THEN "pttl" ELSE "del"
        <3>1. reader'[r] = [reader[r] EXCEPT !.fd = blob[reader[r].id], !.pc = pc]
            BY <1>3, <2>5 DEF ReadOpen
        <3>2. pc # "committed"
            OBVIOUS
        <3> HIDE DEF pc
        <3> QED BY <1>3, <3>1, <3>2 DEF ReadRequests
    <2>6. CASE ReadPTTL(r)
        <3> DEFINE id == reader[r].id
                   ttl == IF Live(id) THEN db[id].deadline - now ELSE -2
                   rest == IF ttl > 0 THEN ttl ELSE 0
                   pc == IF ttl > 0 THEN "set" ELSE "del"
        <3>1. reader'[r] = [reader[r] EXCEPT !.ttl = rest, !.pc = pc]
            BY <1>3, <2>6 DEF ReadPTTL
        <3>2. pc # "committed"
            OBVIOUS
        <3> HIDE DEF pc, rest
        <3> QED BY <1>3, <3>1, <3>2 DEF ReadRequests
    <2>7. CASE ReadRefused(r) /\ ~ Ended(r)
        <3>1. reader'[r] = [reader[r] EXCEPT !.pc = "watch", !.cur = NoRecord, !.fd = NoBlob,
                                             !.ttl = 0]
            <4>1. reader' = [reader EXCEPT ![r].pc = "watch", ![r].cur = NoRecord,
                                           ![r].fd = NoBlob, ![r].ttl = 0]
                BY <2>7, RefusedCases
            <4> QED BY <1>3, <4>1
        <3> QED BY <1>3, <3>1 DEF ReadRequests
    <2>8. CASE /\ reader[r].view = 0 /\ dirty' = dirty
               /\ \E status \in Statuses :
                     reader' = [reader EXCEPT ![r].pc = "unlink", ![r].status = status]
        <3>1. PICK status \in Statuses :
                 reader'[r] = [reader[r] EXCEPT !.pc = "unlink", !.status = status]
            BY <1>3, <2>8
        <3> QED BY <1>3, <3>1 DEF ReadRequests
    <2> QED BY <1>3, <2>1, <2>2, <2>3, <2>4, <2>5, <2>6, <2>7, <2>8, StreamCases, EndCases
<1> QED BY <1>1, <1>2, <1>4, <1>5, StepLose

(* SETNX creates the secret with all its views.                            *)
LEMMA StepCreate ==
    ASSUME FileInv, NEW s \in Saves, UploadSetNX(s), ~ Live(up[s].id)
    PROVE  Abstract!Next
<1> DEFINE deadline == now + up[s].duration
           rec == [save |-> s, key |-> up[s].key, version |-> up[s].version,
                   views |-> StoredViews(up[s].views), deadline |-> deadline]
           new == [up[s] EXCEPT !.pc = "stored", !.deadline = deadline]
<1>1. /\ up[s].pc = "setnx" /\ UNCHANGED <<now, reader, delivered>>
      /\ up[s] \in UploadRequests /\ now \in Nat
      /\ db \in [Ids -> Records \cup {NoRecord}] /\ up \in [Saves -> UploadRequests]
    BY DEF UploadSetNX, uploadOnly, FileInv, TypeOK
<1>2. /\ up[s].views \in 1 .. MaxViews /\ up[s].duration > 0 /\ up[s].duration \in Nat
      /\ up[s].deadline = 0
    BY <1>1, LimitsAssumption DEF FileInv, UploadPhases, Unsaved, UploadRequests
<1>3. PICK id \in Ids : id = up[s].id
    BY <1>1 DEF FileInv, UploadPhases
<1>4. up' = [up EXCEPT ![s] = new] /\ db' = [db EXCEPT ![id] = rec]
    BY <1>3 DEF UploadSetNX
<1>5. deadline \in Nat /\ deadline # 0 /\ now <= deadline
    BY <1>1, <1>2
<1> HIDE DEF deadline
<1>6. rec.save = s /\ rec.views = StoredViews(up[s].views) /\ rec.deadline = deadline
    OBVIOUS
<1>7. new.id = id /\ new.deadline = deadline
    BY <1>1, <1>3 DEF UploadRequests
<1> HIDE DEF rec, new
<1>8. /\ up'[s] = new /\ \A t \in Saves \ {s} : up'[t] = up[t]
      /\ db'[id] = rec /\ \A i \in Ids \ {id} : db'[i] = db[i]
    BY <1>1, <1>4
<1>9. Readable(s)' /\ ViewsOf(db'[id].views) = up[s].views
    <2>1. rec # NoRecord
        BY <1>6, NoSaveAssumption DEF NoRecord
    <2> QED BY <1>1, <1>2, <1>5, <1>6, <1>7, <1>8, <2>1, ClampTypes DEF Readable, Live
<1>10. \A t \in Saves \ {s} : /\ Readable(t)' <=> Readable(t)
                              /\ Readable(t) => up[t].id # id
    <2> TAKE t \in Saves \ {s}
    <2>1. CASE up[t].id = id
        BY <1>3, <1>6, <1>8, <2>1 DEF Readable
    <2>2. CASE up[t].id # id
        BY <1>1, <1>8, <2>2 DEF Readable, Live
    <2> QED BY <2>1, <2>2
<1>11. Left' = [Left EXCEPT ![s] = up[s].views]
    <2>1. Left'[s] = up[s].views
        BY <1>7, <1>8, <1>9 DEF Left
    <2>2. ASSUME NEW t \in Saves \ {s}
          PROVE  Left'[t] = Left[t]
        <3>1. CASE ~ Readable(t)
            BY <1>10, <3>1 DEF Left
        <3>2. CASE Readable(t)
            <4>1. up[t].id \in Ids \ {id}
                BY <1>10, <3>2 DEF Readable
            <4> QED BY <1>8, <1>10, <3>2, <4>1 DEF Left
        <3> QED BY <3>1, <3>2
    <2> QED BY <2>1, <2>2 DEF Left
<1>12. s \notin Created /\ Created' = Created \cup {s}
    BY <1>2, <1>5, <1>7, <1>8 DEF Created
<1>13. UNCHANGED <<Holding, delivered>>
    BY <1>1 DEF Holding, Held
<1> QED BY <1>2, <1>11, <1>12, <1>13, MappedCreate

(* A commit: the abstract request takes the view the reader commits.       *)
LEMMA StepTake ==
    ASSUME FileInv, NEW r \in Readers, NEW view \in Nat, NEW new \in Records \cup {NoRecord},
           reader[r].pc \in {"set", "del"}, ExecAllowed(r),
           db' = [db EXCEPT ![reader[r].id] = new],
           TakeView(r, view),
           \/ new = NoRecord /\ view = 0
           \/ /\ new \in Records /\ new.save = reader[r].cur.save /\ now <= new.deadline
              /\ reader[r].cur.views > 1 /\ new.views = reader[r].cur.views - 1 /\ view = new.views
    PROVE  Abstract!Next
<1>1. /\ reader \in [Readers -> ReadRequests] /\ db \in [Ids -> Records \cup {NoRecord}]
      /\ up \in [Saves -> UploadRequests]
    BY DEF FileInv, TypeOK
<1>2. PICK id \in Ids : id = reader[r].id
    BY DEF FileInv, ReadPhases
<1>3. PICK s \in Saves : s = reader[r].cur.save
    BY NoRecordIsNone DEF FileInv, ReadPhases
<1>4. /\ reader[r].cur \in Records /\ db[id] = reader[r].cur /\ Live(id)
      /\ db[id].views \in 0 .. MaxViews
    BY <1>2 DEF FileInv, ReadPhases, SnapshotSound, ExecAllowed, Records
<1>5. up[s].id = id /\ \A t \in Saves \ {s} : Readable(t) => up[t].id # id
    BY <1>3, <1>4 DEF FileInv, FileViewsConserved, Live, Readable
<1>6. UNCHANGED <<now, up, delivered>>
    BY DEF TakeView, readOnly
<1>7. Readable(s) /\ Left[s] = ViewsOf(db[id].views)
    BY <1>3, <1>4, <1>5 DEF Readable, Left
<1>8. Left[s] > 0 /\ Left[s] \in Nat
    BY <1>4, <1>7, LimitsAssumption DEF ViewsOf
<1>9. db'[id] = new /\ \A i \in Ids \ {id} : db'[i] = db[i]
    BY <1>1, <1>2
<1>10. Left'[s] = view /\ (view = 0 \/ view = Left[s] - 1)
    <2>1. CASE new = NoRecord /\ view = 0
        <3>1. ~ Readable(s)'
            BY <1>5, <1>6, <1>9, <2>1 DEF Readable, Live
        <3> QED BY <2>1, <3>1 DEF Left
    <2>2. CASE /\ new \in Records /\ new.save = reader[r].cur.save /\ now <= new.deadline
               /\ reader[r].cur.views > 1 /\ new.views = reader[r].cur.views - 1
               /\ view = new.views
        <3>1. Readable(s)'
            BY <1>3, <1>5, <1>6, <1>9, <2>2, NoRecordIsNone DEF Readable, Live
        <3>2. ViewsOf(new.views) = new.views /\ ViewsOf(db[id].views) = db[id].views
            BY <1>4, <2>2 DEF ViewsOf
        <3>3. Left'[s] = new.views
            BY <1>5, <1>6, <1>9, <3>1, <3>2 DEF Left
        <3> QED BY <1>4, <1>7, <2>2, <3>2, <3>3
    <2> QED BY <2>1, <2>2
<1>11. ASSUME NEW t \in Saves \ {s}
       PROVE  Left'[t] = Left[t]
    <2>1. CASE up[t].id # id
        BY <1>6, <1>9, <2>1 DEF Left, Readable, Live
    <2>2. CASE up[t].id = id
        <3>1. ~ Readable(t)
            BY <1>5, <2>2
        <3>2. ~ Readable(t)'
            BY <1>3, <1>6, <1>9, <2>2 DEF Readable, Live
        <3> QED BY <3>1, <3>2 DEF Left
    <2> QED BY <2>1, <2>2
<1>12. Left' = [Left EXCEPT ![s] = view]
    BY <1>10, <1>11 DEF Left
<1>13. Created' = Created
    BY <1>6 DEF Created
<1>14. Holding[r] = [secret |-> NoSave, view |-> 0]
    BY DEF Holding, Held
<1>15. Holding' = [Holding EXCEPT ![r] = [secret |-> s, view |-> view]]
    <2>1. reader' = [reader EXCEPT ![r].pc = "committed", ![r].view = view,
                                ![r].key = Empty, ![r].ttl = 0, ![r].start = 0,
                                ![r].took = @ + 1]
        BY DEF TakeView
    <2>2. reader'[r] = [reader[r] EXCEPT !.pc = "committed", !.view = view, !.key = Empty,
                                         !.ttl = 0, !.start = 0, !.took = @ + 1]
        BY <1>1, <2>1
    <2>3. reader'[r].pc = "committed" /\ reader'[r].view = view /\ reader'[r].cur = reader[r].cur
        BY <1>1, <2>2 DEF ReadRequests
    <2>4. \A q \in Readers \ {r} : reader'[q] = reader[q]
        BY <1>1, <2>1
    <2>5. Held(reader'[r]) = [secret |-> s, view |-> view]
        BY <1>3, <2>3 DEF Held
    <2> QED BY <2>4, <2>5 DEF Holding
<1> QED BY <1>6, <1>8, <1>10, <1>12, <1>13, <1>14, <1>15, MappedTake

LEMMA StepCommit ==
    ASSUME FileInv, NEW r \in Readers, ReadExecSet(r) \/ ReadExecDel(r)
    PROVE  Abstract!Next
<1>1. CASE ReadExecDel(r)
    <2>1. /\ reader[r].pc = "del" /\ ExecAllowed(r) /\ TakeView(r, 0)
          /\ db' = [db EXCEPT ![reader[r].id] = NoRecord]
        BY <1>1 DEF ReadExecDel
    <2> QED BY <2>1, StepTake
<1>2. CASE ReadExecSet(r)
    <2> DEFINE new == [reader[r].cur EXCEPT !.views = reader[r].cur.views - 1,
                                            !.deadline = now + reader[r].ttl]
    <2>1. /\ reader[r].pc = "set" /\ ExecAllowed(r)
          /\ db' = [db EXCEPT ![reader[r].id] = new] /\ TakeView(r, new.views)
        BY <1>2 DEF ReadExecSet
    <2>2. reader[r].cur \in Records /\ reader[r].cur.views > 1
        BY <2>1 DEF FileInv, ReadPhases
    <2>3. now \in Nat /\ reader[r].ttl \in Nat
        BY DEF FileInv, TypeOK, ReadRequests
    <2>4. now + reader[r].ttl \in Nat /\ now <= now + reader[r].ttl
        BY <2>3
    <2>5. new \in Records
        BY <2>2, <2>4, UpdatedType
    <2>6. /\ new.views = reader[r].cur.views - 1 /\ new.save = reader[r].cur.save
          /\ new.deadline = now + reader[r].ttl
        BY <2>2 DEF Records
    <2> HIDE DEF new
    <2>7. new.views \in Nat
        BY <2>5, LimitsAssumption DEF Records
    <2> QED BY <2>1, <2>2, <2>4, <2>5, <2>6, <2>7, StepTake
<1> QED BY <1>1, <1>2

(* A stream that came to its end delivers the view that was held.          *)
LEMMA StepDeliver ==
    ASSUME FileInv, NEW r \in Readers, ReadStream(r), delivered' # delivered
    PROVE  Abstract!Next
<1>1. /\ reader[r].pc = "committed" /\ UNCHANGED <<db, now, up>>
      /\ delivered' = [delivered EXCEPT ![reader[r].cur.save] = @ \cup {reader[r].view}]
      /\ reader \in [Readers -> ReadRequests] /\ reader[r] \in ReadRequests
    BY DEF ReadStream, readOnly, FileInv, TypeOK
<1>2. Left' = Left /\ Created' = Created
    BY <1>1 DEF Left, Created, Readable, Live
<1>3. PICK s \in Saves : s = reader[r].cur.save
    BY <1>1, NoRecordIsNone DEF FileInv, ReadPhases
<1>4. reader[r].view \notin delivered[s]
    BY <1>1, <1>3 DEF FileInv, ViewsStreamedOnce
<1>5. Holding[r] = [secret |-> s, view |-> reader[r].view]
    BY <1>1, <1>3 DEF Holding, Held
<1>6. reader'[r].pc # "committed" /\ \A q \in Readers \ {r} : reader'[q] = reader[q]
    <2>1. CASE Ended(r)
        BY <1>1, <2>1, EndedType DEF Ended
    <2>2. CASE \E status \in Statuses :
                  reader' = [reader EXCEPT ![r].pc = "unlink", ![r].status = status]
        <3>1. PICK status \in Statuses :
                 reader' = [reader EXCEPT ![r].pc = "unlink", ![r].status = status]
            BY <2>2
        <3>2. reader'[r] = [reader[r] EXCEPT !.pc = "unlink", !.status = status]
            BY <1>1, <3>1
        <3> QED BY <1>1, <3>1, <3>2 DEF ReadRequests
    <2> QED BY <2>1, <2>2, StreamCases
<1>7. Held(reader'[r]) = [secret |-> NoSave, view |-> 0]
    BY <1>6 DEF Held
<1>8. Holding' = [Holding EXCEPT ![r] = [secret |-> NoSave, view |-> 0]]
    BY <1>6, <1>7 DEF Holding
<1>9. delivered' = [delivered EXCEPT ![s] = @ \cup {reader[r].view}]
    BY <1>1, <1>3
<1> QED BY <1>2, <1>4, <1>5, <1>8, <1>9, MappedDeliver

(* The clock and the deletion of a stale record end lifetimes.             *)
LEMMA StepTickMaps ==
    ASSUME FileInv, Tick
    PROVE  Abstract!Next
<1>1. UNCHANGED <<db, up, reader, delivered>> /\ now \in Nat /\ now' = now + 1
    BY DEF Tick, FileInv, TypeOK
<1>2. \A id \in Ids : db[id] # NoRecord => db[id].deadline \in Nat
    <2>1. db \in [Ids -> Records \cup {NoRecord}]
        BY DEF FileInv, TypeOK
    <2> QED BY <2>1 DEF Records
<1>3. \A s \in Saves : Readable(s)' => Readable(s)
    BY <1>1, <1>2 DEF Readable, Live
<1>4. Holding' = Holding
    BY <1>1 DEF Holding, Held
<1> QED BY <1>1, <1>3, <1>4, StepExpire

LEMMA StepStaleMaps ==
    ASSUME FileInv, NEW r \in Readers, ReadExecStale(r)
    PROVE  Abstract!Next
<1>1. PICK id \in Ids : id = reader[r].id
    BY DEF ReadExecStale, FileInv, ReadPhases
<1>2. /\ db' = [db EXCEPT ![id] = NoRecord]
      /\ \E status \in Statuses : reader' = [reader EXCEPT ![r] = [NoRequest EXCEPT !.status = status]]
      /\ UNCHANGED <<now, up, delivered>> /\ reader[r].pc = "stale"
    BY <1>1 DEF ReadExecStale, readOnly, Statuses
<1>3. /\ reader'[r].pc = "idle" /\ \A q \in Readers \ {r} : reader'[q] = reader[q]
      /\ db'[id] = NoRecord /\ \A i \in Ids \ {id} : db'[i] = db[i]
    BY <1>2, EndedType DEF FileInv, TypeOK
<1>4. Holding' = Holding
    BY <1>2, <1>3 DEF Holding, Held
<1>5. \A s \in Saves : Readable(s)' => Readable(s) /\ db'[up[s].id] = db[up[s].id]
    BY <1>2, <1>3 DEF Readable, Live
<1> QED BY <1>2, <1>4, <1>5, StepExpire

LEMMA StepSweepMaps ==
    ASSUME \/ SweepStart \/ SweepRemove \/ SweepEnd \/ SweepFailed
           \/ \E id \in Ids : SweepInfo(id)
    PROVE  UNCHANGED Abstract!vars
<1>1. UNCHANGED <<db, now, up, reader, delivered>>
    BY DEF SweepStart, SweepRemove, SweepEnd, SweepFailed, SweepInfo, sweepOnly
<1>2. UNCHANGED <<Left, Created, Holding, delivered>>
    BY <1>1 DEF Left, Created, Holding, Held, Readable, Live
<1> QED BY <1>2, MappedStutter

LEMMA StepMaps ==
    ASSUME FileInv, FileInv', Next
    PROVE  Abstract!Next \/ UNCHANGED Abstract!vars
<1>1. ASSUME NEW s \in Saves, UploadSetNX(s)
      PROVE  Abstract!Next
    BY <1>1, StepCreate, StepUploadMaps
<1>2. ASSUME NEW r \in Readers, ReadStream(r)
      PROVE  Abstract!Next
    BY <1>2, StepDeliver, StepReadMaps
<1>3. ASSUME NEW r \in Readers,
             \/ ReadRequest(r) \/ ReadWatch(r) \/ ReadGet(r) \/ ReadOpen(r) \/ ReadPTTL(r)
             \/ ReadRefused(r) \/ ReadUnlink(r) \/ ReadFailed(r)
      PROVE  Abstract!Next
    <2>1. UNCHANGED delivered
        BY <1>3 DEF ReadRequest, ReadWatch, ReadGet, ReadOpen, ReadPTTL, ReadRefused, ReadUnlink,
           ReadFailed
    <2> QED BY <1>3, <2>1, StepReadMaps
<1> QED BY <1>1, <1>2, <1>3, NextCases, StepUploadMaps, StepCommit, StepStaleMaps, StepTickMaps,
           StepSweepMaps, StepCrashMaps

(* The file store implements the promise, even if ids repeat: what its     *)
(* readers get is what OneTimeSecret allows, under any interleaving of     *)
(* uploads, downloads, sweeps, expiries and crashes.                       *)
THEOREM FileStoreImplementsOneTimeSecret == Spec => ImplementsOneTimeSecret
<1>1. Init => Abstract!Init
    <2> SUFFICES ASSUME Init PROVE Abstract!Init
        OBVIOUS
    <2>1. /\ \A s \in Saves : up[s].id = NoId /\ up[s].deadline = 0
          /\ \A r \in Readers : reader[r].pc = "idle"
          /\ delivered = [s \in Saves |-> {}]
        BY NewUploadType, NoRequestType DEF Init
    <2>2. Left = [s \in Saves |-> 0] /\ Created = {}
        BY <2>1, NoIdAssumption DEF Left, Created, Readable
    <2>3. Holding = [r \in Readers |-> [secret |-> NoSave, view |-> 0]]
        BY <2>1 DEF Holding, Held
    <2> QED BY <2>1, <2>2, <2>3, MappedInit
<1>2. FileInv /\ FileInv' /\ [Next]_vars => [Abstract!Next]_(Abstract!vars)
    <2>1. CASE UNCHANGED vars
        <3>1. UNCHANGED <<db, now, up, reader, delivered>>
            BY <2>1 DEF vars
        <3>2. UNCHANGED <<Left, Created, Holding, delivered>>
            BY <3>1 DEF Left, Created, Holding, Held, Readable, Live
        <3> QED BY <3>2, MappedStutter
    <2>2. CASE FileInv /\ FileInv' /\ Next
        BY <2>2, StepMaps
    <2> QED BY <2>1, <2>2
<1> QED BY <1>1, <1>2, FileInvariant, PTL DEF Spec, ImplementsOneTimeSecret, Abstract!Spec
===============================================================================

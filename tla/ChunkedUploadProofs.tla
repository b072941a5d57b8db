-------------------------- MODULE ChunkedUploadProofs --------------------------
(***************************************************************************)
(* Proofs about the chunked upload, for any requests, slices, contents,    *)
(* settings, store keys and bounds.                                        *)
(*                                                                         *)
(* The safety theorems speak of the behaviours in which no request is      *)
(* still finishing an upload when its lock runs out (HoldersKeepTheirLock).*)
(* The code does not ensure that: the lock has a lifetime, no owner and no *)
(* renewal.  It holds when Patience <= LockTTL (LocksOutlastRequests).     *)
(* ExpiryInv, which speaks of deadlines, also needs that nothing fails.    *)
(***************************************************************************)
EXTENDS ChunkedUpload, FiniteSetTheorems, TLAPS

RequestRecord ==
    [pc : Pcs, index : Chunks \cup {None}, bytes : Bytes \cup {None},
     settings : Settings \cup {None}, store : Stores \cup {None},
     since : 0..MaxTime, ttl : 0..Lifetime, began : 0..MaxTime,
     hashes : ChunkBytes, reply : {"none", "ok", "error", "retry", "id"}]

(* The types of all but the requests.                                      *)
SharedTypeOK ==
    /\ now \in 0..MaxTime
    /\ upload \in [store : Stores \cup {None}, settings : Settings \cup {None},
                   published : BOOLEAN, hashes : ChunkBytes, deadline : Deadlines]
    /\ hashes \in [at : ChunkBytes, deadline : Deadlines]
    /\ chunks \in [Stores -> [got : SUBSET Chunks, deadline : Deadlines]]
    /\ lock \in Deadlines /\ record \in [Stores -> Deadlines]
    /\ blob \in [Stores -> [there : BOOLEAN, bytes : ChunkBytes, mtime : Deadlines]]
    /\ doomed \in Stores \cup {None} /\ leaving \subseteq Stores
    /\ drawn \subseteq Stores /\ links \subseteq drawn
    /\ published \in [Stores -> ChunkBytes] /\ counted \in Nat
    /\ upload.store # None => upload.settings # None

(* A request whose body has arrived, one that has found or is starting an  *)
(* upload, and one that has a store key.                                   *)
Active(q) == q.pc \notin {"new", "done"}
Joined(q) == q.pc \notin {"new", "load", "done"}
HasStore(q) == q.pc \notin {"new", "load", "create", "done"}

Claimed == {"check", "write", "touch", "pttl", "restore", "sadd"}
Written == {"touch", "pttl", "restore", "sadd"}

(* From the slice that made the file complete to its publication.          *)
Completing == {"finset", "adopt", "finpttl", "finrestore", "fintouch", "finundo", "publish"}
Filled == {"lock", "finload", "finhashes"} \cup Completing

Done == {s \in Stores : published[s] # Unset}

(* A request ends before its patience does, works on a key that was drawn, *)
(* holds a lock that outlasts it if locks last that long, and answers with *)
(* a published file.                                                       *)
Honest(q) ==
    /\ Active(q) =>
          /\ q.index \in Chunks /\ q.bytes \in Bytes /\ q.settings \in Settings
          /\ q.since <= now /\ now <= q.since + Patience
    /\ HasStore(q) => q.store \in drawn
    /\ q.pc \in Completing => q.since <= q.began
    /\ q.pc \in Finishing => lock # 0 /\ (Patience <= LockTTL => q.since + Patience <= lock)
    /\ q.pc = "count" \/ (q.pc = "unlock" /\ q.reply = "id") => q.store \in Done

(* Once an upload is published, a request that worked on it ends before it *)
(* is forgotten, and if it still writes, writes what was published.        *)
AfterPublication(q) ==
    /\ Joined(q) => q.since + UploadTTL <= upload.deadline
    /\ q.pc \notin {"finhashes"} \cup Completing
    /\ q.pc = "write" /\ published[q.store] # Unset => published[q.store][q.index] = q.bytes

(* Until then, what a request has claimed and written is what its index is *)
(* pinned to, and a request that completes the file has all of its slices. *)
BeforePublication(q) ==
    /\ HasStore(q) => published[q.store] = Unset
    /\ q.pc \in Claimed => Hashes[q.index] = q.bytes /\ q.since + UploadTTL <= hashes.deadline
    /\ q.pc \in Written /\ blob[q.store].there => blob[q.store].bytes[q.index] = q.bytes
    /\ q.pc \in Filled =>
          chunks[q.store].got = Chunks /\ q.since + UploadTTL <= chunks[q.store].deadline
    /\ q.pc \in Completing => q.hashes = Hashes /\ \A c \in Chunks : q.hashes[c] # None

Good(q) ==
    /\ Honest(q)
    /\ IF Upload.published THEN AfterPublication(q) ELSE BeforePublication(q)

(* A slice that was counted is in the blob, as it was pinned; what was     *)
(* published is whole, and its blob is that or gone.                       *)
Counted(s) ==
    \A c \in Received(s) :
        /\ chunks[s].deadline <= hashes.deadline
        /\ Hashes[c] # None
        /\ blob[s].there => blob[s].bytes[c] = Hashes[c]

StoreGood(s) ==
    /\ s \notin drawn =>
          /\ chunks[s].got = {} /\ ~ blob[s].there /\ published[s] = Unset
          /\ record[s] = 0 /\ upload.store # s
    /\ chunks[s].deadline <= now + UploadTTL /\ record[s] <= now + Lifetime
    /\ s \in Done =>
          /\ \A c \in Chunks : published[s][c] # None
          /\ blob[s].there => blob[s].bytes = published[s]
    /\ IF Upload.published THEN chunks[s].deadline <= upload.deadline ELSE Counted(s)

UploadGood ==
    /\ hashes.deadline <= now + UploadTTL /\ upload.deadline <= now + UploadTTL
    /\ upload.published => upload.store \in Done
    /\ Upload.store # None /\ ~ Upload.published => published[upload.store] = Unset
    /\ links \subseteq Done /\ IsFiniteSet(Done)

(* Of two requests, one at most is between the lock and its release.       *)
OneFinisher ==
    \A r, w \in Requests : req[r].pc \in Finishing /\ req[w].pc \in Finishing => r = w

Counting == {r \in Requests : req[r].pc = "count"}

CountKept == counted + (IF Counting # {} THEN 1 ELSE 0) <= Cardinality(Done)

ChunkInv ==
    /\ SharedTypeOK /\ req \in [Requests -> RequestRecord]
    /\ UploadGood
    /\ \A s \in Stores : StoreGood(s)
    /\ \A r \in Requests : Good(req[r])
    /\ OneFinisher
    /\ CountKept
------------------------------------------------------------------------------
LEMMA Constants ==
    /\ Chunks # {} /\ UploadTTL \in Nat /\ LockTTL \in Nat /\ LockTTL > 0
    /\ Lifetime \in Nat /\ Lifetime > 0 /\ Patience \in Nat /\ Patience < UploadTTL
    /\ MaxTime \in Nat
BY ChunkAssumption

(* The deadlines that are set lie in their range.                          *)
LEMMA DeadlinesFit ==
    ASSUME NEW t \in 0..MaxTime
    PROVE  /\ t + UploadTTL \in Deadlines /\ t + LockTTL \in Deadlines /\ t \in Deadlines
           /\ \A d \in 0..Lifetime : t + d \in Deadlines
           /\ t + Lifetime \in Deadlines /\ 0 \in Deadlines
           /\ t \in Nat /\ \A d \in Deadlines : d \in Nat
BY ChunkAssumption DEF Deadlines

LEMMA UnsetTyped == Unset \in ChunkBytes /\ \A c \in Chunks : Unset[c] = None
BY DEF Unset, ChunkBytes

LEMMA NewRequestTyped ==
    /\ NewRequest \in RequestRecord /\ NewRequest.pc = "new" /\ NewRequest.store = None
    /\ 0 \in 0..MaxTime /\ 0 \in 0..Lifetime
<1>1. 0 \in 0..MaxTime /\ 0 \in 0..Lifetime
  BY ChunkAssumption
<1>2. Unset \in ChunkBytes
  BY UnsetTyped
<1> HIDE DEF Unset
<1> QED BY <1>1, <1>2 DEF NewRequest, RequestRecord, Pcs

LEMMA Unfolded ==
    ASSUME ChunkInv
    PROVE  /\ SharedTypeOK /\ UploadGood /\ OneFinisher /\ CountKept
           /\ req \in [Requests -> RequestRecord]
           /\ now \in 0..MaxTime /\ now \in Nat
           /\ \A r \in Requests : req[r] \in RequestRecord /\ Good(req[r])
           /\ \A s \in Stores : StoreGood(s)
BY DeadlinesFit DEF ChunkInv, SharedTypeOK

(* The upload record once expiry is taken into account.                    *)
LEMMA UploadNow ==
    /\ Upload.published <=> now <= upload.deadline /\ upload.published
    /\ Upload.store # None => now <= upload.deadline /\ Upload.store = upload.store
                              /\ Upload.settings = upload.settings /\ Upload = upload
    /\ Upload.published => Upload = upload
BY DEF Upload, NoUpload

LEMMA TypesHold == ChunkInv => TypeOK
BY DEF ChunkInv, SharedTypeOK, TypeOK, RequestRecord

(* A request that has not arrived or has been answered holds nothing.      *)
LEMMA IdleGood ==
    ASSUME NEW q \in RequestRecord, q.pc \in {"new", "done"}
    PROVE  Good(q)
BY DEF Good, Honest, AfterPublication, BeforePublication, Active, Joined, HasStore,
       Claimed, Written, Completing, Filled, Finishing

(* A step of one request: it is good again, and so is what it shares.      *)
LEMMA Moves ==
    ASSUME ChunkInv, NEW r \in Requests, NEW new \in RequestRecord,
           req' = [req EXCEPT ![r] = new],
           SharedTypeOK', UploadGood', \A s \in Stores : StoreGood(s)', CountKept',
           \A w \in Requests \ {r} : \A q : q = req[w] => Good(q)',
           Good(new)',
           new.pc \in Finishing =>
               req[r].pc \in Finishing \/ \A w \in Requests : req[w].pc \notin Finishing
    PROVE  ChunkInv'
<1>1. req \in [Requests -> RequestRecord] /\ OneFinisher
  BY Unfolded
<1>2. req' \in [Requests -> RequestRecord] /\ req'[r] = new
      /\ \A w \in Requests \ {r} : req'[w] = req[w]
  BY <1>1
<1>3. OneFinisher'
  BY <1>1, <1>2 DEF OneFinisher
<1>4. ASSUME NEW w \in Requests PROVE Good(req[w])'
  <2>1. PICK q : q = req'[w]
    OBVIOUS
  <2>2. Good(q)'
    <3>1. CASE w = r
      BY <1>2, <2>1, <3>1
    <3>2. CASE w # r
      BY <1>2, <2>1, <3>2
    <3> QED BY <3>1, <3>2
  <2> QED BY <2>1, <2>2 DEF Good, Honest, AfterPublication, BeforePublication, Active, Joined,
             HasStore
<1> QED BY <1>2, <1>3, <1>4 DEF ChunkInv

------------------------------------------------------------------------------
(* What keeps the parts of the invariant while the keys stay as they are.  *)

LEMMA SameKeys ==
    ASSUME now' = now, upload' = upload, hashes' = hashes, chunks' = chunks
    PROVE  Upload' = Upload /\ Hashes' = Hashes /\ \A s \in Stores : Received(s)' = Received(s)
BY DEF Upload, Hashes, Received

(* A request is as good as before when a blob it may know of only goes.    *)
LEMMA GoodKept ==
    ASSUME ChunkInv, NEW q \in RequestRecord, Good(q),
           now' = now, upload' = upload, hashes' = hashes, chunks' = chunks,
           published' = published, drawn \subseteq drawn',
           q.pc \in Finishing => lock' = lock,
           \A s \in drawn : blob'[s].there => blob[s].there /\ blob'[s].bytes = blob[s].bytes
    PROVE  Good(q)'
<1>1. Upload' = Upload /\ Hashes' = Hashes
  BY SameKeys
<1>2. Honest(q)'
  BY DEF Good, Honest, Done
<1>3. HasStore(q) => q.store \in drawn
  BY DEF Good, Honest
<1>4. q.pc \in Written => HasStore(q)
  BY DEF Written, HasStore
<1>5. CASE Upload.published
  BY <1>1, <1>2, <1>5 DEF Good, AfterPublication
<1>6. CASE ~ Upload.published
  BY <1>1, <1>2, <1>3, <1>4, <1>6 DEF Good, BeforePublication
<1> QED BY <1>5, <1>6

(* While the upload stays open, the pins and the blob a request relies on. *)
LEMMA BeforeKept ==
    ASSUME ChunkInv, NEW q \in RequestRecord, Good(q),
           ~ Upload.published, ~ Upload'.published,
           now' = now, published' = published, drawn' = drawn, lock' = lock,
           q.pc \in Claimed =>
               Hashes'[q.index] = Hashes[q.index] /\ hashes.deadline <= hashes'.deadline,
           q.pc \in Completing => Hashes' = Hashes,
           q.pc \in Written /\ blob'[q.store].there =>
               blob[q.store].there /\ blob'[q.store].bytes[q.index] = blob[q.store].bytes[q.index],
           q.pc \in Filled =>
               /\ chunks'[q.store].got = chunks[q.store].got
               /\ chunks[q.store].deadline <= chunks'[q.store].deadline,
           hashes.deadline \in Nat, hashes'.deadline \in Nat,
           q.pc \in Filled =>
               chunks[q.store].deadline \in Nat /\ chunks'[q.store].deadline \in Nat
    PROVE  Good(q)'
<1>1. Honest(q)'
  BY DEF Good, Honest, Done
<1>2. q.since \in Nat /\ UploadTTL \in Nat
  BY DeadlinesFit, Constants DEF RequestRecord
<1>3. BeforePublication(q)
  BY DEF Good
<1>4. q.since + UploadTTL \in Nat
  BY <1>2
<1>5. q.pc \in Claimed =>
          Hashes'[q.index] = q.bytes /\ q.since + UploadTTL <= hashes'.deadline
  BY <1>3, <1>4 DEF BeforePublication
<1>6. q.pc \in Filled =>
          chunks'[q.store].got = Chunks /\ q.since + UploadTTL <= chunks'[q.store].deadline
  BY <1>3, <1>4 DEF BeforePublication
<1>7. BeforePublication(q)'
  BY <1>3, <1>5, <1>6 DEF BeforePublication, HasStore
<1> QED BY <1>1, <1>7 DEF Good

(* While the published upload stays, its deadline may move on.             *)
LEMMA AfterKept ==
    ASSUME ChunkInv, NEW q \in RequestRecord, Good(q),
           Upload.published, Upload'.published, upload.deadline <= upload'.deadline,
           upload.deadline \in Nat, upload'.deadline \in Nat,
           now' = now, published' = published, drawn' = drawn, lock' = lock
    PROVE  Good(q)'
<1>1. Honest(q)'
  BY DEF Good, Honest, Done
<1>2. q.since + UploadTTL \in Nat
  BY DeadlinesFit, Constants DEF RequestRecord
<1>3. AfterPublication(q)'
  BY <1>2 DEF Good, AfterPublication, Joined
<1> QED BY <1>1, <1>3 DEF Good

LEMMA StoreKept ==
    ASSUME NEW s \in Stores, StoreGood(s),
           now' = now, upload' = upload, hashes' = hashes, chunks' = chunks,
           published' = published, drawn \subseteq drawn', s \in drawn' => s \in drawn,
           s \notin drawn => record'[s] = 0,
           record'[s] <= now + Lifetime,
           blob'[s].there => blob[s].there /\ blob'[s].bytes = blob[s].bytes
    PROVE  StoreGood(s)'
<1>1. Upload' = Upload /\ Hashes' = Hashes /\ Received(s)' = Received(s)
  BY SameKeys
<1>2. Counted(s) => Counted(s)'
  BY <1>1 DEF Counted
<1> QED BY <1>1, <1>2 DEF StoreGood, Done

LEMMA UploadKept ==
    ASSUME UploadGood, now' = now, upload' = upload, hashes' = hashes, published' = published,
           links' \subseteq Done
    PROVE  UploadGood'
BY DEF UploadGood, Upload, Done

LEMMA CountStays ==
    ASSUME ChunkInv, counted' = counted, published' = published,
           Counting' \subseteq Counting
    PROVE  CountKept'
<1>1. Done' = Done
  BY DEF Done
<1>2. Cardinality(Done) \in Nat /\ counted \in Nat
  BY Unfolded, FS_CardinalityType DEF UploadGood, SharedTypeOK
<1>3. CountKept
  BY Unfolded
<1>4. PICK n \in Nat : n = Cardinality(Done)
  BY <1>2
<1>5. counted + (IF Counting # {} THEN 1 ELSE 0) <= n
  BY <1>3, <1>4 DEF CountKept
<1>6. counted + (IF Counting' # {} THEN 1 ELSE 0) <= n
  BY <1>2, <1>5
<1> QED BY <1>1, <1>4, <1>6 DEF CountKept

(* The requests counted after one of them moved on.                        *)
LEMMA NotCounting ==
    ASSUME ChunkInv, NEW r \in Requests, NEW new \in RequestRecord,
           req' = [req EXCEPT ![r] = new], new.pc # "count"
    PROVE  Counting' = Counting \ {r}
BY Unfolded DEF Counting

Blob == [there : BOOLEAN, bytes : ChunkBytes, mtime : Deadlines]

BlobsOnlyGo ==
    /\ blob' \in [Stores -> Blob]
    /\ \A s \in Stores : blob'[s].there => blob[s].there /\ blob'[s].bytes = blob[s].bytes

(* A step of one request that changes no key: at most an mtime, or a blob  *)
(* that goes, and a link that is answered.                                 *)
LEMMA Quiet ==
    ASSUME ChunkInv, NEW r \in Requests, NEW new \in RequestRecord,
           req' = [req EXCEPT ![r] = new], new.pc # "count", Good(new),
           new.pc \in Finishing => req[r].pc \in Finishing,
           UNCHANGED <<redis, outside, published, counted>>,
           links' \subseteq Done, BlobsOnlyGo
    PROVE  ChunkInv'
<1> USE DEF BlobsOnlyGo
<1>1. now' = now /\ upload' = upload /\ hashes' = hashes /\ chunks' = chunks /\ lock' = lock
      /\ record' = record /\ drawn' = drawn /\ published' = published /\ counted' = counted
      /\ doomed' = doomed /\ leaving' = leaving
  BY DEF redis, outside
<1>2. SharedTypeOK /\ UploadGood /\ \A s \in Stores : StoreGood(s)
  BY Unfolded
<1>3. Done \subseteq drawn
  BY <1>2 DEF StoreGood, Done
<1>4. SharedTypeOK'
  BY <1>1, <1>2, <1>3 DEF SharedTypeOK, Blob
<1>5. UploadGood'
  BY <1>1, <1>2, UploadKept
<1>6. ASSUME NEW s \in Stores PROVE StoreGood(s)'
  <2>1. StoreGood(s)
    BY <1>2
  <2>2. (s \notin drawn => record'[s] = 0) /\ record'[s] <= now + Lifetime
    BY <1>1, <2>1 DEF StoreGood
  <2> QED BY <1>1, <2>1, <2>2, StoreKept
<1>7. CountKept'
  <2>1. Counting' \subseteq Counting
    BY NotCounting
  <2> QED BY <1>1, <2>1, CountStays
<1>8. drawn \subseteq Stores
  BY <1>2 DEF SharedTypeOK
<1>9. ASSUME NEW q \in RequestRecord, Good(q) PROVE Good(q)'
  BY <1>1, <1>8, <1>9, GoodKept
<1>10. \A w \in Requests \ {r} : \A q : q = req[w] => Good(q)'
  <2>1. \A w \in Requests : req[w] \in RequestRecord /\ Good(req[w])
    BY Unfolded
  <2> QED BY <1>9, <2>1
<1>11. Good(new)'
  BY <1>9
<1> QED BY <1>4, <1>5, <1>6, <1>7, <1>10, <1>11, Moves

LEMMA BlobStays == ASSUME ChunkInv, blob' = blob PROVE BlobsOnlyGo
BY Unfolded DEF BlobsOnlyGo, SharedTypeOK, Blob

LEMMA BlobTouched ==
    ASSUME ChunkInv, NEW s \in Stores, NEW d \in Deadlines,
           blob' = [blob EXCEPT ![s].mtime = d]
    PROVE  BlobsOnlyGo
<1>1. blob \in [Stores -> Blob]
  BY Unfolded DEF SharedTypeOK, Blob
<1> DEFINE b == [blob[s] EXCEPT !.mtime = d]
<1>2. b \in Blob /\ b.there = blob[s].there /\ b.bytes = blob[s].bytes
  BY <1>1 DEF Blob
<1>3. blob' = [blob EXCEPT ![s] = b]
  BY <1>1
<1> HIDE DEF b
<1> QED BY <1>1, <1>2, <1>3 DEF BlobsOnlyGo

LEMMA NoBlobTyped == NoBlob \in Blob /\ NoBlob.there = FALSE
<1>1. 0 \in Deadlines
  BY ChunkAssumption DEF Deadlines
<1>2. Unset \in ChunkBytes
  BY UnsetTyped
<1> HIDE DEF Unset
<1> QED BY <1>1, <1>2 DEF NoBlob, Blob

LEMMA BlobGoes ==
    ASSUME ChunkInv, NEW s \in Stores, blob' = [blob EXCEPT ![s] = NoBlob]
    PROVE  BlobsOnlyGo
<1>1. blob \in [Stores -> Blob]
  BY Unfolded DEF SharedTypeOK, Blob
<1> QED BY <1>1, NoBlobTyped DEF BlobsOnlyGo

------------------------------------------------------------------------------
(* The steps of a request that change no key.                              *)

(* An answer leaves nothing of the request.                                *)
LEMMA Leave ==
    ASSUME ChunkInv, NEW r \in Requests, NEW reply \in {"none", "ok", "error", "retry", "id"},
           NEW new, new = [NewRequest EXCEPT !.pc = "done", !.reply = reply]
    PROVE  new \in RequestRecord /\ new.pc = "done" /\ Good(new) /\ Good(new)'
<1> HIDE DEF NewRequest
<1> DEFINE one == [NewRequest EXCEPT !.pc = "done"]
<1>1. one \in RequestRecord /\ one.pc = "done"
  BY NewRequestTyped DEF RequestRecord, Pcs
<1>2. new = [one EXCEPT !.reply = reply]
  BY NewRequestTyped DEF RequestRecord
<1> HIDE DEF one
<1>3. new \in RequestRecord /\ new.pc = "done"
  BY <1>1, <1>2 DEF RequestRecord
<1>4. Good(new)
  BY <1>3, IdleGood
<1>5. Good(new)'
  BY <1>3 DEF Good, Honest, AfterPublication, BeforePublication, Active, Joined, HasStore,
     Claimed, Written, Completing, Filled, Finishing
<1> QED BY <1>3, <1>4, <1>5

LEMMA QuietReply ==
    ASSUME ChunkInv, NEW r \in Requests, NEW reply \in {"ok", "error", "retry"},
           Replies(r, reply), UNCHANGED <<redis, outside, published, counted>>, BlobsOnlyGo
    PROVE  ChunkInv'
<1>1. PICK new : new = [NewRequest EXCEPT !.pc = "done", !.reply = reply]
  OBVIOUS
<1>2. new \in RequestRecord /\ new.pc = "done" /\ Good(new)
  BY <1>1, Leave
<1>3. req' = [req EXCEPT ![r] = new] /\ links' = links
  BY <1>1 DEF Replies
<1>4. links' \subseteq Done
  BY <1>3, Unfolded DEF UploadGood
<1>5. new.pc \notin Finishing /\ new.pc # "count"
  BY <1>2 DEF Finishing
<1> QED BY <1>2, <1>3, <1>4, <1>5, Quiet

LEMMA QuietReplyId ==
    ASSUME ChunkInv, NEW r \in Requests, NEW store \in Done,
           RepliesId(r, store), UNCHANGED <<redis, outside, published, counted>>, BlobsOnlyGo
    PROVE  ChunkInv'
<1>1. PICK new : new = [NewRequest EXCEPT !.pc = "done", !.reply = "ok"]
  OBVIOUS
<1>2. new \in RequestRecord /\ new.pc = "done" /\ Good(new)
  BY <1>1, Leave
<1>3. req' = [req EXCEPT ![r] = new] /\ links' = links \cup {store}
  BY <1>1 DEF RepliesId
<1>4. links' \subseteq Done
  BY <1>3, Unfolded DEF UploadGood
<1>5. new.pc \notin Finishing /\ new.pc # "count"
  BY <1>2 DEF Finishing
<1> QED BY <1>2, <1>3, <1>4, <1>5, Quiet

LEMMA PublishedIsDone == ASSUME ChunkInv, Upload.published PROVE Upload.store \in Done
BY Unfolded, UploadNow DEF UploadGood

LEMMA QuietAnswer ==
    ASSUME ChunkInv, NEW r \in Requests, Upload.published, AnswerPublished(r, Upload),
           UNCHANGED <<redis, outside, published, counted>>, BlobsOnlyGo
    PROVE  ChunkInv'
<1>1. CASE RepliesId(r, Upload.store)
  <2>1. PICK store \in Done : store = Upload.store
    BY PublishedIsDone
  <2> QED BY <1>1, <2>1, QuietReplyId
<1>2. CASE Replies(r, "error")
  BY <1>2, QuietReply
<1> QED BY <1>1, <1>2 DEF AnswerPublished

(* The fields a step of a request leaves alone.                            *)
Same(q, new) ==
    /\ new.index = q.index /\ new.bytes = q.bytes /\ new.settings = q.settings
    /\ new.since = q.since /\ new.began = q.began /\ new.hashes = q.hashes

LEMMA GoesTo ==
    ASSUME ChunkInv, NEW r \in Requests, NEW pc \in Pcs, Goes(r, pc)
    PROVE  \E new \in RequestRecord :
               /\ req' = [req EXCEPT ![r] = new] /\ Same(req[r], new)
               /\ new.pc = pc /\ new.store = req[r].store /\ new.reply = req[r].reply
<1> DEFINE new == [req[r] EXCEPT !.pc = pc]
<1>1. req \in [Requests -> RequestRecord]
  BY Unfolded
<1>2. new \in RequestRecord /\ Same(req[r], new) /\ new.pc = pc
      /\ new.store = req[r].store /\ new.reply = req[r].reply
  BY <1>1 DEF RequestRecord, Same
<1>3. req' = [req EXCEPT ![r] = new]
  BY <1>1 DEF Goes
<1> HIDE DEF new
<1> QED BY <1>2, <1>3

LEMMA LeavesWith ==
    ASSUME ChunkInv, NEW r \in Requests, NEW reply \in {"none", "error", "id"}, Leaves(r, reply)
    PROVE  \E new \in RequestRecord :
               /\ req' = [req EXCEPT ![r] = new] /\ Same(req[r], new)
               /\ new.pc = "unlock" /\ new.store = req[r].store /\ new.reply = reply
<1> DEFINE one == [req[r] EXCEPT !.pc = "unlock"]
           new == [one EXCEPT !.reply = reply]
<1>1. req \in [Requests -> RequestRecord]
  BY Unfolded
<1>2. one \in RequestRecord /\ Same(req[r], one) /\ one.pc = "unlock"
      /\ one.store = req[r].store
  BY <1>1 DEF RequestRecord, Same, Pcs, Finishing
<1>3. req' = [req EXCEPT ![r] = new]
  BY <1>1 DEF Leaves
<1> HIDE DEF one
<1>4. new \in RequestRecord /\ Same(req[r], new) /\ new.pc = "unlock"
      /\ new.store = req[r].store /\ new.reply = reply
  BY <1>2 DEF RequestRecord, Same
<1> HIDE DEF new
<1> QED BY <1>3, <1>4

(* From one place in the handler to one that asks no more of a request.    *)
Lawful(p, n) ==
    /\ p \notin {"new", "load", "create", "done"} /\ n \notin {"new", "done", "count"}
    /\ n \in Claimed => p \in Claimed
    /\ n \in Written => p \in Written
    /\ n \in Filled => p \in Filled
    /\ n \in Completing => p \in Completing
    /\ n \in Finishing => p \in Finishing
    /\ n \in {"write", "finhashes"} => ~ Upload.published

LEMMA GoodMoved ==
    ASSUME NEW q \in RequestRecord, NEW new \in RequestRecord, Good(q), Same(q, new),
           Lawful(q.pc, new.pc), new.store = q.store,
           new.pc = "unlock" /\ new.reply = "id" => new.store \in Done
    PROVE  Good(new)
<1>1. Honest(new)
  BY DEF Good, Honest, Same, Lawful, Active, HasStore
<1>2. CASE Upload.published
  BY <1>1, <1>2 DEF Good, AfterPublication, Same, Lawful, Joined, Completing, Filled
<1>3. CASE ~ Upload.published
  BY <1>1, <1>3 DEF Good, BeforePublication, Same, Lawful, HasStore
<1> QED BY <1>2, <1>3

LEMMA Proceeds ==
    ASSUME ChunkInv, NEW r \in Requests, NEW new \in RequestRecord,
           req' = [req EXCEPT ![r] = new], Same(req[r], new), Lawful(req[r].pc, new.pc),
           new.store = req[r].store,
           new.pc = "unlock" /\ new.reply = "id" => new.store \in Done,
           UNCHANGED <<redis, outside, published, counted>>, links' = links, BlobsOnlyGo
    PROVE  ChunkInv'
<1>1. req[r] \in RequestRecord /\ Good(req[r])
  BY Unfolded
<1>2. Good(new)
  BY <1>1, GoodMoved
<1>3. links' \subseteq Done
  BY Unfolded DEF UploadGood
<1>4. new.pc # "count" /\ (new.pc \in Finishing => req[r].pc \in Finishing)
  BY DEF Lawful
<1> QED BY <1>2, <1>3, <1>4, Quiet

LEMMA NoUploadIsOpen == ASSUME ChunkInv, Upload.store = None PROVE ~ Upload.published
<1>1. upload.published => upload.store \in Stores
  BY Unfolded DEF UploadGood, Done
<1> QED BY <1>1, NoneAssumption DEF Upload, NoUpload

(* The store key of an upload that is found was drawn, and is unpublished  *)
(* unless the upload is published.                                         *)
LEMMA FoundUpload ==
    ASSUME ChunkInv, Upload.store # None
    PROVE  /\ Upload.store \in drawn /\ Upload.store \in Stores
           /\ ~ Upload.published => published[Upload.store] = Unset
<1>1. upload.store \in Stores \cup {None} /\ Upload.store = upload.store
  BY Unfolded, UploadNow DEF SharedTypeOK
<1>2. Upload.store \in Stores
  BY <1>1
<1>3. Upload.store \in drawn
  BY <1>1, <1>2, Unfolded DEF StoreGood
<1> QED BY <1>1, <1>2, <1>3, Unfolded DEF UploadGood

LEMMA QuietJoins ==
    ASSUME ChunkInv, NEW r \in Requests, req[r].pc \in {"load", "reload"},
           Upload.store # None, Joins(r, Upload),
           UNCHANGED <<redis, outside, published, counted>>, BlobsOnlyGo
    PROVE  ChunkInv'
<1>1. CASE Upload.published
  BY <1>1, QuietAnswer DEF Joins
<1>2. CASE ~ Upload.published /\ Upload.settings # req[r].settings
  BY <1>2, QuietReply DEF Joins
<1>3. CASE ~ Upload.published /\ Upload.settings = req[r].settings
  <2> DEFINE one == [req[r] EXCEPT !.pc = "claim"]
             new == [one EXCEPT !.store = Upload.store]
  <2>1. req \in [Requests -> RequestRecord] /\ Good(req[r])
    BY Unfolded
  <2>2. one \in RequestRecord /\ Same(req[r], one) /\ one.pc = "claim"
    BY <2>1 DEF RequestRecord, Same, Pcs
  <2>3. req' = [req EXCEPT ![r] = new] /\ links' = links
    BY <1>3, <2>1 DEF Joins
  <2> HIDE DEF one
  <2>4. new \in RequestRecord /\ Same(req[r], new) /\ new.pc = "claim" /\ new.store = Upload.store
    BY <2>2, FoundUpload DEF RequestRecord, Same
  <2> HIDE DEF new
  <2>5. Honest(new)
    BY <2>1, <2>4, FoundUpload DEF Good, Honest, Same, Active, HasStore, Completing, Finishing
  <2>6. BeforePublication(new)
    BY <1>3, <2>4, FoundUpload
    DEF BeforePublication, Claimed, Written, Filled, Completing
  <2>7. Good(new)
    BY <1>3, <2>5, <2>6 DEF Good
  <2>8. new.pc # "count" /\ new.pc \notin Finishing
    BY <2>4 DEF Finishing
  <2>9. links' \subseteq Done
    BY <2>3, Unfolded DEF UploadGood
  <2> QED BY <2>3, <2>4, <2>7, <2>8, <2>9, Quiet
<1> QED BY <1>1, <1>2, <1>3

LEMMA StepArrive ==
    ASSUME ChunkInv, NEW r \in Requests, Arrive(r)
    PROVE  ChunkInv'
<1>1. PICK index \in Chunks, bytes \in Bytes, settings \in Settings :
          req' = [req EXCEPT ![r] = [NewRequest EXCEPT !.pc = "load", !.index = index,
                                                       !.bytes = bytes, !.settings = settings,
                                                       !.since = now]]
  BY DEF Arrive
<1> DEFINE one == [NewRequest EXCEPT !.pc = "load", !.index = index]
           two == [one EXCEPT !.bytes = bytes, !.settings = settings]
           new == [two EXCEPT !.since = now]
<1> HIDE DEF NewRequest
<1>2. one \in RequestRecord /\ one.pc = "load" /\ one.index = index
  <2>1. "load" \in Pcs
    BY DEF Pcs
  <2>2. one \in RequestRecord
    BY <2>1, NewRequestTyped DEF RequestRecord
  <2>3. one.pc = "load"
    BY NewRequestTyped DEF RequestRecord
  <2>4. one.index = index
    BY NewRequestTyped DEF RequestRecord
  <2> QED BY <2>2, <2>3, <2>4
<1>3. [NewRequest EXCEPT !.pc = "load", !.index = index, !.bytes = bytes,
                         !.settings = settings, !.since = now] = new
  BY Zenon
<1> HIDE DEF one
<1>4. two \in RequestRecord
  BY <1>2 DEF RequestRecord
<1>5. two.pc = "load" /\ two.index = index /\ two.bytes = bytes /\ two.settings = settings
  BY <1>2 DEF RequestRecord
<1> HIDE DEF two
<1>6. now \in 0..MaxTime
  BY Unfolded
<1>7. new \in RequestRecord /\ new.since = now
  BY <1>4, <1>6 DEF RequestRecord
<1>8. new.pc = "load" /\ new.index = index /\ new.bytes = bytes /\ new.settings = settings
  BY <1>4, <1>5 DEF RequestRecord
<1> HIDE DEF new
<1>9. now <= now /\ now <= now + Patience
  BY Constants, Unfolded
<1>10. Honest(new)
  BY <1>7, <1>8, <1>9 DEF Honest, Active, HasStore, Completing, Finishing
<1>11. AfterPublication(new) /\ BeforePublication(new)
  BY <1>8 DEF AfterPublication, BeforePublication, Joined, HasStore, Completing, Claimed,
     Written, Filled
<1>12. Good(new)
  BY <1>10, <1>11 DEF Good
<1>13. req' = [req EXCEPT ![r] = new] /\ UNCHANGED <<redis, blob, outside, outcome>>
  BY <1>1, <1>3 DEF Arrive
<1>14. BlobsOnlyGo /\ UNCHANGED <<redis, outside, published, counted>> /\ links' \subseteq Done
  BY <1>13, BlobStays, Unfolded DEF outcome, UploadGood
<1>15. new.pc # "count" /\ new.pc \notin Finishing
  BY <1>8 DEF Finishing
<1> QED BY <1>7, <1>12, <1>13, <1>14, <1>15, Quiet

LEMMA StepLoad ==
    ASSUME ChunkInv, NEW r \in Requests, Load(r)
    PROVE  ChunkInv'
<1>1. req[r].pc = "load" /\ UNCHANGED <<redis, outside, published, counted>> /\ BlobsOnlyGo
  BY BlobStays DEF Load
<1>2. CASE Upload.store = None
  <2>1. Goes(r, "create") /\ links' = links
    BY <1>2 DEF Load
  <2>2. PICK new \in RequestRecord :
            /\ req' = [req EXCEPT ![r] = new] /\ Same(req[r], new)
            /\ new.pc = "create" /\ new.store = req[r].store /\ new.reply = req[r].reply
    BY <2>1, GoesTo DEF Pcs
  <2>3. Good(req[r])
    BY Unfolded
  <2>4. Honest(new)
    BY <1>1, <2>2, <2>3 DEF Good, Honest, Same, Active, HasStore, Completing, Finishing
  <2>5. BeforePublication(new)
    BY <2>2 DEF BeforePublication, HasStore, Completing, Claimed, Written, Filled
  <2>6. Good(new)
    BY <1>2, <2>4, <2>5, NoUploadIsOpen DEF Good
  <2>7. new.pc # "count" /\ new.pc \notin Finishing /\ links' \subseteq Done
    BY <2>1, <2>2, Unfolded DEF Finishing, UploadGood
  <2> QED BY <1>1, <2>2, <2>6, <2>7, Quiet
<1>3. CASE Upload.store # None
  BY <1>1, <1>3, QuietJoins DEF Load
<1> QED BY <1>2, <1>3

(* A step of which nothing but the place in the handler is left.           *)
LEMMA MovesOn ==
    ASSUME ChunkInv, NEW r \in Requests, NEW pc \in Pcs, Goes(r, pc),
           Lawful(req[r].pc, pc), pc # "unlock",
           UNCHANGED <<redis, outside, published, counted>>, links' = links, BlobsOnlyGo
    PROVE  ChunkInv'
<1>1. PICK new \in RequestRecord :
          /\ req' = [req EXCEPT ![r] = new] /\ Same(req[r], new)
          /\ new.pc = pc /\ new.store = req[r].store /\ new.reply = req[r].reply
  BY GoesTo
<1> QED BY <1>1, Proceeds

(* A finishing request goes to its release of the lock without a link.     *)
LEMMA LeavesEmpty ==
    ASSUME ChunkInv, NEW r \in Requests, Leaves(r, "error"), req[r].pc \in Finishing,
           UNCHANGED <<redis, outside, published, counted>>, links' = links, BlobsOnlyGo
    PROVE  ChunkInv'
<1>1. PICK new \in RequestRecord :
          /\ req' = [req EXCEPT ![r] = new] /\ Same(req[r], new)
          /\ new.pc = "unlock" /\ new.store = req[r].store /\ new.reply = "error"
  BY LeavesWith
<1>2. Lawful(req[r].pc, new.pc)
  BY <1>1 DEF Lawful, Claimed, Written, Filled, Completing, Finishing
<1> QED BY <1>1, <1>2, Proceeds

(* The time of a blob is set, and the request goes on.                     *)
LEMMA Touches ==
    ASSUME ChunkInv, NEW r \in Requests, NEW until \in Deadlines, NEW then \in Pcs,
           HasStore(req[r]), blob[req[r].store].there,
           blob' = [blob EXCEPT ![req[r].store].mtime = until],
           Goes(r, then), links' = links, Lawful(req[r].pc, then), then # "unlock",
           UNCHANGED <<redis, outside, published, counted>>
    PROVE  ChunkInv'
<1>1. req[r].store \in Stores
  BY Unfolded DEF Good, Honest, SharedTypeOK
<1>2. BlobsOnlyGo
  BY <1>1, BlobTouched
<1> QED BY <1>2, MovesOn

LEMMA StepBirth ==
    ASSUME ChunkInv, NEW r \in Requests, Birth(r)
    PROVE  ChunkInv'
<1>1. req[r].pc = "birth" /\ HasStore(req[r]) /\ UNCHANGED <<redis, outside, published, counted>>
  BY DEF Birth, HasStore
<1>2. Lawful("birth", "claimupload") /\ "claimupload" \in Pcs
  BY DEF Lawful, Pcs, Claimed, Written, Filled, Completing, Finishing
<1>3. PICK until \in Deadlines : until = now + UploadTTL
  BY Unfolded, DeadlinesFit
<1>4. CASE blob[req[r].store].there
  <2>1. blob' = [blob EXCEPT ![req[r].store].mtime = until] /\ Goes(r, "claimupload")
        /\ links' = links
    BY <1>3, <1>4 DEF Birth, Chtimes
  <2> QED BY <1>1, <1>2, <1>4, <2>1, Touches
<1>5. CASE ~ blob[req[r].store].there
  <2>1. Replies(r, "error") /\ blob' = blob
    BY <1>5 DEF Birth, Chtimes
  <2> QED BY <1>1, <2>1, BlobStays, QuietReply
<1> QED BY <1>4, <1>5

LEMMA StepTouchBlob ==
    ASSUME ChunkInv, NEW r \in Requests, TouchBlob(r)
    PROVE  ChunkInv'
<1>1. req[r].pc = "touch" /\ HasStore(req[r]) /\ UNCHANGED <<redis, outside, published, counted>>
  BY DEF TouchBlob, HasStore
<1>2. Lawful("touch", "pttl") /\ "pttl" \in Pcs
  BY DEF Lawful, Pcs, Claimed, Written, Filled, Completing, Finishing
<1>3. PICK until \in Deadlines : until = now + UploadTTL
  BY Unfolded, DeadlinesFit
<1>4. CASE blob[req[r].store].there
  <2>1. blob' = [blob EXCEPT ![req[r].store].mtime = until] /\ Goes(r, "pttl")
        /\ links' = links
    BY <1>3, <1>4 DEF TouchBlob, Chtimes
  <2> QED BY <1>1, <1>2, <1>4, <2>1, Touches
<1>5. CASE ~ blob[req[r].store].there
  <2>1. Replies(r, "error") /\ blob' = blob
    BY <1>5 DEF TouchBlob, Chtimes
  <2> QED BY <1>1, <2>1, BlobStays, QuietReply
<1> QED BY <1>4, <1>5

LEMMA StepReload ==
    ASSUME ChunkInv, NEW r \in Requests, Reload(r)
    PROVE  ChunkInv'
<1>1. req[r].pc = "reload" /\ UNCHANGED <<redis, outside, published, counted>>
  BY DEF Reload
<1>2. req[r].store \in Stores
  BY <1>1, Unfolded DEF Good, Honest, SharedTypeOK, HasStore
<1>3. BlobsOnlyGo
  BY <1>2, BlobGoes DEF Reload
<1>4. CASE Upload.store = None
  BY <1>1, <1>3, <1>4, QuietReply DEF Reload
<1>5. CASE Upload.store # None
  BY <1>1, <1>3, <1>5, QuietJoins DEF Reload
<1> QED BY <1>4, <1>5

LEMMA StepCheck ==
    ASSUME ChunkInv, NEW r \in Requests, Check(r)
    PROVE  ChunkInv'
<1>1. req[r].pc = "check" /\ UNCHANGED <<redis, outside, published, counted>> /\ BlobsOnlyGo
  BY BlobStays DEF Check
<1>2. CASE Upload.published
  BY <1>1, <1>2, QuietAnswer DEF Check
<1>3. CASE ~ Upload.published
  <2>1. Lawful("check", "write") /\ "write" \in Pcs
    BY <1>3 DEF Lawful, Pcs, Claimed, Written, Filled, Completing, Finishing
  <2> QED BY <1>1, <1>3, <2>1, MovesOn DEF Check
<1> QED BY <1>2, <1>3

LEMMA StepCheck2 ==
    ASSUME ChunkInv, NEW r \in Requests, Check2(r)
    PROVE  ChunkInv'
<1>1. UNCHANGED <<redis, outside, published, counted>> /\ BlobsOnlyGo
  BY BlobStays DEF Check2
<1>2. CASE Upload.published
  BY <1>1, <1>2, QuietAnswer DEF Check2
<1>3. CASE ~ Upload.published
  BY <1>1, <1>3, QuietReply DEF Check2
<1> QED BY <1>2, <1>3

LEMMA Reads ==
    ASSUME ChunkInv, NEW r \in Requests, NEW live \in Pcs, NEW none \in Pcs,
           HasStore(req[r]), PTTL(r, live, none),
           Lawful(req[r].pc, live), Lawful(req[r].pc, none), live # "unlock", none # "unlock",
           UNCHANGED <<redis, blob, outside, outcome>>
    PROVE  ChunkInv'
<1> DEFINE ttl == record[req[r].store] - now
<1>1. UNCHANGED <<redis, outside, published, counted>> /\ links' = links /\ BlobsOnlyGo
  BY BlobStays DEF outcome
<1>2. CASE RecordLive(req[r].store) /\ ttl > 0
  <2>1. req[r].store \in Stores /\ req \in [Requests -> RequestRecord]
    BY Unfolded DEF Good, Honest, SharedTypeOK
  <2>2. record[req[r].store] \in Nat /\ now \in Nat
        /\ record[req[r].store] <= now + Lifetime
    BY <2>1, Unfolded, DeadlinesFit DEF StoreGood, SharedTypeOK
  <2>3. ttl \in 0..Lifetime
    BY <1>2, <2>2, Constants
  <2> DEFINE one == [req[r] EXCEPT !.ttl = ttl]
             new == [one EXCEPT !.pc = live]
  <2>4. req' = [req EXCEPT ![r] = new]
    BY <1>2, <2>1 DEF PTTL
  <2> HIDE DEF ttl
  <2>5. one \in RequestRecord
    BY <2>1, <2>3 DEF RequestRecord
  <2>6. Same(req[r], one) /\ one.store = req[r].store
    BY <2>1 DEF RequestRecord, Same
  <2> HIDE DEF one
  <2>7. new \in RequestRecord /\ Same(req[r], new) /\ new.pc = live /\ new.store = req[r].store
    BY <2>5, <2>6 DEF RequestRecord, Same
  <2> HIDE DEF new
  <2> QED BY <1>1, <2>4, <2>7, Proceeds
<1>3. CASE ~ (RecordLive(req[r].store) /\ ttl > 0)
  <2>1. Goes(r, none)
    BY <1>3 DEF PTTL
  <2> QED BY <1>1, <2>1, MovesOn
<1> QED BY <1>2, <1>3

LEMMA StepRestorePTTL ==
    ASSUME ChunkInv, NEW r \in Requests, RestorePTTL(r)
    PROVE  ChunkInv'
<1>1. req[r].pc = "pttl" /\ HasStore(req[r])
  BY DEF RestorePTTL, HasStore
<1>2. Lawful("pttl", "restore") /\ Lawful("pttl", "sadd") /\ "restore" \in Pcs /\ "sadd" \in Pcs
  BY DEF Lawful, Pcs, Claimed, Written, Filled, Completing, Finishing
<1> QED BY <1>1, <1>2, Reads DEF RestorePTTL

LEMMA StepFinPTTL ==
    ASSUME ChunkInv, NEW r \in Requests, FinPTTL(r)
    PROVE  ChunkInv'
<1>1. req[r].pc = "finpttl" /\ HasStore(req[r])
  BY DEF FinPTTL, HasStore
<1>2. Lawful("finpttl", "finrestore") /\ Lawful("finpttl", "publish")
      /\ "finrestore" \in Pcs /\ "publish" \in Pcs
  BY DEF Lawful, Pcs, Claimed, Written, Filled, Completing, Finishing
<1> QED BY <1>1, <1>2, Reads DEF FinPTTL

(* The deadlines a blob is given back.                                     *)
LEMMA LaterFits ==
    ASSUME ChunkInv, NEW r \in Requests
    PROVE  now + req[r].ttl \in Deadlines /\ req[r].began + Lifetime \in Deadlines
BY Unfolded, DeadlinesFit DEF RequestRecord

LEMMA StepRestore ==
    ASSUME ChunkInv, NEW r \in Requests, Restore(r)
    PROVE  ChunkInv'
<1>1. req[r].pc = "restore" /\ HasStore(req[r])
      /\ UNCHANGED <<redis, outside, published, counted>>
  BY DEF Restore, HasStore
<1>2. Lawful("restore", "sadd") /\ "sadd" \in Pcs
  BY DEF Lawful, Pcs, Claimed, Written, Filled, Completing, Finishing
<1>3. PICK until \in Deadlines : until = now + req[r].ttl
  BY LaterFits
<1>4. Goes(r, "sadd") /\ links' = links
  BY DEF Restore, Chtimes
<1>5. CASE blob[req[r].store].there
  <2>1. blob' = [blob EXCEPT ![req[r].store].mtime = until]
    BY <1>3, <1>5 DEF Restore, Chtimes
  <2> QED BY <1>1, <1>2, <1>4, <1>5, <2>1, Touches
<1>6. CASE ~ blob[req[r].store].there
  <2>1. BlobsOnlyGo
    BY <1>6, BlobStays DEF Restore, Chtimes
  <2> QED BY <1>1, <1>2, <1>4, <2>1, MovesOn
<1> QED BY <1>5, <1>6

LEMMA StepFinRestore ==
    ASSUME ChunkInv, NEW r \in Requests, FinRestore(r)
    PROVE  ChunkInv'
<1>1. req[r].pc = "finrestore" /\ HasStore(req[r])
      /\ UNCHANGED <<redis, outside, published, counted>>
  BY DEF FinRestore, HasStore
<1>2. Lawful("finrestore", "publish") /\ "publish" \in Pcs
  BY DEF Lawful, Pcs, Claimed, Written, Filled, Completing, Finishing
<1>3. PICK until \in Deadlines : until = now + req[r].ttl
  BY LaterFits
<1>4. Goes(r, "publish") /\ links' = links
  BY DEF FinRestore, Chtimes
<1>5. CASE blob[req[r].store].there
  <2>1. blob' = [blob EXCEPT ![req[r].store].mtime = until]
    BY <1>3, <1>5 DEF FinRestore, Chtimes
  <2> QED BY <1>1, <1>2, <1>4, <1>5, <2>1, Touches
<1>6. CASE ~ blob[req[r].store].there
  <2>1. BlobsOnlyGo
    BY <1>6, BlobStays DEF FinRestore, Chtimes
  <2> QED BY <1>1, <1>2, <1>4, <2>1, MovesOn
<1> QED BY <1>5, <1>6

LEMMA StepFinTouch ==
    ASSUME ChunkInv, NEW r \in Requests, FinTouch(r)
    PROVE  ChunkInv'
<1>1. req[r].pc = "fintouch" /\ HasStore(req[r])
      /\ UNCHANGED <<redis, outside, published, counted>>
  BY DEF FinTouch, HasStore
<1>2. Lawful("fintouch", "publish") /\ "publish" \in Pcs
      /\ Lawful("fintouch", "finundo") /\ "finundo" \in Pcs
  BY DEF Lawful, Pcs, Claimed, Written, Filled, Completing, Finishing
<1>3. PICK until \in Deadlines : until = req[r].began + Lifetime
  BY LaterFits
<1>4. CASE blob[req[r].store].there
  <2>1. blob' = [blob EXCEPT ![req[r].store].mtime = until]
        /\ Goes(r, "publish") /\ links' = links
    BY <1>3, <1>4 DEF FinTouch, Chtimes
  <2> QED BY <1>1, <1>2, <1>4, <2>1, Touches
<1>5. CASE ~ blob[req[r].store].there
  <2>1. Goes(r, "finundo") /\ links' = links /\ BlobsOnlyGo
    BY <1>5, BlobStays DEF FinTouch, Chtimes
  <2> QED BY <1>1, <1>2, <2>1, MovesOn
<1> QED BY <1>4, <1>5

LEMMA StepAdopt ==
    ASSUME ChunkInv, NEW r \in Requests, Adopt(r)
    PROVE  ChunkInv'
<1>1. req[r].pc = "adopt" /\ UNCHANGED <<redis, outside, published, counted>>
      /\ links' = links /\ BlobsOnlyGo
  BY BlobStays DEF Adopt, outcome
<1>2. Lawful("adopt", "finpttl") /\ "finpttl" \in Pcs /\ "adopt" \in Finishing
  BY DEF Lawful, Pcs, Claimed, Written, Filled, Completing, Finishing
<1>3. CASE Goes(r, "finpttl")
  BY <1>1, <1>2, <1>3, MovesOn
<1>4. CASE Leaves(r, "error")
  BY <1>1, <1>2, <1>4, LeavesEmpty
<1> QED BY <1>3, <1>4 DEF Adopt

LEMMA StepFinLoad ==
    ASSUME ChunkInv, NEW r \in Requests, FinLoad(r)
    PROVE  ChunkInv'
<1>1. req[r].pc = "finload" /\ UNCHANGED <<redis, outside, published, counted>>
      /\ links' = links /\ BlobsOnlyGo /\ req \in [Requests -> RequestRecord] /\ Good(req[r])
  BY BlobStays, Unfolded DEF FinLoad, outcome
<1>2. CASE Upload.published
  <2> DEFINE one == [req[r] EXCEPT !.pc = "unlock"]
             two == [one EXCEPT !.reply = "id"]
             new == [two EXCEPT !.store = Upload.store]
  <2>1. req' = [req EXCEPT ![r] = new]
    BY <1>1, <1>2 DEF FinLoad
  <2>2. one \in RequestRecord /\ Same(req[r], one) /\ one.pc = "unlock"
    BY <1>1 DEF RequestRecord, Same, Pcs, Finishing
  <2> HIDE DEF one
  <2>3. two \in RequestRecord /\ Same(req[r], two) /\ two.pc = "unlock" /\ two.reply = "id"
    BY <2>2 DEF RequestRecord, Same
  <2> HIDE DEF two
  <2>4. Upload.store \in Done /\ Upload.store \in drawn
    BY <1>2, PublishedIsDone, FoundUpload, NoneAssumption DEF Done
  <2>5. new \in RequestRecord /\ Same(req[r], new) /\ new.pc = "unlock"
        /\ new.store = Upload.store
    BY <2>3, <2>4 DEF RequestRecord, Same, Done
  <2> HIDE DEF new
  <2>6. Honest(new)
    BY <1>1, <2>4, <2>5 DEF Good, Honest, Same, Active, HasStore, Completing, Finishing
  <2>7. AfterPublication(new)
    BY <1>1, <1>2, <2>5 DEF Good, AfterPublication, Same, Joined, Completing
  <2>8. Good(new) /\ new.pc # "count" /\ "finload" \in Finishing /\ links' \subseteq Done
    BY <1>1, <1>2, <2>5, <2>6, <2>7, Unfolded DEF Good, Finishing, UploadGood
  <2> QED BY <1>1, <2>1, <2>5, <2>8, Quiet
<1>3. CASE ~ Upload.published
  <2> DEFINE one == [req[r] EXCEPT !.pc = "finhashes"]
             new == [one EXCEPT !.reply = "none"]
  <2>1. req' = [req EXCEPT ![r] = new]
    BY <1>1, <1>3 DEF FinLoad, RequestRecord
  <2>2. one \in RequestRecord /\ Same(req[r], one) /\ one.pc = "finhashes"
        /\ one.store = req[r].store
    BY <1>1 DEF RequestRecord, Same, Pcs, Finishing
  <2> HIDE DEF one
  <2>3. new \in RequestRecord /\ Same(req[r], new) /\ new.pc = "finhashes"
        /\ new.store = req[r].store
    BY <2>2 DEF RequestRecord, Same
  <2> HIDE DEF new
  <2>4. Lawful("finload", "finhashes")
    BY <1>3 DEF Lawful, Claimed, Written, Filled, Completing, Finishing
  <2> QED BY <1>1, <2>1, <2>3, <2>4, Proceeds
<1> QED BY <1>2, <1>3

LEMMA StepFinHashes ==
    ASSUME ChunkInv, NEW r \in Requests, FinHashes(r)
    PROVE  ChunkInv'
<1>1. req[r].pc = "finhashes" /\ UNCHANGED <<redis, outside, published, counted>>
      /\ links' = links /\ BlobsOnlyGo /\ req \in [Requests -> RequestRecord] /\ Good(req[r])
  BY BlobStays, Unfolded DEF FinHashes, outcome
<1>2. CASE None \in {Hashes[c] : c \in Chunks}
  BY <1>1, <1>2, LeavesEmpty DEF FinHashes, Finishing
<1>3. CASE None \notin {Hashes[c] : c \in Chunks}
  <2> DEFINE zero == [req[r] EXCEPT !.pc = "finset"]
             one == [zero EXCEPT !.hashes = Hashes]
             new == [one EXCEPT !.began = now]
  <2>1. req' = [req EXCEPT ![r] = new]
    BY <1>1, <1>3 DEF FinHashes, RequestRecord
  <2>2. Hashes \in ChunkBytes /\ now \in 0..MaxTime
    BY Unfolded, UnsetTyped DEF Hashes, SharedTypeOK
  <2>3. zero \in RequestRecord /\ zero.pc = "finset" /\ Same(req[r], zero)
        /\ zero.store = req[r].store
    BY <1>1 DEF RequestRecord, Pcs, Finishing, Same
  <2> HIDE DEF zero
  <2>4. one \in RequestRecord
    BY <2>2, <2>3 DEF RequestRecord
  <2>5. one.pc = "finset" /\ one.hashes = Hashes /\ one.index = req[r].index
        /\ one.bytes = req[r].bytes /\ one.settings = req[r].settings
        /\ one.since = req[r].since /\ one.store = req[r].store
    BY <2>3 DEF RequestRecord, Same
  <2> HIDE DEF one
  <2>6. new \in RequestRecord /\ new.began = now
    BY <2>2, <2>4 DEF RequestRecord
  <2>7. new.pc = "finset" /\ new.hashes = Hashes /\ new.index = req[r].index
        /\ new.bytes = req[r].bytes /\ new.settings = req[r].settings
        /\ new.since = req[r].since /\ new.store = req[r].store
    BY <2>4, <2>5 DEF RequestRecord
  <2> HIDE DEF new
  <2>8. Honest(new)
    BY <1>1, <2>6, <2>7 DEF Good, Honest, Active, HasStore, Completing, Finishing
  <2>9. ~ Upload.published
    BY <1>1 DEF Good, AfterPublication
  <2>10. BeforePublication(req[r])
    BY <1>1, <2>9 DEF Good
  <2>11. BeforePublication(new)
    <3>1. HasStore(req[r]) /\ req[r].pc \in Filled
      BY <1>1 DEF HasStore, Filled
    <3>2. \A c \in Chunks : Hashes[c] # None
      BY <1>3
    <3>3. new.pc \notin Claimed /\ new.pc \notin Written
      BY <2>7 DEF Claimed, Written
    <3> QED BY <2>7, <2>10, <3>1, <3>2, <3>3 DEF BeforePublication
  <2>12. Good(new) /\ new.pc # "count" /\ "finhashes" \in Finishing /\ links' \subseteq Done
    BY <1>1, <2>7, <2>8, <2>9, <2>11, Unfolded DEF Good, Finishing, UploadGood
  <2> QED BY <1>1, <2>1, <2>6, <2>12, Quiet
<1> QED BY <1>2, <1>3

LEMMA StepFailed ==
    ASSUME ChunkInv, NEW r \in Requests, Failed(r)
    PROVE  ChunkInv'
<1> DEFINE p == req[r].pc
<1>1. UNCHANGED <<redis, outside, published, counted>> /\ p \notin {"new", "done"}
      /\ Good(req[r])
  BY Unfolded DEF Failed
<1>2. BlobsOnlyGo
  <2>1. CASE p \in {"birth", "claimupload", "reload"}
    <3>1. blob' = [blob EXCEPT ![req[r].store] = NoBlob]
      BY <2>1 DEF Failed
    <3>2. HasStore(req[r])
      BY <2>1 DEF HasStore
    <3>3. req[r].store \in Stores
      BY <1>1, <3>2, Unfolded DEF Good, Honest, SharedTypeOK
    <3> QED BY <3>1, <3>3, BlobGoes
  <2>2. CASE p \notin {"birth", "claimupload", "reload"}
    BY <2>2, BlobStays DEF Failed
  <2> QED BY <2>1, <2>2
<1>3. CASE p = "fintouch"
  <2>1. Goes(r, "finundo") /\ links' = links
    BY <1>3 DEF Failed
  <2>2. Lawful(p, "finundo") /\ "finundo" \in Pcs
    BY <1>3 DEF Lawful, Pcs, Claimed, Written, Filled, Completing, Finishing
  <2> QED BY <1>1, <1>2, <2>1, <2>2, MovesOn
<1>4. CASE p = "count"
  <2>1. Leaves(r, "id") /\ links' = links
    BY <1>4 DEF Failed
  <2>2. PICK new \in RequestRecord :
            /\ req' = [req EXCEPT ![r] = new] /\ Same(req[r], new)
            /\ new.pc = "unlock" /\ new.store = req[r].store /\ new.reply = "id"
    BY <2>1, LeavesWith
  <2>3. Lawful(p, new.pc)
    BY <1>4, <2>2 DEF Lawful, Claimed, Written, Filled, Completing, Finishing
  <2>4. new.store \in Done
    BY <1>1, <1>4, <2>2 DEF Good, Honest
  <2> QED BY <1>1, <1>2, <2>1, <2>2, <2>3, <2>4, Proceeds
<1>5. CASE p = "unlock" /\ req[r].reply = "id"
  <2>1. PICK store \in Done : store = req[r].store
    BY <1>1, <1>5 DEF Good, Honest
  <2>2. RepliesId(r, store)
    BY <1>5, <2>1 DEF Failed
  <2> QED BY <1>1, <1>2, <2>2, QuietReplyId
<1>6. CASE p = "unlock" /\ req[r].reply # "id"
  <2>1. Replies(r, "error")
    BY <1>6 DEF Failed
  <2> QED BY <1>1, <1>2, <2>1, QuietReply
<1>7. CASE p \in Finishing \ {"fintouch", "count", "unlock"}
  <2>1. Leaves(r, "error") /\ links' = links
    BY <1>7 DEF Failed
  <2> QED BY <1>1, <1>2, <1>7, <2>1, LeavesEmpty
<1>8. CASE p \notin Finishing
  <2>1. Replies(r, "error")
    BY <1>8 DEF Failed, Finishing
  <2> QED BY <1>1, <1>2, <2>1, QuietReply
<1> QED BY <1>3, <1>4, <1>5, <1>6, <1>7, <1>8

------------------------------------------------------------------------------
(* The steps that change a key.                                            *)

(* Where a request has a blob of its own.                                  *)
LEMMA OwnStore ==
    ASSUME ChunkInv, NEW r \in Requests, HasStore(req[r])
    PROVE  req[r].store \in Stores /\ req[r].store \in drawn
BY Unfolded DEF Good, Honest, SharedTypeOK

LEMMA StepCreate ==
    ASSUME ChunkInv, NEW r \in Requests, NEW store \in Stores, Create(r, store)
    PROVE  ChunkInv'
<1>1. req[r].pc = "create" /\ store \notin drawn /\ drawn' = drawn \cup {store}
      /\ blob' = [blob EXCEPT ![store] = [NoBlob EXCEPT !.there = TRUE, !.mtime = now]]
      /\ now' = now /\ upload' = upload /\ hashes' = hashes /\ chunks' = chunks /\ lock' = lock
      /\ record' = record /\ published' = published /\ counted' = counted /\ links' = links
      /\ doomed' = doomed /\ leaving' = leaving
  BY DEF Create, redis, outcome
<1>2. SharedTypeOK /\ UploadGood /\ req \in [Requests -> RequestRecord] /\ Good(req[r])
      /\ \A s \in Stores : StoreGood(s)
  BY Unfolded
<1>3. PICK new \in RequestRecord :
          /\ req' = [req EXCEPT ![r] = new]
          /\ Same(req[r], new) /\ new.pc = "birth" /\ new.store = store
  <2> DEFINE one == [req[r] EXCEPT !.pc = "birth"]
             next == [one EXCEPT !.store = store]
  <2>1. req' = [req EXCEPT ![r] = next]
    BY <1>2 DEF Create
  <2>2. one \in RequestRecord /\ Same(req[r], one) /\ one.pc = "birth"
    BY <1>2 DEF RequestRecord, Same, Pcs
  <2> HIDE DEF one
  <2>3. next \in RequestRecord /\ Same(req[r], next) /\ next.pc = "birth" /\ next.store = store
    BY <2>2 DEF RequestRecord, Same
  <2> HIDE DEF next
  <2> QED BY <2>1, <2>3
<1>4. new.index = req[r].index /\ new.bytes = req[r].bytes /\ new.settings = req[r].settings
      /\ new.since = req[r].since
  BY <1>3 DEF Same
<1>5. new.pc = "birth" /\ new.store = store
  BY <1>3
<1>6. blob' \in [Stores -> Blob] /\ \A s \in Stores \ {store} : blob'[s] = blob[s]
  <2> HIDE DEF NoBlob
  <2> DEFINE empty == [NoBlob EXCEPT !.there = TRUE, !.mtime = now]
  <2>1. now \in Deadlines
    BY Unfolded, DeadlinesFit
  <2>2. empty \in Blob
    BY <2>1, NoBlobTyped DEF Blob
  <2>3. blob' = [blob EXCEPT ![store] = empty] /\ blob \in [Stores -> Blob]
    BY <1>1, <1>2 DEF SharedTypeOK, Blob
  <2> HIDE DEF empty
  <2> QED BY <2>2, <2>3
<1>7. SharedTypeOK'
  BY <1>1, <1>2, <1>6 DEF SharedTypeOK, Blob
<1>8. UploadGood'
  BY <1>1, <1>2, UploadKept DEF UploadGood
<1>9. ASSUME NEW s \in Stores PROVE StoreGood(s)'
  <2>1. StoreGood(s) /\ record'[s] <= now + Lifetime
    BY <1>1, <1>2 DEF StoreGood
  <2>2. CASE s # store
    <3>1. blob'[s] = blob[s] /\ (s \notin drawn => record'[s] = 0)
      BY <1>1, <1>6, <2>1, <2>2 DEF StoreGood
    <3> QED BY <1>1, <2>1, <2>2, <3>1, StoreKept
  <2>3. CASE s = store
    <3>1. chunks[s].got = {} /\ published[s] = Unset /\ chunks[s].deadline <= now + UploadTTL
      BY <1>1, <2>1, <2>3 DEF StoreGood
    <3>2. Received(s)' = {}
      BY <1>1, <3>1 DEF Received
    <3>3. Counted(s)'
      BY <3>2 DEF Counted
    <3>4. s \notin Done' /\ s \in drawn'
      BY <1>1, <2>3, <3>1 DEF Done
    <3>5. Upload' = Upload
      BY <1>1, SameKeys
    <3> QED BY <1>1, <2>1, <3>1, <3>3, <3>4, <3>5 DEF StoreGood
  <2> QED BY <2>2, <2>3
<1>10. new.pc # "count" /\ new.pc \notin Finishing
  BY <1>5 DEF Finishing
<1>11. CountKept'
  <2>1. Counting' \subseteq Counting
    BY <1>3, <1>5, <1>10, NotCounting
  <2> QED BY <1>1, <2>1, CountStays
<1>12. \A w \in Requests \ {r} : \A q : q = req[w] => Good(q)'
  <2>1. ASSUME NEW w \in Requests \ {r}, NEW q, q = req[w] PROVE Good(q)'
    <3>1. q \in RequestRecord /\ Good(q)
      BY <2>1, Unfolded
    <3>2. \A s \in drawn : blob'[s] = blob[s]
      BY <1>1, <1>2, <1>6 DEF SharedTypeOK
    <3> QED BY <1>1, <3>1, <3>2, GoodKept
  <2> QED BY <2>1
<1>13. Good(new)'
  <2>1. Upload' = Upload
    BY <1>1, SameKeys
  <2>2. Honest(new)'
    BY <1>1, <1>2, <1>4, <1>5 DEF Good, Honest, Active, HasStore, Completing, Finishing
  <2>3. published[store] = Unset
    BY <1>1, <1>2 DEF StoreGood
  <2>4. CASE Upload.published
    BY <1>1, <1>2, <1>4, <1>5, <2>1, <2>2, <2>4
    DEF Good, AfterPublication, Joined, Completing
  <2>5. CASE ~ Upload.published
    BY <1>1, <1>5, <2>1, <2>2, <2>3, <2>5
    DEF Good, BeforePublication, Claimed, Written, Filled, Completing
  <2> QED BY <2>4, <2>5
<1> QED BY <1>3, <1>7, <1>8, <1>9, <1>10, <1>11, <1>12, <1>13, Moves

(* A step of one request that changes the lock, a record or the counter.   *)
LEMMA Signs ==
    ASSUME ChunkInv, NEW r \in Requests, NEW new \in RequestRecord,
           req' = [req EXCEPT ![r] = new], Good(new)',
           new.pc \in Finishing =>
               req[r].pc \in Finishing \/ \A w \in Requests : req[w].pc \notin Finishing,
           UNCHANGED <<upload, hashes, chunks, blob, outside, published>>,
           record' \in [Stores -> Deadlines],
           \A s \in Stores : record'[s] <= now + Lifetime /\ (s \notin drawn => record'[s] = 0),
           lock' \in Deadlines,
           \A w \in Requests \ {r} : req[w].pc \in Finishing => lock' = lock,
           counted' \in Nat, CountKept', links' \subseteq Done
    PROVE  ChunkInv'
<1>1. now' = now /\ upload' = upload /\ hashes' = hashes /\ chunks' = chunks /\ blob' = blob
      /\ drawn' = drawn /\ published' = published /\ doomed' = doomed /\ leaving' = leaving
  BY DEF outside
<1>2. SharedTypeOK /\ UploadGood /\ \A s \in Stores : StoreGood(s)
  BY Unfolded
<1>3. Done \subseteq drawn
  BY <1>2 DEF StoreGood, Done
<1>4. SharedTypeOK'
  BY <1>1, <1>2, <1>3 DEF SharedTypeOK
<1>5. UploadGood'
  BY <1>1, <1>2, UploadKept
<1>6. \A s \in Stores : StoreGood(s)'
  BY <1>1, <1>2, StoreKept
<1>7. \A w \in Requests \ {r} : \A q : q = req[w] => Good(q)'
  <2>1. ASSUME NEW w \in Requests \ {r}, NEW q, q = req[w] PROVE Good(q)'
    <3>1. q \in RequestRecord /\ Good(q) /\ (q.pc \in Finishing => lock' = lock)
      BY <2>1, Unfolded
    <3> QED BY <1>1, <3>1, GoodKept
  <2> QED BY <2>1
<1> QED BY <1>4, <1>5, <1>6, <1>7, Moves

(* Nobody else is finishing when one request is.                           *)
LEMMA OthersAreNot ==
    ASSUME ChunkInv, NEW r \in Requests, req[r].pc \in Finishing
    PROVE  \A w \in Requests \ {r} : req[w].pc \notin Finishing
BY Unfolded DEF OneFinisher

(* A finishing request sets or deletes the record of its file.             *)
LEMMA SetsRecord ==
    ASSUME ChunkInv, NEW r \in Requests, req[r].pc \in Finishing, HasStore(req[r]),
           NEW new \in RequestRecord, req' = [req EXCEPT ![r] = new], Same(req[r], new),
           Lawful(req[r].pc, new.pc), new.store = req[r].store,
           new.pc = "unlock" /\ new.reply = "id" => new.store \in Done,
           NEW d \in Deadlines, d <= now + Lifetime,
           record' = [record EXCEPT ![req[r].store] = d],
           UNCHANGED <<upload, hashes, chunks, lock, blob, outside, outcome>>
    PROVE  ChunkInv'
<1>1. SharedTypeOK /\ UploadGood /\ req[r] \in RequestRecord /\ Good(req[r])
      /\ \A s \in Stores : StoreGood(s)
  BY Unfolded
<1>2. Good(new)
  BY <1>1, GoodMoved
<1>3. now' = now /\ upload' = upload /\ hashes' = hashes /\ chunks' = chunks /\ lock' = lock
      /\ drawn' = drawn /\ published' = published /\ blob' = blob /\ links' = links
      /\ counted' = counted
  BY DEF outside, outcome
<1>4. Good(new)'
  BY <1>2, <1>3, GoodKept
<1>5. record' \in [Stores -> Deadlines]
  BY <1>1 DEF SharedTypeOK
<1>6. \A s \in Stores : record'[s] <= now + Lifetime /\ (s \notin drawn => record'[s] = 0)
  BY <1>1, OwnStore DEF StoreGood, SharedTypeOK
<1>7. new.pc # "count" /\ lock \in Deadlines /\ counted \in Nat /\ links \subseteq Done
  BY <1>1 DEF Lawful, SharedTypeOK, UploadGood
<1>8. CountKept'
  <2>1. Counting' \subseteq Counting
    BY <1>7, NotCounting
  <2> QED BY <1>3, <2>1, CountStays
<1> QED BY <1>3, <1>4, <1>5, <1>6, <1>7, <1>8, Signs

LEMMA StepFinSet ==
    ASSUME ChunkInv, NEW r \in Requests, FinSet(r)
    PROVE  ChunkInv'
<1>1. req[r].pc = "finset" /\ HasStore(req[r]) /\ "finset" \in Finishing
      /\ UNCHANGED <<upload, hashes, chunks, lock, blob, outside, outcome>>
  BY DEF FinSet, HasStore, Finishing
<1>2. /\ Lawful("finset", "adopt") /\ "adopt" \in Pcs
      /\ Lawful("finset", "fintouch") /\ "fintouch" \in Pcs
      /\ Lawful("finset", "unlock")
  BY DEF Lawful, Pcs, Claimed, Written, Filled, Completing, Finishing
<1>3. CASE RecordLive(req[r].store)
  <2>1. Goes(r, "adopt") /\ record' = record
    BY <1>3 DEF FinSet
  <2>2. UNCHANGED <<redis, outside, published, counted>> /\ links' = links /\ BlobsOnlyGo
    BY <1>1, <2>1, BlobStays DEF redis, outcome
  <2> QED BY <1>1, <1>2, <2>1, <2>2, MovesOn
<1>4. CASE ~ RecordLive(req[r].store)
  <2>1. PICK d \in Deadlines : d = now + Lifetime
    BY Unfolded, DeadlinesFit
  <2>2. record' = [record EXCEPT ![req[r].store] = d] /\ d <= now + Lifetime
    BY <1>4, <2>1, Unfolded, Constants DEF FinSet
  <2>3. CASE Goes(r, "fintouch")
    <3>1. PICK new \in RequestRecord :
              /\ req' = [req EXCEPT ![r] = new] /\ Same(req[r], new)
              /\ new.pc = "fintouch" /\ new.store = req[r].store /\ new.reply = req[r].reply
      BY <1>2, <2>3, GoesTo
    <3> QED BY <1>1, <1>2, <2>2, <3>1, SetsRecord
  <2>4. CASE Leaves(r, "error")
    <3>1. PICK new \in RequestRecord :
              /\ req' = [req EXCEPT ![r] = new] /\ Same(req[r], new)
              /\ new.pc = "unlock" /\ new.store = req[r].store /\ new.reply = "error"
      BY <2>4, LeavesWith
    <3> QED BY <1>1, <1>2, <2>2, <3>1, SetsRecord
  <2> QED BY <1>4, <2>3, <2>4 DEF FinSet
<1> QED BY <1>3, <1>4

LEMMA StepFinUndo ==
    ASSUME ChunkInv, NEW r \in Requests, FinUndo(r)
    PROVE  ChunkInv'
<1>1. req[r].pc = "finundo" /\ HasStore(req[r]) /\ "finundo" \in Finishing
      /\ UNCHANGED <<upload, hashes, chunks, lock, blob, outside, outcome>>
  BY DEF FinUndo, HasStore, Finishing
<1>2. Lawful("finundo", "unlock")
  BY DEF Lawful, Claimed, Written, Filled, Completing, Finishing
<1>3. 0 \in Deadlines /\ 0 <= now + Lifetime
  BY Unfolded, DeadlinesFit, Constants
<1>4. record' = [record EXCEPT ![req[r].store] = 0] /\ Leaves(r, "error")
  BY DEF FinUndo
<1>5. PICK new \in RequestRecord :
          /\ req' = [req EXCEPT ![r] = new] /\ Same(req[r], new)
          /\ new.pc = "unlock" /\ new.store = req[r].store /\ new.reply = "error"
  BY <1>4, LeavesWith
<1> QED BY <1>1, <1>2, <1>3, <1>4, <1>5, SetsRecord

(* The lock keeps others out for as long as its request may take.          *)
LEMMA StepLock ==
    ASSUME ChunkInv, HoldersKeepTheirLock, NEW r \in Requests, Lock(r)
    PROVE  ChunkInv'
<1>1. req[r].pc = "lock" /\ UNCHANGED <<upload, hashes, chunks, record, blob, outside>>
      /\ UNCHANGED <<published, counted>>
  BY DEF Lock
<1>2. SharedTypeOK /\ UploadGood /\ req[r] \in RequestRecord /\ Good(req[r])
      /\ \A s \in Stores : StoreGood(s)
  BY Unfolded
<1>3. CASE Locked
  <2>1. Replies(r, "retry") /\ UNCHANGED <<redis, outside, published, counted>> /\ BlobsOnlyGo
    BY <1>1, <1>3, BlobStays DEF Lock, redis
  <2> QED BY <2>1, QuietReply
<1>4. CASE ~ Locked
  <2>1. lock' = now + LockTTL /\ now' = now /\ drawn' = drawn
    BY <1>1, <1>4 DEF Lock, outside
  <2>2. lock' \in Deadlines /\ lock' # 0 /\ now \in Nat /\ lock \in Nat
    <3>1. now \in 0..MaxTime /\ now \in Nat /\ lock \in Deadlines
      BY <1>2, Unfolded DEF SharedTypeOK
    <3>2. lock \in Nat /\ now + LockTTL \in Deadlines
      BY <3>1, DeadlinesFit
    <3> QED BY <2>1, <3>1, <3>2, Constants
  <2>3. \A w \in Requests : req[w].pc \notin Finishing
    BY <1>4 DEF HoldersKeepTheirLock
  <2>4. record' \in [Stores -> Deadlines]
        /\ \A s \in Stores : record'[s] <= now + Lifetime /\ (s \notin drawn => record'[s] = 0)
    BY <1>1, <1>2 DEF SharedTypeOK, StoreGood
  <2>5. ASSUME NEW new \in RequestRecord, req' = [req EXCEPT ![r] = new], Good(new)',
               new.pc # "count", links' = links
        PROVE  ChunkInv'
    <3>1. Counting' \subseteq Counting
      BY <2>5, NotCounting
    <3>2. CountKept'
      BY <1>1, <3>1, CountStays
    <3>3. counted' \in Nat /\ links' \subseteq Done
      BY <1>1, <1>2, <2>5 DEF SharedTypeOK, UploadGood
    <3>4. UNCHANGED <<upload, hashes, chunks, blob, outside, published>>
      BY <1>1
    <3> QED BY <2>2, <2>3, <2>4, <2>5, <3>2, <3>3, <3>4, Signs
  <2>6. CASE Goes(r, "finload") /\ links' = links
    <3>1. PICK new \in RequestRecord :
              /\ req' = [req EXCEPT ![r] = new] /\ Same(req[r], new)
              /\ new.pc = "finload" /\ new.store = req[r].store /\ new.reply = req[r].reply
      BY <2>6, GoesTo DEF Pcs, Finishing
    <3>2. new.index = req[r].index /\ new.bytes = req[r].bytes /\ new.since = req[r].since
          /\ new.settings = req[r].settings
      BY <3>1 DEF Same
    <3>3. new.since <= now /\ now <= new.since + Patience /\ new.store \in drawn
          /\ new.index \in Chunks /\ new.bytes \in Bytes /\ new.settings \in Settings
      BY <1>1, <1>2, <3>1, <3>2 DEF Good, Honest, Active, HasStore
    <3>4. Patience <= LockTTL => new.since + Patience <= lock'
      BY <2>1, <2>2, <3>3, Constants, DeadlinesFit DEF RequestRecord
    <3>5. Honest(new)'
      BY <2>1, <2>2, <3>1, <3>3, <3>4 DEF Honest, Active, HasStore, Completing, Finishing
    <3>6. Upload' = Upload /\ Hashes' = Hashes
      BY <1>1, <2>1, SameKeys
    <3>7. ASSUME Upload.published PROVE Good(new)'
      <4>1. new.since + UploadTTL <= upload.deadline
        BY <1>1, <1>2, <3>2, <3>7 DEF Good, AfterPublication, Joined
      <4>2. upload' = upload /\ Upload'.published
        BY <1>1, <3>6, <3>7
      <4>3. new.pc \notin {"finhashes", "write"} /\ new.pc \notin Completing
        BY <3>1 DEF Completing
      <4>4. AfterPublication(new)'
        BY <4>1, <4>2, <4>3 DEF AfterPublication
      <4> QED BY <3>5, <4>2, <4>4 DEF Good
    <3>8. ASSUME ~ Upload.published PROVE Good(new)'
      <4>1. published[new.store] = Unset /\ chunks[new.store].got = Chunks
            /\ new.since + UploadTTL <= chunks[new.store].deadline
        BY <1>1, <1>2, <3>1, <3>2, <3>8 DEF Good, BeforePublication, HasStore, Filled
      <4>2. chunks' = chunks /\ published' = published /\ ~ Upload'.published
        BY <1>1, <3>6, <3>8
      <4>3. new.pc \notin Claimed /\ new.pc \notin Written /\ new.pc \notin Completing
        BY <3>1 DEF Claimed, Written, Completing
      <4>4. BeforePublication(new)'
        BY <4>1, <4>2, <4>3 DEF BeforePublication
      <4> QED BY <3>5, <4>2, <4>4 DEF Good
    <3> QED BY <2>5, <2>6, <3>1, <3>7, <3>8
  <2>7. CASE Replies(r, "error")
    <3>1. PICK new : new = [NewRequest EXCEPT !.pc = "done", !.reply = "error"]
      OBVIOUS
    <3>2. new \in RequestRecord /\ new.pc = "done" /\ Good(new)'
      BY <3>1, Leave
    <3>3. req' = [req EXCEPT ![r] = new] /\ links' = links
      BY <2>7, <3>1 DEF Replies
    <3> QED BY <2>5, <3>2, <3>3
  <2> QED BY <1>4, <2>6, <2>7 DEF Lock
<1> QED BY <1>3, <1>4

LEMMA StepUnlock ==
    ASSUME ChunkInv, NEW r \in Requests, Unlock(r)
    PROVE  ChunkInv'
<1>1. req[r].pc = "unlock" /\ lock' = 0 /\ "unlock" \in Finishing
      /\ UNCHANGED <<upload, hashes, chunks, record, blob, outside, published, counted>>
  BY DEF Unlock, Finishing
<1>2. SharedTypeOK /\ UploadGood /\ Good(req[r]) /\ \A s \in Stores : StoreGood(s)
  BY Unfolded
<1>3. \A reply \in {"ok", "error"} : \E new \in RequestRecord :
          /\ new = [NewRequest EXCEPT !.pc = "done", !.reply = reply]
          /\ new.pc = "done" /\ \A q : q = new => Good(q)'
  <2>1. ASSUME NEW reply \in {"ok", "error"}, NEW new,
               new = [NewRequest EXCEPT !.pc = "done", !.reply = reply]
        PROVE  new \in RequestRecord /\ new.pc = "done" /\ \A q : q = new => Good(q)'
    BY <2>1, Leave
  <2> QED BY <2>1
<1>4. PICK new \in RequestRecord :
          req' = [req EXCEPT ![r] = new] /\ new.pc = "done" /\ \A q : q = new => Good(q)'
  BY <1>3 DEF Unlock, RepliesId, Replies
<1>5. Good(new)'
  BY <1>4
<1>6. links' \subseteq Done
  BY <1>1, <1>2 DEF Unlock, RepliesId, Replies, UploadGood, Good, Honest
<1>7. CountKept'
  <2>1. Counting' \subseteq Counting
    BY <1>4, NotCounting
  <2> QED BY <1>1, <2>1, CountStays
<1>8. record' \in [Stores -> Deadlines] /\ counted' \in Nat
      /\ \A s \in Stores : record'[s] <= now + Lifetime /\ (s \notin drawn => record'[s] = 0)
  BY <1>1, <1>2 DEF SharedTypeOK, StoreGood
<1>9. lock' \in Deadlines
  BY <1>1, Unfolded, DeadlinesFit
<1>10. new.pc \notin Finishing
  BY <1>4 DEF Finishing
<1>11. UNCHANGED <<upload, hashes, chunks, blob, outside, published>>
  BY <1>1
<1>12. \A w \in Requests \ {r} : req[w].pc \in Finishing => lock' = lock
  BY <1>1, OthersAreNot
<1> QED BY <1>4, <1>5, <1>6, <1>7, <1>8, <1>9, <1>10, <1>11, <1>12, Signs

LEMMA StepCount ==
    ASSUME ChunkInv, NEW r \in Requests, Count(r)
    PROVE  ChunkInv'
<1>1. req[r].pc = "count" /\ counted' = counted + 1 /\ Leaves(r, "id")
      /\ UNCHANGED <<redis, blob, outside, links, published>>
  BY DEF Count
<1>2. SharedTypeOK /\ UploadGood /\ req[r] \in RequestRecord /\ Good(req[r]) /\ CountKept
      /\ \A s \in Stores : StoreGood(s)
  BY Unfolded
<1>3. PICK new \in RequestRecord :
          /\ req' = [req EXCEPT ![r] = new] /\ Same(req[r], new)
          /\ new.pc = "unlock" /\ new.store = req[r].store /\ new.reply = "id"
  BY <1>1, LeavesWith
<1>4. upload' = upload /\ hashes' = hashes /\ chunks' = chunks /\ lock' = lock
      /\ record' = record /\ blob' = blob /\ now' = now /\ drawn' = drawn
      /\ published' = published /\ links' = links
  BY <1>1 DEF redis, outside
<1>5. Good(new)'
  <2>1. Lawful("count", "unlock")
    BY DEF Lawful, Claimed, Written, Filled, Completing, Finishing
  <2>2. req[r].store \in Done
    BY <1>1, <1>2 DEF Good, Honest
  <2>3. Good(new)
    BY <1>1, <1>2, <1>3, <2>1, <2>2, GoodMoved
  <2> QED BY <1>4, <2>3, GoodKept
<1>6. CountKept' /\ counted' \in Nat
  <2>1. PICK n \in Nat : n = Cardinality(Done)
    BY <1>2, FS_CardinalityType DEF UploadGood
  <2>2. Counting # {} /\ counted \in Nat
    BY <1>1, <1>2 DEF Counting, SharedTypeOK
  <2>3. counted + 1 <= n
    BY <1>2, <2>1, <2>2 DEF CountKept
  <2>4. Counting' = {}
    <3>1. \A w \in Requests \ {r} : req[w].pc # "count"
      BY <1>1, OthersAreNot DEF Finishing
    <3>2. Counting' = Counting \ {r}
      BY <1>3, NotCounting
    <3> QED BY <3>1, <3>2 DEF Counting
  <2>5. Done' = Done
    BY <1>4 DEF Done
  <2>6. counted' \in Nat /\ counted' + 0 <= n
    BY <1>1, <2>2, <2>3
  <2> QED BY <2>1, <2>4, <2>5, <2>6 DEF CountKept
<1>7. record' \in [Stores -> Deadlines] /\ lock' \in Deadlines /\ links' \subseteq Done
      /\ \A s \in Stores : record'[s] <= now + Lifetime /\ (s \notin drawn => record'[s] = 0)
  BY <1>2, <1>4 DEF SharedTypeOK, StoreGood, UploadGood
<1>8. UNCHANGED <<upload, hashes, chunks, blob, outside, published>>
  BY <1>1 DEF redis
<1>9. "count" \in Finishing
  BY DEF Finishing
<1> QED BY <1>1, <1>3, <1>4, <1>5, <1>6, <1>7, <1>8, <1>9, Signs

(* A request that has not published anything does not count.               *)
LEMMA RequestStep ==
    ASSUME ChunkInv, NEW r \in Requests, NEW new \in RequestRecord,
           req' = [req EXCEPT ![r] = new], Good(new)',
           SharedTypeOK', UploadGood', \A s \in Stores : StoreGood(s)',
           \A w \in Requests \ {r} : \A q : q = req[w] => Good(q)',
           new.pc \notin Finishing, published' = published, counted' = counted
    PROVE  ChunkInv'
<1>1. new.pc # "count"
  BY DEF Finishing
<1>2. CountKept'
  BY <1>1, NotCounting, CountStays
<1> QED BY <1>2, Moves

LEMMA StepClaimUpload ==
    ASSUME ChunkInv, NEW r \in Requests, ClaimUpload(r)
    PROVE  ChunkInv'
<1>1. req[r].pc = "claimupload"
      /\ UNCHANGED <<hashes, chunks, lock, record, outside, published, counted>>
  BY DEF ClaimUpload
<1>2. CASE Upload.store # None
  <2>1. Goes(r, "reload") /\ UNCHANGED <<redis, outside, published, counted>>
        /\ links' = links /\ BlobsOnlyGo
    BY <1>1, <1>2, BlobStays DEF ClaimUpload, redis
  <2>2. Lawful("claimupload", "reload") /\ "reload" \in Pcs
    BY DEF Lawful, Pcs, Claimed, Written, Filled, Completing, Finishing
  <2> QED BY <1>1, <2>1, <2>2, MovesOn
<1>3. CASE Upload.store = None
  <2>1. SharedTypeOK /\ UploadGood /\ req[r] \in RequestRecord /\ Good(req[r])
        /\ (\A s \in Stores : StoreGood(s)) /\ now \in Nat
    BY Unfolded
  <2>2. HasStore(req[r]) /\ Active(req[r])
    BY <1>1 DEF HasStore, Active
  <2>3. PICK store \in Stores : store = req[r].store
    BY <2>2, OwnStore
  <2>4. PICK settings \in Settings : settings = req[r].settings
    BY <2>1, <2>2 DEF Good, Honest
  <2>5. PICK until \in Deadlines : until = now + UploadTTL
    BY Unfolded, DeadlinesFit
  <2>6. upload' = [store |-> store, settings |-> settings, published |-> FALSE,
                   hashes |-> Unset, deadline |-> until]
    BY <1>3, <2>3, <2>4, <2>5 DEF ClaimUpload, NoUpload
  <2>7. hashes' = hashes /\ chunks' = chunks /\ lock' = lock /\ record' = record /\ now' = now
        /\ drawn' = drawn /\ published' = published /\ counted' = counted
        /\ doomed' = doomed /\ leaving' = leaving
    BY <1>1 DEF outside
  <2>8. links' = links /\ BlobsOnlyGo
    <3>1. CASE blob' = blob /\ links' = links
      BY <3>1, BlobStays
    <3>2. CASE Replies(r, "error") /\ blob' = [blob EXCEPT ![store] = NoBlob]
      BY <3>2, BlobGoes DEF Replies
    <3> QED BY <1>3, <2>3, <3>1, <3>2 DEF ClaimUpload
  <2>9. ~ Upload.published /\ Upload' = upload' /\ Hashes' = Hashes
        /\ \A s \in Stores : Received(s)' = Received(s)
    <3>1. now <= until
      BY <2>1, <2>5, Constants
    <3> QED BY <1>3, <2>6, <2>7, <3>1, NoUploadIsOpen DEF Upload, Hashes, Received
  <2>10. ~ Upload'.published
    BY <2>6, <2>9
  <2>11. SharedTypeOK'
    <3>1. upload' \in [store : Stores \cup {None}, settings : Settings \cup {None},
                       published : BOOLEAN, hashes : ChunkBytes, deadline : Deadlines]
      BY <2>6, UnsetTyped
    <3>2. upload'.settings # None
      BY <2>6, NoneAssumption
    <3> QED BY <2>1, <2>7, <2>8, <3>1, <3>2 DEF SharedTypeOK, BlobsOnlyGo, Blob
  <2>12. published[store] = Unset /\ store \in drawn
    BY <1>3, <2>1, <2>2, <2>3, NoUploadIsOpen, OwnStore DEF Good, BeforePublication
  <2>13. UploadGood'
    <3>1. upload'.deadline <= now' + UploadTTL /\ hashes'.deadline <= now' + UploadTTL
          /\ upload'.published = FALSE /\ upload'.store = store
      BY <2>1, <2>5, <2>6, <2>7, Constants DEF UploadGood
    <3>2. Done' = Done
      BY <2>7 DEF Done
    <3> QED BY <2>1, <2>7, <2>8, <2>12, <3>1, <3>2 DEF UploadGood
  <2>14. ASSUME NEW s \in Stores PROVE StoreGood(s)'
    <3>1. StoreGood(s)
      BY <2>1
    <3>2. (blob'[s].there => blob[s].there /\ blob'[s].bytes = blob[s].bytes)
      BY <2>8 DEF BlobsOnlyGo
    <3>3. Counted(s)'
      BY <2>7, <2>9, <3>1, <3>2 DEF StoreGood, Counted
    <3>4. upload'.store = store
      BY <2>6
    <3> QED BY <2>7, <2>10, <2>12, <3>1, <3>2, <3>3, <3>4 DEF StoreGood, Done
  <2>15. ASSUME NEW q \in RequestRecord, Good(q) PROVE Good(q)'
    <3>1. hashes.deadline \in Nat
      BY <2>1, DeadlinesFit, Unfolded DEF SharedTypeOK
    <3>2. HasStore(q) => q.store \in Stores
      BY <2>1, <2>15 DEF Good, Honest, SharedTypeOK
    <3>3. q.pc \in Filled => chunks[q.store].deadline \in Nat
      BY <2>1, <3>2, DeadlinesFit, Unfolded DEF SharedTypeOK, HasStore, Filled, Completing
    <3>4. q.pc \in Written /\ blob'[q.store].there =>
              blob[q.store].there /\ blob'[q.store].bytes[q.index] = blob[q.store].bytes[q.index]
      BY <2>8, <3>2 DEF BlobsOnlyGo, Written, HasStore
    <3> QED BY <2>7, <2>9, <2>10, <2>15, <3>1, <3>3, <3>4, BeforeKept
  <2>16. \A w \in Requests \ {r} : \A q : q = req[w] => Good(q)'
    <3>1. \A w \in Requests : req[w] \in RequestRecord /\ Good(req[w])
      BY Unfolded
    <3> QED BY <2>15, <3>1
  <2>17. CASE Goes(r, "claim")
    <3>1. PICK new \in RequestRecord :
              /\ req' = [req EXCEPT ![r] = new] /\ Same(req[r], new)
              /\ new.pc = "claim" /\ new.store = req[r].store /\ new.reply = req[r].reply
      BY <2>17, GoesTo DEF Pcs
    <3>2. Lawful("claimupload", "claim")
      BY DEF Lawful, Claimed, Written, Filled, Completing, Finishing
    <3>3. Good(new) /\ new.pc \notin Finishing
      BY <1>1, <2>1, <3>1, <3>2, GoodMoved DEF Finishing
    <3>4. Good(new)'
      BY <2>15, <3>3
    <3> QED BY <2>7, <2>11, <2>13, <2>14, <2>16, <3>1, <3>3, <3>4, RequestStep
  <2>18. CASE Replies(r, "error")
    <3>1. PICK new : new = [NewRequest EXCEPT !.pc = "done", !.reply = "error"]
      OBVIOUS
    <3>2. new \in RequestRecord /\ new.pc = "done" /\ Good(new)' /\ new.pc \notin Finishing
      BY <3>1, Leave DEF Finishing
    <3>3. req' = [req EXCEPT ![r] = new]
      BY <2>18, <3>1 DEF Replies
    <3> QED BY <2>7, <2>11, <2>13, <2>14, <2>16, <3>2, <3>3, RequestStep
  <2> QED BY <1>3, <2>17, <2>18 DEF ClaimUpload
<1> QED BY <1>2, <1>3

LEMMA Nats ==
    ASSUME ChunkInv
    PROVE  /\ hashes.deadline \in Nat /\ upload.deadline \in Nat /\ now \in Nat
           /\ \A s \in Stores : chunks[s].deadline \in Nat /\ record[s] \in Nat
           /\ now + UploadTTL \in Deadlines /\ now + UploadTTL \in Nat /\ now <= now + UploadTTL
           /\ hashes.deadline <= now + UploadTTL /\ upload.deadline <= now + UploadTTL
           /\ \A s \in Stores : chunks[s].deadline <= now + UploadTTL
<1>1. now \in 0..MaxTime /\ SharedTypeOK /\ UploadGood /\ \A s \in Stores : StoreGood(s)
  BY Unfolded
<1>2. now \in Nat /\ now + UploadTTL \in Deadlines /\ \A d \in Deadlines : d \in Nat
  BY <1>1, DeadlinesFit
<1> QED BY <1>1, <1>2, Constants DEF SharedTypeOK, UploadGood, StoreGood

(* What a request relies on is not touched while the upload is open.       *)
LEMMA OthersBefore ==
    ASSUME ChunkInv, ~ Upload.published, ~ Upload'.published,
           now' = now, published' = published, drawn' = drawn, lock' = lock,
           NEW q \in RequestRecord, Good(q),
           \A c \in Chunks : Hashes[c] # None => Hashes'[c] = Hashes[c],
           (\A c \in Chunks : Hashes[c] # None) => Hashes' = Hashes,
           Hashes # Unset => hashes.deadline <= hashes'.deadline,
           hashes'.deadline \in Nat,
           HasStore(q) /\ q.pc \in Written /\ blob'[q.store].there =>
               blob[q.store].there /\ blob'[q.store].bytes[q.index] = blob[q.store].bytes[q.index],
           HasStore(q) /\ q.pc \in Filled =>
               /\ chunks'[q.store].got = chunks[q.store].got
               /\ chunks[q.store].deadline <= chunks'[q.store].deadline
               /\ chunks'[q.store].deadline \in Nat
    PROVE  Good(q)'
<1>1. Honest(q) /\ BeforePublication(q)
  BY DEF Good
<1>2. HasStore(q) => q.store \in Stores
  BY <1>1, Unfolded DEF Honest, SharedTypeOK
<1>3. q.pc \in Claimed => Hashes'[q.index] = Hashes[q.index] /\ hashes.deadline <= hashes'.deadline
  <2>1. SUFFICES ASSUME q.pc \in Claimed
                 PROVE  Hashes'[q.index] = Hashes[q.index] /\ hashes.deadline <= hashes'.deadline
    OBVIOUS
  <2>2. q.index \in Chunks /\ q.bytes \in Bytes /\ Hashes[q.index] = q.bytes
    BY <1>1, <2>1 DEF Honest, BeforePublication, Active, Claimed
  <2>3. Hashes[q.index] # None
    BY <2>2, NoneAssumption
  <2> QED BY <2>2, <2>3, UnsetTyped
<1>4. q.pc \in Completing => Hashes' = Hashes
  BY <1>1 DEF BeforePublication
<1>5. q.pc \in Written \cup Filled => HasStore(q)
  BY DEF Written, Filled, Completing, HasStore
<1>6. q.pc \in Filled => chunks[q.store].deadline \in Nat
  BY <1>2, <1>5, Nats
<1> QED BY <1>3, <1>4, <1>5, <1>6, Nats, BeforeKept

LEMMA StepClaim ==
    ASSUME ChunkInv, NEW r \in Requests, Claim(r)
    PROVE  ChunkInv'
<1>1. req[r].pc = "claim"
      /\ UNCHANGED <<upload, chunks, lock, record, blob, outside, published, counted>>
  BY DEF Claim
<1>2. SharedTypeOK /\ UploadGood /\ req[r] \in RequestRecord /\ Good(req[r])
      /\ \A s \in Stores : StoreGood(s)
  BY Unfolded
<1>3. PICK index \in Chunks, bytes \in Bytes, h \in ChunkBytes, until \in Deadlines :
          index = req[r].index /\ bytes = req[r].bytes /\ h = Hashes /\ until = now + UploadTTL
  <2>1. Active(req[r])
    BY <1>1 DEF Active
  <2>2. Hashes \in ChunkBytes
    BY <1>2, UnsetTyped DEF Hashes, SharedTypeOK
  <2> QED BY <1>2, <2>1, <2>2, Nats DEF Good, Honest
<1>4. PICK at \in ChunkBytes : at = IF h[index] = None THEN [h EXCEPT ![index] = bytes] ELSE h
  <2>1. CASE h[index] = None
    BY <2>1 DEF ChunkBytes
  <2>2. CASE h[index] # None
    BY <2>2
  <2> QED BY <2>1, <2>2
<1>5. hashes' = [at |-> at, deadline |-> until]
  BY <1>3, <1>4 DEF Claim
<1>6. now' = now /\ upload' = upload /\ chunks' = chunks /\ lock' = lock /\ record' = record
      /\ blob' = blob /\ drawn' = drawn /\ published' = published /\ counted' = counted
      /\ doomed' = doomed /\ leaving' = leaving /\ links' = links
  BY <1>1 DEF outside, Claim, Replies
<1>7. Upload' = Upload /\ Hashes' = at /\ \A s \in Stores : Received(s)' = Received(s)
  BY <1>3, <1>5, <1>6, Nats DEF Upload, Hashes, Received
<1>8. /\ \A c \in Chunks : h[c] # None => at[c] = h[c]
      /\ (\A c \in Chunks : h[c] # None) => at = h
      /\ h[index] \in {None, bytes} => at[index] = bytes
  <2>1. CASE h[index] = None
    BY <1>4, <2>1 DEF ChunkBytes
  <2>2. CASE h[index] # None
    BY <1>4, <2>2
  <2> QED BY <2>1, <2>2
<1>9. hashes'.deadline = until /\ until \in Nat /\ hashes.deadline <= until
      /\ hashes.deadline \in Nat /\ until <= now' + UploadTTL
  BY <1>3, <1>5, <1>6, Nats
<1>10. SharedTypeOK'
  <2>1. hashes' \in [at : ChunkBytes, deadline : Deadlines]
    BY <1>5
  <2> QED BY <1>2, <1>6, <2>1 DEF SharedTypeOK
<1>11. UploadGood'
  BY <1>2, <1>6, <1>7, <1>9 DEF UploadGood, Done
<1>12. ASSUME NEW s \in Stores PROVE StoreGood(s)'
  <2>1. StoreGood(s) /\ chunks[s].deadline \in Nat
    BY <1>2, Nats
  <2>2. Counted(s) => Counted(s)'
    <3>1. SUFFICES ASSUME Counted(s), NEW c \in Received(s)
                   PROVE  /\ chunks[s].deadline <= until /\ at[c] # None
                          /\ blob[s].there => blob[s].bytes[c] = at[c]
      BY <1>6, <1>7, <1>9 DEF Counted
    <3>2. c \in Chunks
      BY <1>2 DEF Received, SharedTypeOK
    <3>3. at[c] = h[c] /\ h[c] # None /\ chunks[s].deadline <= hashes.deadline
      BY <1>3, <1>8, <3>1, <3>2 DEF Counted
    <3> QED BY <1>3, <1>9, <2>1, <3>1, <3>3 DEF Counted
  <2> QED BY <1>6, <1>7, <2>1, <2>2 DEF StoreGood, Done
<1>13. ASSUME NEW q \in RequestRecord, Good(q) PROVE Good(q)'
  <2>1. CASE Upload.published
    <3>1. upload.deadline <= upload'.deadline /\ upload'.deadline \in Nat
      BY <1>6, Nats
    <3> QED BY <1>6, <1>7, <1>13, <2>1, <3>1, AfterKept, Nats
  <2>2. CASE ~ Upload.published
    <3>1. HasStore(q) => q.store \in Stores
      BY <1>2, <1>13 DEF Good, Honest, SharedTypeOK
    <3>2. HasStore(q) /\ q.pc \in Filled => chunks[q.store].deadline <= chunks'[q.store].deadline
              /\ chunks'[q.store].deadline \in Nat /\ chunks'[q.store].got = chunks[q.store].got
      BY <1>6, <3>1, Nats
    <3>3. HasStore(q) /\ q.pc \in Written /\ blob'[q.store].there =>
              blob[q.store].there /\ blob'[q.store].bytes[q.index] = blob[q.store].bytes[q.index]
      BY <1>6
    <3> QED BY <1>3, <1>6, <1>7, <1>8, <1>9, <1>13, <2>2, <3>2, <3>3, OthersBefore
  <2> QED BY <2>1, <2>2
<1>14. \A w \in Requests \ {r} : \A q : q = req[w] => Good(q)'
  <2>1. \A w \in Requests : req[w] \in RequestRecord /\ Good(req[w])
    BY Unfolded
  <2> QED BY <1>13, <2>1
<1>15. CASE Goes(r, "check") /\ h[index] \in {None, bytes}
  <2>1. PICK new \in RequestRecord :
            /\ req' = [req EXCEPT ![r] = new] /\ Same(req[r], new)
            /\ new.pc = "check" /\ new.store = req[r].store /\ new.reply = req[r].reply
    BY <1>15, GoesTo DEF Pcs
  <2>2. PICK old \in RequestRecord : old = req[r] /\ Good(old) /\ Good(old)'
    BY <1>2, <1>13
  <2>3. new.index = old.index /\ new.bytes = old.bytes /\ new.settings = old.settings
        /\ new.since = old.since /\ new.store = old.store /\ old.pc = "claim"
    BY <1>1, <2>1, <2>2 DEF Same
  <2>4. Honest(new)'
    BY <2>1, <2>2, <2>3 DEF Good, Honest, Active, HasStore, Completing, Finishing
  <2>5. ASSUME Upload'.published PROVE Good(new)'
    <3>1. AfterPublication(old)'
      BY <2>2, <2>5 DEF Good
    <3>2. AfterPublication(new)'
      BY <2>1, <2>3, <3>1 DEF AfterPublication, Joined, Completing
    <3> QED BY <2>4, <2>5, <3>2 DEF Good
  <2>6. ASSUME ~ Upload'.published PROVE Good(new)'
    <3>1. BeforePublication(old)'
      BY <2>2, <2>6 DEF Good
    <3>2. HasStore(old) /\ HasStore(new)
      BY <2>1, <2>3 DEF HasStore
    <3>3. new.since + UploadTTL <= hashes'.deadline
      <4>1. old.since <= now /\ old.since \in Nat
        BY <2>2, <2>3, DeadlinesFit DEF Good, Honest, Active, RequestRecord
      <4> QED BY <1>3, <1>9, <2>3, <4>1, Constants, Nats
    <3>4. Hashes'[new.index] = new.bytes
      BY <1>3, <1>7, <1>8, <1>15, <2>2, <2>3
    <3>5. published'[new.store] = Unset
      BY <2>3, <3>1, <3>2 DEF BeforePublication
    <3>6. new.pc \notin Written /\ new.pc \notin Filled /\ new.pc \notin Completing
      BY <2>1 DEF Written, Filled, Completing
    <3>7. BeforePublication(new)'
      BY <3>3, <3>4, <3>5, <3>6 DEF BeforePublication
    <3> QED BY <2>4, <2>6, <3>7 DEF Good
  <2>7. new.pc \notin Finishing
    BY <2>1 DEF Finishing
  <2> QED BY <1>6, <1>10, <1>11, <1>12, <1>14, <2>1, <2>5, <2>6, <2>7, RequestStep
<1>16. CASE Replies(r, "error")
  <2>1. PICK new : new = [NewRequest EXCEPT !.pc = "done", !.reply = "error"]
    OBVIOUS
  <2>2. new \in RequestRecord /\ new.pc = "done" /\ Good(new)' /\ new.pc \notin Finishing
    BY <2>1, Leave DEF Finishing
  <2>3. req' = [req EXCEPT ![r] = new]
    BY <1>16, <2>1 DEF Replies
  <2> QED BY <1>6, <1>10, <1>11, <1>12, <1>14, <2>2, <2>3, RequestStep
<1> QED BY <1>3, <1>15, <1>16 DEF Claim

LEMMA StepWrite ==
    ASSUME ChunkInv, NEW r \in Requests, Write(r)
    PROVE  ChunkInv'
<1>1. req[r].pc = "write" /\ HasStore(req[r]) /\ Active(req[r])
      /\ UNCHANGED <<redis, outside, published, counted>> /\ links' = links
  BY DEF Write, HasStore, Active, Replies
<1>2. SharedTypeOK /\ UploadGood /\ req[r] \in RequestRecord /\ Good(req[r])
      /\ \A s \in Stores : StoreGood(s)
  BY Unfolded
<1>3. CASE ~ blob[req[r].store].there
  <2>1. Replies(r, "error") /\ blob' = blob
    BY <1>3 DEF Write
  <2> QED BY <1>1, <2>1, BlobStays, QuietReply
<1>4. CASE blob[req[r].store].there
  <2>1. PICK store \in Stores, index \in Chunks, bytes \in Bytes, old \in Blob :
            /\ store = req[r].store /\ index = req[r].index /\ bytes = req[r].bytes
            /\ old = blob[store]
    BY <1>1, <1>2, OwnStore DEF Good, Honest, SharedTypeOK, Blob
  <2>2. PICK w \in ChunkBytes : w = [old.bytes EXCEPT ![index] = bytes]
    BY DEF Blob, ChunkBytes
  <2>3. old.there /\ store \in drawn
    BY <1>1, <1>4, <2>1, OwnStore
  <2>4. /\ blob' \in [Stores -> Blob] /\ blob'[store].there /\ blob'[store].bytes = w
        /\ \A s \in Stores \ {store} : blob'[s] = blob[s]
    <3> DEFINE half == [old EXCEPT !.bytes = w]
               b == [half EXCEPT !.mtime = now]
    <3>1. blob \in [Stores -> Blob] /\ now \in Deadlines
      BY <1>2, Unfolded, DeadlinesFit DEF SharedTypeOK, Blob
    <3>2. blob' = [blob EXCEPT ![store] = b]
      <4>1. blob' = [blob EXCEPT ![store].bytes[index] = bytes, ![store].mtime = now]
        BY <1>4, <2>1 DEF Write
      <4> QED BY <2>1, <2>2, <3>1, <4>1 DEF Blob
    <3>3. half \in Blob /\ half.there /\ half.bytes = w
      BY <2>3 DEF Blob
    <3> HIDE DEF half
    <3>4. b \in Blob /\ b.there /\ b.bytes = w
      BY <3>1, <3>3 DEF Blob
    <3> HIDE DEF b
    <3> QED BY <3>1, <3>2, <3>4
  <2>5. upload' = upload /\ hashes' = hashes /\ chunks' = chunks /\ lock' = lock
        /\ record' = record /\ now' = now /\ drawn' = drawn /\ published' = published
        /\ counted' = counted /\ doomed' = doomed /\ leaving' = leaving
    BY <1>1 DEF redis, outside
  <2>6. Upload' = Upload /\ Hashes' = Hashes /\ \A s \in Stores : Received(s)' = Received(s)
    BY <2>5, SameKeys
  <2>7. SharedTypeOK'
    BY <1>1, <1>2, <2>4, <2>5 DEF SharedTypeOK, Blob
  <2>8. UploadGood'
    BY <1>1, <1>2, <2>5, UploadKept DEF UploadGood
  <2>9. index \in Chunks /\ \A c \in Chunks : w[c] = IF c = index THEN bytes ELSE old.bytes[c]
    BY <2>2 DEF Blob, ChunkBytes
  <2>10. ~ Upload.published => Hashes[index] = bytes /\ published[store] = Unset
    BY <1>1, <1>2, <2>1 DEF Good, BeforePublication, Claimed
  <2>11. Upload.published /\ store \in Done => w = published[store]
    <3>1. SUFFICES ASSUME Upload.published, store \in Done PROVE w = published[store]
      OBVIOUS
    <3>2. published[store][index] = bytes
      BY <1>1, <1>2, <2>1, <3>1 DEF Good, AfterPublication, Done
    <3>3. old.bytes = published[store] /\ published[store] \in ChunkBytes
      BY <1>2, <2>1, <2>3, <3>1 DEF StoreGood, SharedTypeOK
    <3> QED BY <2>2, <3>2, <3>3 DEF ChunkBytes
  <2>12. ASSUME NEW s \in Stores PROVE StoreGood(s)'
    <3>1. StoreGood(s)
      BY <1>2
    <3>2. CASE s # store
      <4>1. blob'[s] = blob[s] /\ (s \notin drawn => record'[s] = 0)
            /\ record'[s] <= now + Lifetime
        BY <2>4, <2>5, <3>1, <3>2 DEF StoreGood
      <4> QED BY <2>5, <3>1, <4>1, StoreKept
    <3>3. CASE s = store
      <4>1. CASE Upload.published
        BY <2>3, <2>4, <2>5, <2>6, <2>11, <3>1, <3>3, <4>1 DEF StoreGood, Done
      <4>2. CASE ~ Upload.published
        <5>1. s \notin Done
          BY <2>10, <3>3, <4>2 DEF Done
        <5>2. Counted(s)
          BY <3>1, <4>2 DEF StoreGood
        <5>3. Counted(s)'
          <6>1. SUFFICES ASSUME NEW c \in Received(s)
                         PROVE  /\ chunks[s].deadline <= hashes.deadline /\ Hashes[c] # None
                                /\ w[c] = Hashes[c]
            BY <2>4, <2>5, <2>6, <3>3 DEF Counted
          <6>2. c \in Chunks
            BY <1>2 DEF Received, SharedTypeOK
          <6>3. old.bytes[c] = Hashes[c] /\ chunks[s].deadline <= hashes.deadline
                /\ Hashes[c] # None
            BY <2>1, <2>3, <3>3, <5>2 DEF Counted
          <6> QED BY <2>9, <2>10, <4>2, <6>2, <6>3
        <5> QED BY <2>3, <2>5, <2>6, <3>1, <3>3, <4>2, <5>1, <5>3 DEF StoreGood, Done
      <4> QED BY <4>1, <4>2
    <3> QED BY <3>2, <3>3
  <2>13. ASSUME NEW q \in RequestRecord, Good(q) PROVE Good(q)'
    <3>1. CASE Upload.published
      <4>1. upload.deadline <= upload'.deadline /\ upload'.deadline \in Nat
        BY <2>5, Nats
      <4> QED BY <2>5, <2>6, <2>13, <3>1, <4>1, AfterKept, Nats
    <3>2. CASE ~ Upload.published
      <4>1. HasStore(q) => q.store \in Stores
        BY <1>2, <2>13 DEF Good, Honest, SharedTypeOK
      <4>2. HasStore(q) /\ q.pc \in Filled => chunks[q.store].deadline <= chunks'[q.store].deadline
                /\ chunks'[q.store].deadline \in Nat /\ chunks'[q.store].got = chunks[q.store].got
        BY <2>5, <4>1, Nats
      <4>3. ASSUME HasStore(q), q.pc \in Written, blob'[q.store].there
            PROVE  blob[q.store].there
                   /\ blob'[q.store].bytes[q.index] = blob[q.store].bytes[q.index]
        <5>1. CASE q.store # store
          BY <2>4, <4>1, <4>3, <5>1
        <5>2. CASE q.store = store
          <6>1. BeforePublication(q) /\ q.index \in Chunks
            BY <2>13, <3>2, <4>3 DEF Good, Honest, Active, Written
          <6>2. old.bytes[q.index] = q.bytes /\ Hashes[q.index] = q.bytes
            BY <2>1, <2>3, <4>3, <5>2, <6>1 DEF BeforePublication, Claimed, Written
          <6>3. w[q.index] = old.bytes[q.index]
            BY <2>9, <2>10, <3>2, <6>1, <6>2
          <6> QED BY <2>1, <2>3, <2>4, <5>2, <6>3
        <5> QED BY <5>1, <5>2
      <4>4. hashes'.deadline = hashes.deadline /\ hashes'.deadline \in Nat
            /\ hashes.deadline <= hashes'.deadline
        BY <2>5, Nats
      <4> QED BY <2>5, <2>6, <2>13, <3>2, <4>2, <4>3, <4>4, OthersBefore
    <3> QED BY <3>1, <3>2
  <2>14. \A v \in Requests \ {r} : \A q : q = req[v] => Good(q)'
    <3>1. \A v \in Requests : req[v] \in RequestRecord /\ Good(req[v])
      BY Unfolded
    <3> QED BY <2>13, <3>1
  <2>15. PICK new \in RequestRecord :
            /\ req' = [req EXCEPT ![r] = new] /\ Same(req[r], new)
            /\ new.pc = "touch" /\ new.store = req[r].store /\ new.reply = req[r].reply
    BY <1>4, GoesTo DEF Write, Pcs
  <2>16. PICK was \in RequestRecord : was = req[r] /\ Good(was) /\ Good(was)'
    BY <1>2, <2>13
  <2>17. new.index = index /\ new.bytes = bytes /\ new.settings = was.settings
         /\ new.since = was.since /\ new.store = store /\ was.pc = "write"
         /\ was.index = index /\ was.bytes = bytes /\ was.store = store
    BY <1>1, <2>1, <2>15, <2>16 DEF Same
  <2>18. Honest(new)'
    BY <2>15, <2>16, <2>17 DEF Good, Honest, Active, HasStore, Completing, Finishing
  <2>19. ASSUME Upload'.published PROVE Good(new)'
    <3>1. AfterPublication(was)'
      BY <2>16, <2>19 DEF Good
    <3>2. AfterPublication(new)'
      BY <2>15, <2>17, <3>1 DEF AfterPublication, Joined, Completing
    <3> QED BY <2>18, <2>19, <3>2 DEF Good
  <2>20. ASSUME ~ Upload'.published PROVE Good(new)'
    <3>1. BeforePublication(was)'
      BY <2>16, <2>20 DEF Good
    <3>2. HasStore(was) /\ HasStore(new) /\ was.pc \in Claimed
      BY <2>15, <2>17 DEF HasStore, Claimed
    <3>3. new.pc \notin Filled /\ new.pc \notin Completing
      BY <2>15 DEF Filled, Completing
    <3>4. blob'[new.store].bytes[new.index] = new.bytes
      BY <2>4, <2>9, <2>17
    <3>5. BeforePublication(new)'
      BY <2>17, <3>1, <3>2, <3>3, <3>4 DEF BeforePublication
    <3> QED BY <2>18, <2>20, <3>5 DEF Good
  <2>21. new.pc \notin Finishing
    BY <2>15 DEF Finishing
  <2> QED BY <2>5, <2>7, <2>8, <2>12, <2>14, <2>15, <2>19, <2>20, <2>21, RequestStep
<1> QED BY <1>3, <1>4

(* A request that is still there is served before anything it relies on    *)
(* has expired.                                                            *)
LEMMA Alive ==
    ASSUME ChunkInv, NEW q \in RequestRecord, Good(q), Active(q)
    PROVE  /\ now < q.since + UploadTTL /\ q.since + UploadTTL <= now + UploadTTL
           /\ q.since + UploadTTL \in Nat
<1>1. q.since <= now /\ now <= q.since + Patience
  BY DEF Good, Honest
<1>2. q.since \in Nat
  BY DeadlinesFit DEF RequestRecord
<1> QED BY <1>1, <1>2, Constants, Nats

LEMMA FilledReceived ==
    ASSUME ChunkInv, NEW q \in RequestRecord, Good(q), ~ Upload.published, q.pc \in Filled
    PROVE  /\ q.store \in Stores /\ chunks[q.store].got = Chunks
           /\ now <= chunks[q.store].deadline /\ Received(q.store) = Chunks
<1>1. Active(q) /\ HasStore(q)
  BY DEF Active, HasStore, Filled, Completing
<1>2. q.store \in Stores
  BY <1>1, Unfolded DEF Good, Honest, SharedTypeOK
<1>3. chunks[q.store].got = Chunks /\ q.since + UploadTTL <= chunks[q.store].deadline
  BY DEF Good, BeforePublication
<1>4. now <= chunks[q.store].deadline
  BY <1>1, <1>2, <1>3, Alive, Nats
<1> QED BY <1>2, <1>3, <1>4 DEF Received

LEMMA StepRecordChunk ==
    ASSUME ChunkInv, NEW r \in Requests, RecordChunk(r)
    PROVE  ChunkInv'
<1>1. req[r].pc = "sadd" /\ HasStore(req[r]) /\ Active(req[r])
      /\ UNCHANGED <<lock, record, blob, outside, outcome>>
  BY DEF RecordChunk, HasStore, Active
<1>2. SharedTypeOK /\ UploadGood /\ req[r] \in RequestRecord /\ Good(req[r])
      /\ \A s \in Stores : StoreGood(s)
  BY Unfolded
<1>3. PICK store \in Stores, index \in Chunks, bytes \in Bytes :
          store = req[r].store /\ index = req[r].index /\ bytes = req[r].bytes
  BY <1>1, <1>2, OwnStore DEF Good, Honest
<1>4. PICK until \in Deadlines : until = now + UploadTTL
  BY Nats
<1>5. PICK got \in SUBSET Chunks : got = Received(store) \cup {index}
  BY <1>2, <1>3 DEF Received, SharedTypeOK
<1>6. lock' = lock /\ record' = record /\ blob' = blob /\ now' = now /\ drawn' = drawn
      /\ published' = published /\ counted' = counted /\ links' = links
      /\ doomed' = doomed /\ leaving' = leaving
  BY <1>1 DEF outside, outcome
<1>7. until \in Nat /\ now <= until /\ hashes.deadline <= until /\ upload.deadline <= until
      /\ hashes.deadline \in Nat /\ upload.deadline \in Nat /\ store \in drawn
      /\ \A s \in Stores : chunks[s].deadline <= until /\ chunks[s].deadline \in Nat
  BY <1>1, <1>3, <1>4, Nats, OwnStore
<1>8. /\ upload' = IF Upload.store = None THEN upload ELSE [upload EXCEPT !.deadline = until]
      /\ hashes' = IF Hashes = Unset THEN hashes ELSE [hashes EXCEPT !.deadline = until]
      /\ chunks' = [chunks EXCEPT ![store] = [got |-> got, deadline |-> until]]
      /\ Goes(r, IF got = Chunks THEN "lock" ELSE "check2")
  BY <1>3, <1>4, <1>5 DEF RecordChunk
<1>9. /\ upload' \in [store : Stores \cup {None}, settings : Settings \cup {None},
                      published : BOOLEAN, hashes : ChunkBytes, deadline : Deadlines]
      /\ upload'.store = upload.store /\ upload'.settings = upload.settings
      /\ upload'.published = upload.published /\ upload'.deadline \in Nat
      /\ upload.deadline <= upload'.deadline /\ upload'.deadline <= until
      /\ Upload.store # None => upload'.deadline = until
  <2>1. upload \in [store : Stores \cup {None}, settings : Settings \cup {None},
                    published : BOOLEAN, hashes : ChunkBytes, deadline : Deadlines]
    BY <1>2 DEF SharedTypeOK
  <2>2. CASE Upload.store = None
    BY <1>7, <1>8, <2>1, <2>2
  <2>3. CASE Upload.store # None
    <3>1. upload' = [upload EXCEPT !.deadline = until]
      BY <1>8, <2>3
    <3>2. upload' \in [store : Stores \cup {None}, settings : Settings \cup {None},
                       published : BOOLEAN, hashes : ChunkBytes, deadline : Deadlines]
      BY <2>1, <3>1
    <3>3. upload'.store = upload.store /\ upload'.settings = upload.settings
          /\ upload'.published = upload.published /\ upload'.deadline = until
      BY <2>1, <3>1
    <3> QED BY <1>7, <3>2, <3>3
  <2> QED BY <2>2, <2>3
<1>10. /\ hashes' \in [at : ChunkBytes, deadline : Deadlines] /\ hashes'.at = hashes.at
       /\ hashes.deadline <= hashes'.deadline /\ hashes'.deadline <= until
       /\ hashes'.deadline \in Nat /\ (Hashes # Unset => hashes'.deadline = until)
  BY <1>2, <1>7, <1>8 DEF SharedTypeOK
<1>11. /\ Upload'.published <=> Upload.published
       /\ Upload'.store = Upload.store
       /\ Upload.published => Upload.store # None
  <2>1. CASE Upload.store = None
    BY <1>6, <1>8, <2>1, NoUploadIsOpen DEF Upload
  <2>2. CASE Upload.store # None
    BY <1>6, <1>7, <1>9, <2>2, UploadNow DEF Upload
  <2> QED BY <2>1, <2>2
<1>12. Hashes' = Hashes
  <2>1. CASE Hashes = Unset
    BY <1>6, <1>8, <2>1 DEF Hashes
  <2>2. CASE Hashes # Unset
    BY <1>6, <1>7, <1>10, <2>2 DEF Hashes
  <2> QED BY <2>1, <2>2
<1>13. /\ chunks' \in [Stores -> [got : SUBSET Chunks, deadline : Deadlines]]
       /\ chunks'[store].got = got /\ chunks'[store].deadline = until
       /\ \A s \in Stores \ {store} : chunks'[s] = chunks[s]
  BY <1>2, <1>8 DEF SharedTypeOK
<1>14. Received(store)' = got /\ \A s \in Stores \ {store} : Received(s)' = Received(s)
  BY <1>6, <1>7, <1>13 DEF Received
<1>15. SharedTypeOK'
  BY <1>2, <1>6, <1>9, <1>10, <1>13 DEF SharedTypeOK
<1>16. UploadGood'
  BY <1>2, <1>4, <1>6, <1>9, <1>10, <1>11 DEF UploadGood, Done
<1>17. ~ Upload.published =>
           /\ Hashes[index] = bytes /\ hashes'.deadline = until
           /\ blob[store].there => blob[store].bytes[index] = bytes
  <2>1. SUFFICES ASSUME ~ Upload.published
                 PROVE  /\ Hashes[index] = bytes /\ hashes'.deadline = until
                        /\ blob[store].there => blob[store].bytes[index] = bytes
    OBVIOUS
  <2>2. Hashes[index] = bytes /\ (blob[store].there => blob[store].bytes[index] = bytes)
    BY <1>1, <1>2, <1>3, <2>1 DEF Good, BeforePublication, Claimed, Written
  <2>3. Hashes # Unset
    BY <2>2, <1>3, UnsetTyped, NoneAssumption
  <2> QED BY <1>10, <2>2, <2>3
<1>18. ASSUME NEW s \in Stores PROVE StoreGood(s)'
  <2>1. StoreGood(s)
    BY <1>2
  <2>2. chunks'[s].deadline <= until /\ (s \notin drawn => chunks'[s] = chunks[s])
    BY <1>7, <1>13
  <2>3. CASE Upload.published
    <3>1. chunks'[s].deadline <= upload'.deadline
      BY <1>9, <1>11, <2>2, <2>3
    <3> QED BY <1>4, <1>6, <1>9, <1>11, <2>1, <2>2, <2>3, <3>1 DEF StoreGood, Done
  <2>4. CASE ~ Upload.published
    <3>1. Counted(s)
      BY <2>1, <2>4 DEF StoreGood
    <3>2. Counted(s)'
      <4>1. SUFFICES ASSUME NEW c \in Received(s)'
                     PROVE  /\ chunks'[s].deadline <= hashes'.deadline /\ Hashes[c] # None
                            /\ blob[s].there => blob[s].bytes[c] = Hashes[c]
        BY <1>6, <1>12 DEF Counted
      <4>2. CASE s = store
        <5>1. chunks'[s].deadline <= hashes'.deadline
          BY <1>7, <1>13, <1>17, <2>4, <4>2
        <5>2. CASE c = index
          BY <1>3, <1>17, <2>4, <4>2, <5>1, <5>2, NoneAssumption
        <5>3. CASE c \in Received(s)
          BY <3>1, <5>1, <5>3 DEF Counted
        <5> QED BY <1>5, <1>14, <4>1, <4>2, <5>2, <5>3
      <4>3. CASE s # store
        <5>1. c \in Received(s) /\ chunks'[s] = chunks[s] /\ chunks[s].deadline \in Nat
          BY <1>7, <1>13, <1>14, <4>1, <4>3
        <5>2. chunks[s].deadline <= hashes.deadline /\ Hashes[c] # None
              /\ (blob[s].there => blob[s].bytes[c] = Hashes[c])
          BY <3>1, <5>1 DEF Counted
        <5> QED BY <1>7, <1>10, <5>1, <5>2
      <4> QED BY <4>2, <4>3
    <3> QED BY <1>4, <1>6, <1>9, <1>11, <2>1, <2>2, <2>4, <3>2 DEF StoreGood, Done
  <2> QED BY <2>3, <2>4
<1>19. ASSUME NEW q \in RequestRecord, Good(q) PROVE Good(q)'
  <2>1. CASE Upload.published
    BY <1>6, <1>7, <1>9, <1>11, <1>19, <2>1, AfterKept
  <2>2. CASE ~ Upload.published
    <3>1. HasStore(q) => q.store \in Stores
      BY <1>2, <1>19 DEF Good, Honest, SharedTypeOK
    <3>2. ASSUME HasStore(q), q.pc \in Filled
          PROVE  /\ chunks[q.store].deadline <= chunks'[q.store].deadline
                 /\ chunks'[q.store].deadline \in Nat
                 /\ chunks'[q.store].got = chunks[q.store].got
      <4>1. CASE q.store # store
        BY <1>7, <1>13, <3>1, <3>2, <4>1
      <4>2. CASE q.store = store
        <5>1. Received(store) = Chunks /\ chunks[store].got = Chunks
          BY <1>19, <2>2, <3>2, <4>2, FilledReceived
        <5> QED BY <1>5, <1>7, <1>13, <4>2, <5>1
      <4> QED BY <4>1, <4>2
    <3>3. HasStore(q) /\ q.pc \in Written /\ blob'[q.store].there =>
              blob[q.store].there /\ blob'[q.store].bytes[q.index] = blob[q.store].bytes[q.index]
      BY <1>6
    <3> QED BY <1>6, <1>10, <1>11, <1>12, <1>19, <2>2, <3>2, <3>3, OthersBefore
  <2> QED BY <2>1, <2>2
<1>20. \A w \in Requests \ {r} : \A q : q = req[w] => Good(q)'
  <2>1. \A w \in Requests : req[w] \in RequestRecord /\ Good(req[w])
    BY Unfolded
  <2> QED BY <1>19, <2>1
<1>21. PICK pc \in Pcs : Goes(r, pc) /\ pc = IF got = Chunks THEN "lock" ELSE "check2"
  BY <1>8 DEF Pcs
<1>22. PICK new \in RequestRecord :
          /\ req' = [req EXCEPT ![r] = new] /\ Same(req[r], new)
          /\ new.pc = pc /\ new.store = req[r].store /\ new.reply = req[r].reply
  BY <1>21, GoesTo
<1>23. PICK old \in RequestRecord : old = req[r] /\ Good(old) /\ Good(old)'
  BY <1>2, <1>19
<1>24. new.index = old.index /\ new.bytes = old.bytes /\ new.settings = old.settings
       /\ new.since = old.since /\ new.store = store /\ old.store = store /\ old.pc = "sadd"
  BY <1>1, <1>3, <1>22, <1>23 DEF Same
<1>25. Honest(new)'
  BY <1>21, <1>22, <1>23, <1>24 DEF Good, Honest, Active, HasStore, Completing, Finishing
<1>26. ASSUME Upload'.published PROVE Good(new)'
  <2>1. AfterPublication(old)'
    BY <1>23, <1>26 DEF Good
  <2>2. AfterPublication(new)'
    BY <1>21, <1>22, <1>24, <2>1 DEF AfterPublication, Joined, Completing
  <2> QED BY <1>25, <1>26, <2>2 DEF Good
<1>27. ASSUME ~ Upload'.published PROVE Good(new)'
  <2>1. BeforePublication(old)'
    BY <1>23, <1>27 DEF Good
  <2>2. HasStore(old) /\ Active(old)
    BY <1>24 DEF HasStore, Active
  <2>3. new.pc \notin Claimed /\ new.pc \notin Written /\ new.pc \notin Completing
        /\ (new.pc \in Filled => got = Chunks)
    BY <1>21, <1>22 DEF Claimed, Written, Filled, Completing
  <2>4. new.since + UploadTTL <= chunks'[new.store].deadline
    BY <1>4, <1>13, <1>23, <1>24, <2>2, Alive
  <2>5. published'[new.store] = Unset
    BY <1>24, <2>1, <2>2 DEF BeforePublication
  <2>6. BeforePublication(new)'
    BY <1>13, <1>24, <2>3, <2>4, <2>5 DEF BeforePublication
  <2> QED BY <1>25, <1>27, <2>6 DEF Good
<1>28. new.pc \notin Finishing
  BY <1>21, <1>22 DEF Finishing
<1> QED BY <1>6, <1>15, <1>16, <1>18, <1>20, <1>22, <1>26, <1>27, <1>28, RequestStep

(* The file is published with what its blob holds, once.                   *)
LEMMA StepPublish ==
    ASSUME ChunkInv, NEW r \in Requests, Publish(r)
    PROVE  ChunkInv'
<1>1. req[r].pc = "publish" /\ HasStore(req[r]) /\ Active(req[r])
      /\ req[r].pc \in Completing /\ req[r].pc \in Finishing /\ req[r].pc \in Filled
      /\ UNCHANGED <<lock, record, blob, outside, links, counted>>
  BY DEF Publish, HasStore, Active, Completing, Finishing, Filled
<1>2. SharedTypeOK /\ UploadGood /\ req[r] \in RequestRecord /\ Good(req[r]) /\ CountKept
      /\ \A s \in Stores : StoreGood(s)
  BY Unfolded
<1>3. ~ Upload.published
  BY <1>1, <1>2 DEF Good, AfterPublication
<1>4. BeforePublication(req[r]) /\ Honest(req[r])
  BY <1>2, <1>3 DEF Good
<1>5. PICK store \in Stores, settings \in Settings, h \in ChunkBytes, until \in Deadlines :
          /\ store = req[r].store /\ settings = req[r].settings /\ h = req[r].hashes
          /\ until = now + UploadTTL
  BY <1>1, <1>2, <1>4, OwnStore, Nats DEF Honest, RequestRecord
<1>6. /\ upload' = [store |-> store, settings |-> settings, published |-> TRUE,
                    hashes |-> h, deadline |-> until]
      /\ chunks' = [chunks EXCEPT ![store] = [got |-> {}, deadline |-> 0]]
      /\ hashes' = [at |-> Unset, deadline |-> 0]
      /\ published' = IF published[store] = Unset
                      THEN [published EXCEPT ![store] = h] ELSE published
      /\ Goes(r, "count") \/ Leaves(r, "error")
  BY <1>5 DEF Publish
<1>7. lock' = lock /\ record' = record /\ blob' = blob /\ now' = now /\ drawn' = drawn
      /\ counted' = counted /\ links' = links /\ doomed' = doomed /\ leaving' = leaving
  BY <1>1 DEF outside
<1>8. until \in Nat /\ now <= until /\ store \in drawn /\ 0 \in Deadlines
  BY <1>1, <1>5, Nats, OwnStore, Unfolded, DeadlinesFit
<1>9. h = Hashes /\ (\A c \in Chunks : h[c] # None) /\ published[store] = Unset
  BY <1>1, <1>4, <1>5 DEF BeforePublication
<1>10. h # Unset
  <2>1. PICK c \in Chunks : TRUE
    BY Constants
  <2> QED BY <1>9, <2>1, UnsetTyped
<1>11. blob[store].there => blob[store].bytes = h
  <2>1. Received(store) = Chunks
    BY <1>1, <1>2, <1>3, <1>5, FilledReceived
  <2>2. Counted(store)
    BY <1>2, <1>3 DEF StoreGood
  <2>3. blob[store].there => \A c \in Chunks : blob[store].bytes[c] = h[c]
    BY <1>9, <2>1, <2>2 DEF Counted
  <2>4. blob[store].bytes \in ChunkBytes
    BY <1>2 DEF SharedTypeOK
  <2> QED BY <2>3, <2>4 DEF ChunkBytes
<1>12. published' = [published EXCEPT ![store] = h] /\ published' \in [Stores -> ChunkBytes]
       /\ published'[store] = h /\ \A s \in Stores \ {store} : published'[s] = published[s]
  BY <1>2, <1>6, <1>9 DEF SharedTypeOK
<1>13. Done' = Done \cup {store} /\ store \notin Done
  BY <1>9, <1>10, <1>12 DEF Done
<1>14. Upload' = upload' /\ Upload'.published
  BY <1>6, <1>7, <1>8 DEF Upload
<1>15. SharedTypeOK'
  <2>1. upload' \in [store : Stores \cup {None}, settings : Settings \cup {None},
                     published : BOOLEAN, hashes : ChunkBytes, deadline : Deadlines]
    BY <1>6
  <2>2. hashes' \in [at : ChunkBytes, deadline : Deadlines]
    BY <1>6, <1>8, UnsetTyped
  <2>3. chunks' \in [Stores -> [got : SUBSET Chunks, deadline : Deadlines]]
    BY <1>2, <1>6, <1>8 DEF SharedTypeOK
  <2>4. upload'.settings # None
    BY <1>6, NoneAssumption
  <2> QED BY <1>2, <1>7, <1>12, <2>1, <2>2, <2>3, <2>4 DEF SharedTypeOK
<1>16. UploadGood'
  <2>1. hashes'.deadline = 0 /\ upload'.deadline = until /\ upload'.store = store
    BY <1>6
  <2>2. hashes'.deadline <= now' + UploadTTL /\ upload'.deadline <= now' + UploadTTL
    BY <1>5, <1>7, <1>8, <2>1, Nats
  <2>3. IsFiniteSet(Done')
    BY <1>2, <1>13, FS_AddElement DEF UploadGood
  <2>4. links' \subseteq Done' /\ upload'.store \in Done'
    BY <1>2, <1>7, <1>13, <2>1 DEF UploadGood
  <2> QED BY <1>14, <2>2, <2>3, <2>4 DEF UploadGood
<1>17. ASSUME NEW s \in Stores PROVE StoreGood(s)'
  <2>1. StoreGood(s) /\ chunks[s].deadline <= until
    BY <1>2, <1>5, Nats
  <2>2. chunks'[s].deadline <= until /\ (s # store => chunks'[s] = chunks[s])
    BY <1>2, <1>6, <1>8, <2>1 DEF SharedTypeOK
  <2>3. upload'.deadline = until /\ upload'.store = store
    BY <1>6
  <2>4. s \in Done' =>
            /\ \A c \in Chunks : published'[s][c] # None
            /\ blob'[s].there => blob'[s].bytes = published'[s]
    <3>1. CASE s = store
      BY <1>7, <1>9, <1>11, <1>12, <3>1
    <3>2. CASE s # store
      BY <1>7, <1>12, <1>13, <2>1, <3>2 DEF StoreGood
    <3> QED BY <3>1, <3>2
  <2>5. s \notin drawn' =>
            /\ chunks'[s].got = {} /\ ~ blob'[s].there /\ published'[s] = Unset
            /\ record'[s] = 0 /\ upload'.store # s
    BY <1>7, <1>8, <1>12, <2>1, <2>2, <2>3 DEF StoreGood
  <2> QED BY <1>5, <1>7, <1>14, <2>1, <2>2, <2>3, <2>4, <2>5 DEF StoreGood
<1>18. ASSUME NEW q \in RequestRecord, Good(q), q.pc \in Finishing => q.pc \in {"count", "unlock"}
       PROVE  Good(q)'
  <2>1. Honest(q)'
    BY <1>7, <1>13, <1>18 DEF Good, Honest
  <2>2. Joined(q) => q.since + UploadTTL <= upload'.deadline
    <3>1. Joined(q) => Active(q)
      BY DEF Joined, Active
    <3>2. upload'.deadline = now + UploadTTL
      BY <1>5, <1>6
    <3> QED BY <1>18, <3>1, <3>2, Alive
  <2>3. q.pc \notin {"finhashes"} \cup Completing
    BY <1>18 DEF Completing, Finishing
  <2>4. q.pc = "write" /\ published'[q.store] # Unset => published'[q.store][q.index] = q.bytes
    <3>1. SUFFICES ASSUME q.pc = "write", published'[q.store] # Unset
                   PROVE  published'[q.store][q.index] = q.bytes
      OBVIOUS
    <3>2. HasStore(q) /\ q.pc \in Claimed
      BY <3>1 DEF HasStore, Claimed
    <3>3. published[q.store] = Unset /\ Hashes[q.index] = q.bytes /\ q.store \in Stores
      BY <1>2, <1>3, <1>18, <3>2 DEF Good, BeforePublication, Honest, SharedTypeOK
    <3>4. q.store = store
      BY <1>12, <3>1, <3>3
    <3> QED BY <1>9, <1>12, <3>3, <3>4
  <2> QED BY <1>14, <2>1, <2>2, <2>3, <2>4 DEF Good, AfterPublication
<1>19. \A w \in Requests \ {r} : \A q : q = req[w] => Good(q)'
  <2>1. ASSUME NEW w \in Requests \ {r}, NEW q, q = req[w] PROVE Good(q)'
    <3>1. q \in RequestRecord /\ Good(q) /\ q.pc \notin Finishing
      BY <1>1, <2>1, Unfolded, OthersAreNot
    <3> QED BY <1>18, <3>1
  <2> QED BY <2>1
<1>20. ASSUME NEW new \in RequestRecord, req' = [req EXCEPT ![r] = new], Same(req[r], new),
              new.store = req[r].store,
              new.pc = "count" \/ (new.pc = "unlock" /\ new.reply = "error")
       PROVE  Good(new)'
  <2>1. new.since = req[r].since /\ new.index = req[r].index /\ new.bytes = req[r].bytes
        /\ new.settings = req[r].settings
    BY <1>20 DEF Same
  <2>2. new.index \in Chunks /\ new.bytes \in Bytes /\ new.settings \in Settings
        /\ new.since <= now /\ now <= new.since + Patience
        /\ new.store \in drawn /\ lock # 0
        /\ (Patience <= LockTTL => new.since + Patience <= lock)
    BY <1>1, <1>4, <1>20, <2>1 DEF Honest
  <2>3. new.store \in Done'
    BY <1>5, <1>13, <1>20
  <2>4. Honest(new)'
    BY <1>7, <1>20, <2>2, <2>3 DEF Honest, Active, HasStore, Completing, Finishing
  <2>5. new.since + UploadTTL <= upload'.deadline
    BY <1>1, <1>2, <1>5, <1>6, <2>1, Alive
  <2>6. AfterPublication(new)'
    BY <1>20, <2>5 DEF AfterPublication, Completing
  <2> QED BY <1>14, <2>4, <2>6 DEF Good
<1>21. PICK n \in Nat : n = Cardinality(Done) /\ Cardinality(Done') = n + 1
  <2>1. IsFiniteSet(Done)
    BY <1>2 DEF UploadGood, CountKept
  <2>2. Cardinality(Done) \in Nat
    BY <2>1, FS_CardinalityType
  <2>3. Cardinality(Done \cup {store}) = Cardinality(Done) + 1
    BY <2>1, <1>13, FS_AddElement
  <2> QED BY <1>13, <2>2, <2>3
<1>22. counted <= n /\ counted \in Nat
  <2>1. Counting = {}
    BY <1>1, OthersAreNot DEF Counting, Finishing
  <2>2. counted + (IF Counting # {} THEN 1 ELSE 0) <= n /\ counted \in Nat
    BY <1>2, <1>21 DEF CountKept, SharedTypeOK
  <2> QED BY <2>1, <2>2
<1>23. CountKept'
  <2>1. counted' + (IF Counting' # {} THEN 1 ELSE 0) <= n + 1
    BY <1>7, <1>22
  <2> QED BY <1>21, <2>1 DEF CountKept
<1>24. PICK new \in RequestRecord :
          /\ req' = [req EXCEPT ![r] = new] /\ Same(req[r], new) /\ new.store = req[r].store
          /\ new.pc = "count" \/ (new.pc = "unlock" /\ new.reply = "error")
  <2>1. CASE Goes(r, "count")
    BY <2>1, GoesTo DEF Pcs, Finishing
  <2>2. CASE Leaves(r, "error")
    BY <2>2, LeavesWith
  <2> QED BY <1>6, <2>1, <2>2
<1>25. Good(new)'
  BY <1>20, <1>24
<1> QED BY <1>1, <1>15, <1>16, <1>17, <1>19, <1>23, <1>24, <1>25, Moves

------------------------------------------------------------------------------
(* The steps of downloads, of the janitor and of the machinery.            *)

LEMMA Elsewhere ==
    ASSUME ChunkInv, UNCHANGED <<now, upload, hashes, chunks, lock, req, drawn, outcome>>,
           BlobsOnlyGo, doomed' \in Stores \cup {None}, leaving' \subseteq Stores,
           record' = record \/ \E s \in Stores : record' = [record EXCEPT ![s] = 0]
    PROVE  ChunkInv'
<1>1. now' = now /\ upload' = upload /\ hashes' = hashes /\ chunks' = chunks /\ lock' = lock
      /\ req' = req /\ drawn' = drawn /\ links' = links /\ published' = published
      /\ counted' = counted
  BY DEF outcome
<1>2. SharedTypeOK /\ UploadGood /\ (\A s \in Stores : StoreGood(s)) /\ OneFinisher
      /\ CountKept /\ req \in [Requests -> RequestRecord]
  BY Unfolded
<1>3. record' \in [Stores -> Deadlines] /\ \A s \in Stores : record'[s] \in {0, record[s]}
  BY <1>2, Unfolded, DeadlinesFit DEF SharedTypeOK
<1>4. SharedTypeOK'
  BY <1>1, <1>2, <1>3 DEF SharedTypeOK, BlobsOnlyGo, Blob
<1>5. UploadGood'
  BY <1>1, <1>2, UploadKept DEF UploadGood
<1>6. ASSUME NEW s \in Stores PROVE StoreGood(s)'
  <2>1. StoreGood(s) /\ 0 <= now + Lifetime
    BY <1>2, Nats, Constants
  <2>2. record'[s] <= now + Lifetime /\ (s \notin drawn => record'[s] = 0)
    BY <1>3, <2>1 DEF StoreGood
  <2> QED BY <1>1, <2>1, <2>2, StoreKept DEF BlobsOnlyGo
<1>7. ASSUME NEW r \in Requests PROVE Good(req[r])'
  <2>1. PICK q \in RequestRecord : q = req[r] /\ Good(q) /\ req'[r] = q
    BY <1>1, Unfolded
  <2>2. Good(q)'
    <3>1. \A s \in drawn : s \in Stores
      BY <1>2 DEF SharedTypeOK
    <3> QED BY <1>1, <2>1, <3>1, GoodKept DEF BlobsOnlyGo
  <2> QED BY <2>1, <2>2 DEF Good, Honest, AfterPublication, BeforePublication, Active, Joined,
             HasStore
<1>8. OneFinisher'
  BY <1>1, <1>2 DEF OneFinisher
<1>9. CountKept'
  <2>1. Counting' \subseteq Counting
    BY <1>1 DEF Counting
  <2> QED BY <1>1, <2>1, CountStays
<1> QED BY <1>1, <1>2, <1>4, <1>5, <1>6, <1>7, <1>8, <1>9 DEF ChunkInv

LEMMA StepDownload ==
    ASSUME ChunkInv, NEW store \in Stores, Download(store)
    PROVE  ChunkInv'
<1>1. SharedTypeOK
  BY Unfolded
<1>2. leaving' \subseteq Stores /\ doomed' \in Stores \cup {None}
  BY <1>1 DEF Download, SharedTypeOK
<1>3. UNCHANGED <<now, upload, hashes, chunks, lock, req, drawn, outcome>>
      /\ record' = [record EXCEPT ![store] = 0] /\ BlobsOnlyGo
  BY BlobStays DEF Download
<1> QED BY <1>2, <1>3, Elsewhere

LEMMA StepUnlink ==
    ASSUME ChunkInv, NEW store \in Stores, Unlink(store)
    PROVE  ChunkInv'
<1>1. SharedTypeOK
  BY Unfolded
<1>2. leaving' \subseteq Stores /\ doomed' \in Stores \cup {None}
  BY <1>1 DEF Unlink, SharedTypeOK
<1>3. UNCHANGED <<now, upload, hashes, chunks, lock, req, drawn, outcome>>
      /\ record' = record /\ BlobsOnlyGo
  BY BlobGoes DEF Unlink, redis
<1> QED BY <1>2, <1>3, Elsewhere

LEMMA StepSweepInfo ==
    ASSUME ChunkInv, NEW store \in Stores, SweepInfo(store)
    PROVE  ChunkInv'
<1>1. SharedTypeOK
  BY Unfolded
<1>2. leaving' \subseteq Stores /\ doomed' \in Stores \cup {None}
  BY <1>1 DEF SweepInfo, SharedTypeOK
<1>3. UNCHANGED <<now, upload, hashes, chunks, lock, req, drawn, outcome>>
      /\ record' = record /\ BlobsOnlyGo
  BY BlobStays DEF SweepInfo, redis
<1> QED BY <1>2, <1>3, Elsewhere

LEMMA StepSweepRemove ==
    ASSUME ChunkInv, SweepRemove
    PROVE  ChunkInv'
<1>1. SharedTypeOK
  BY Unfolded
<1>2. leaving' \subseteq Stores /\ doomed' \in Stores \cup {None} /\ doomed \in Stores
  BY <1>1 DEF SweepRemove, SharedTypeOK
<1>3. UNCHANGED <<now, upload, hashes, chunks, lock, req, drawn, outcome>>
      /\ record' = record /\ BlobsOnlyGo
  BY <1>2, BlobGoes DEF SweepRemove, redis
<1> QED BY <1>2, <1>3, Elsewhere

(* A request that was answered asks nothing of any state.                  *)
LEMMA IdleGoodNext ==
    ASSUME NEW q \in RequestRecord, q.pc \in {"new", "done"}
    PROVE  Good(q)'
BY DEF Good, Honest, AfterPublication, BeforePublication, Active, Joined, HasStore,
   Claimed, Written, Completing, Filled, Finishing

LEMMA StepServerCrash ==
    ASSUME ChunkInv, ServerCrash
    PROVE  ChunkInv'
<1>1. now' = now /\ upload' = upload /\ hashes' = hashes /\ chunks' = chunks /\ lock' = lock
      /\ record' = record /\ blob' = blob /\ drawn' = drawn /\ links' = links
      /\ published' = published /\ counted' = counted /\ doomed' = None /\ leaving' = {}
  BY DEF ServerCrash, redis, outcome
<1>2. SharedTypeOK /\ UploadGood /\ (\A s \in Stores : StoreGood(s))
      /\ req \in [Requests -> RequestRecord]
  BY Unfolded
<1>3. PICK crashed : crashed = [NewRequest EXCEPT !.pc = "done", !.reply = "error"]
  OBVIOUS
<1>4. req' = [r \in Requests |-> IF req[r].pc \in {"new", "done"} THEN req[r] ELSE crashed]
  BY <1>3 DEF ServerCrash
<1>5. crashed \in RequestRecord /\ crashed.pc = "done"
  <2> HIDE DEF NewRequest
  <2> DEFINE one == [NewRequest EXCEPT !.pc = "done"]
  <2>1. one \in RequestRecord /\ one.pc = "done"
    BY NewRequestTyped DEF RequestRecord, Pcs
  <2>2. crashed = [one EXCEPT !.reply = "error"]
    BY <1>3, NewRequestTyped DEF RequestRecord
  <2> HIDE DEF one
  <2> QED BY <2>1, <2>2 DEF RequestRecord
<1>6. req' \in [Requests -> RequestRecord]
      /\ \A r \in Requests : req'[r].pc \in {"new", "done"}
  BY <1>2, <1>4, <1>5
<1>7. SharedTypeOK'
  BY <1>1, <1>2 DEF SharedTypeOK
<1>8. UploadGood'
  BY <1>1, <1>2, UploadKept DEF UploadGood
<1>9. ASSUME NEW s \in Stores PROVE StoreGood(s)'
  <2>1. StoreGood(s) /\ record'[s] <= now + Lifetime /\ (s \notin drawn => record'[s] = 0)
    BY <1>1, <1>2 DEF StoreGood
  <2> QED BY <1>1, <2>1, StoreKept
<1>10. ASSUME NEW r \in Requests PROVE Good(req[r])'
  <2>1. PICK q \in RequestRecord : q = req'[r] /\ q.pc \in {"new", "done"}
    BY <1>6
  <2>2. Good(q)'
    BY <2>1, IdleGoodNext
  <2> QED BY <2>1, <2>2 DEF Good, Honest, AfterPublication, BeforePublication, Active, Joined,
             HasStore
<1>11. OneFinisher'
  BY <1>6 DEF OneFinisher, Finishing
<1>12. CountKept'
  <2>1. Counting' \subseteq Counting
    BY <1>6 DEF Counting
  <2> QED BY <1>1, <2>1, CountStays
<1> QED BY <1>6, <1>7, <1>8, <1>9, <1>10, <1>11, <1>12 DEF ChunkInv

LEMMA StepEvict ==
    ASSUME ChunkInv, Evict
    PROVE  ChunkInv'
<1>1. now' = now /\ hashes' = hashes /\ chunks' = chunks /\ lock' = lock /\ record' = record
      /\ blob' = blob /\ req' = req /\ drawn' = drawn /\ links' = links
      /\ published' = published /\ counted' = counted /\ doomed' = doomed
      /\ leaving' = leaving /\ upload' = NoUpload /\ ~ Upload.published
  BY DEF Evict, outcome
<1>2. SharedTypeOK /\ UploadGood /\ (\A s \in Stores : StoreGood(s)) /\ OneFinisher
      /\ req \in [Requests -> RequestRecord]
  BY Unfolded
<1>3. ~ Upload'.published /\ Upload'.store = None /\ Hashes' = Hashes
      /\ \A s \in Stores : Received(s)' = Received(s)
  BY <1>1 DEF Upload, NoUpload, Hashes, Received
<1>4. upload'.store = None /\ upload'.deadline = 0 /\ upload'.published = FALSE
  BY <1>1 DEF NoUpload
<1>5. SharedTypeOK'
  <2>1. 0 \in Deadlines
    BY Unfolded, DeadlinesFit
  <2>2. upload' \in [store : Stores \cup {None}, settings : Settings \cup {None},
                     published : BOOLEAN, hashes : ChunkBytes, deadline : Deadlines]
    BY <1>1, <2>1, UnsetTyped DEF NoUpload
  <2> QED BY <1>1, <1>2, <1>4, <2>2 DEF SharedTypeOK
<1>6. UploadGood'
  <2>1. 0 <= now + UploadTTL
    BY Nats
  <2> QED BY <1>1, <1>2, <1>3, <1>4, <2>1 DEF UploadGood, Done
<1>7. ASSUME NEW s \in Stores PROVE StoreGood(s)'
  <2>1. StoreGood(s)
    BY <1>2
  <2>2. Counted(s)'
    BY <1>1, <1>3, <2>1 DEF StoreGood, Counted
  <2> QED BY <1>1, <1>3, <1>4, <2>1, <2>2, NoneAssumption DEF StoreGood, Done
<1>8. ASSUME NEW r \in Requests PROVE Good(req[r])'
  <2>1. PICK q \in RequestRecord : q = req[r] /\ Good(q) /\ req'[r] = q
    BY <1>1, Unfolded
  <2>2. HasStore(q) => q.store \in Stores
    BY <1>2, <2>1 DEF Good, Honest, SharedTypeOK
  <2>3. HasStore(q) /\ q.pc \in Filled => chunks[q.store].deadline <= chunks'[q.store].deadline
            /\ chunks'[q.store].deadline \in Nat /\ chunks'[q.store].got = chunks[q.store].got
    BY <1>1, <2>2, Nats
  <2>4. hashes'.deadline \in Nat /\ hashes.deadline <= hashes'.deadline
    BY <1>1, Nats
  <2>5. HasStore(q) /\ q.pc \in Written /\ blob'[q.store].there =>
            blob[q.store].there /\ blob'[q.store].bytes[q.index] = blob[q.store].bytes[q.index]
    BY <1>1
  <2>6. Good(q)'
    BY <1>1, <1>3, <2>1, <2>3, <2>4, <2>5, OthersBefore
  <2> QED BY <2>1, <2>6 DEF Good, Honest, AfterPublication, BeforePublication, Active, Joined,
             HasStore
<1>9. OneFinisher'
  BY <1>1, <1>2 DEF OneFinisher
<1>10. CountKept'
  <2>1. Counting' \subseteq Counting
    BY <1>1 DEF Counting
  <2> QED BY <1>1, <2>1, CountStays
<1> QED BY <1>1, <1>2, <1>5, <1>6, <1>7, <1>8, <1>9, <1>10 DEF ChunkInv

(* Time passes for nobody who has been waiting for too long, so what a     *)
(* request relies on is still there, and an upload that is forgotten has   *)
(* nobody left who knew it.                                                *)
LEMMA StepTick ==
    ASSUME ChunkInv, Tick
    PROVE  ChunkInv'
<1>1. now' = now + 1 /\ now < MaxTime /\ upload' = upload /\ hashes' = hashes
      /\ chunks' = chunks /\ lock' = lock /\ record' = record /\ blob' = blob /\ req' = req
      /\ drawn' = drawn /\ links' = links /\ published' = published /\ counted' = counted
      /\ doomed' = doomed /\ leaving' = leaving
  BY DEF Tick, redis, outcome
<1>2. SharedTypeOK /\ UploadGood /\ (\A s \in Stores : StoreGood(s)) /\ OneFinisher
      /\ req \in [Requests -> RequestRecord] /\ now \in 0..MaxTime /\ now \in Nat
  BY Unfolded
<1>3. now' \in 0..MaxTime /\ now + UploadTTL \in Nat /\ now + Lifetime \in Nat
      /\ now' + UploadTTL = now + UploadTTL + 1 /\ now' + Lifetime = now + Lifetime + 1
  BY <1>1, <1>2, Constants
<1>4. SharedTypeOK'
  BY <1>1, <1>2, <1>3 DEF SharedTypeOK
<1>5. ASSUME NEW r \in Requests, Active(req[r])
      PROVE  /\ req[r].since <= now' /\ now' <= req[r].since + Patience
             /\ now' < req[r].since + UploadTTL /\ req[r].since + UploadTTL \in Nat
  <2>1. now - req[r].since < Patience /\ req[r].since <= now
    BY <1>5, Unfolded DEF Tick, Active, Good, Honest
  <2>2. req[r].since \in Nat
    BY <1>2, DeadlinesFit DEF RequestRecord
  <2> QED BY <1>1, <1>2, <2>1, <2>2, Constants
<1>6. /\ Upload'.published => Upload.published
      /\ Upload'.store # None => Upload.store # None /\ Upload'.store = Upload.store
      /\ Upload'.store # None /\ Upload.published => Upload'.published
  <2>1. CASE now' <= upload.deadline
    <3>1. Upload' = upload /\ Upload = upload
      BY <1>1, <1>2, <2>1, Nats DEF Upload
    <3> QED BY <3>1
  <2>2. CASE ~ (now' <= upload.deadline)
    BY <1>1, <2>2 DEF Upload, NoUpload
  <2> QED BY <2>1, <2>2
<1>7. ASSUME Upload.published, ~ Upload'.published PROVE upload.deadline < now'
  BY <1>1, <1>2, <1>7, Nats, UploadNow DEF Upload
<1>8. UploadGood'
  <2>1. hashes'.deadline <= now' + UploadTTL /\ upload'.deadline <= now' + UploadTTL
    BY <1>1, <1>3, Nats
  <2>2. Done' = Done
    BY <1>1 DEF Done
  <2>3. Upload'.store # None /\ ~ Upload'.published => published[upload.store] = Unset
    BY <1>2, <1>6 DEF UploadGood
  <2> QED BY <1>1, <1>2, <2>1, <2>2, <2>3 DEF UploadGood
<1>9. ASSUME NEW s \in Stores, ~ Upload'.published PROVE Counted(s)'
  <2>1. SUFFICES ASSUME NEW c \in Received(s)'
                 PROVE  /\ chunks[s].deadline <= hashes.deadline /\ Hashes'[c] # None
                        /\ blob[s].there => blob[s].bytes[c] = Hashes'[c]
    BY <1>1 DEF Counted
  <2>2. now' <= chunks[s].deadline /\ c \in chunks[s].got /\ chunks[s].deadline \in Nat
    BY <1>1, <2>1, Nats DEF Received
  <2>3. c \in Received(s)
    BY <1>1, <1>2, <2>2 DEF Received
  <2>4. ~ Upload.published
    <3>1. SUFFICES ASSUME Upload.published PROVE FALSE
      OBVIOUS
    <3>2. chunks[s].deadline <= upload.deadline
      BY <1>2, <3>1 DEF StoreGood
    <3> QED BY <1>1, <1>2, <1>7, <1>9, <2>2, <3>1, <3>2, Nats
  <2>5. Counted(s)
    BY <1>2, <2>4 DEF StoreGood
  <2>6. chunks[s].deadline <= hashes.deadline
    BY <2>3, <2>5 DEF Counted
  <2>7. Hashes' = Hashes
    BY <1>1, <1>2, <2>2, <2>6, Nats DEF Hashes
  <2> QED BY <2>3, <2>5, <2>7 DEF Counted
<1>10. ASSUME NEW s \in Stores PROVE StoreGood(s)'
  <2>1. StoreGood(s)
    BY <1>2
  <2>2. chunks[s].deadline <= now' + UploadTTL /\ record[s] <= now' + Lifetime
    BY <1>1, <1>2, <1>3, <2>1, Nats DEF StoreGood
  <2>3. CASE Upload'.published
    BY <1>1, <1>6, <2>1, <2>2, <2>3 DEF StoreGood, Done
  <2>4. CASE ~ Upload'.published
    BY <1>1, <1>9, <2>1, <2>2, <2>4 DEF StoreGood, Done
  <2> QED BY <2>3, <2>4
<1>11. ASSUME NEW r \in Requests PROVE Good(req[r])'
  <2>1. PICK q \in RequestRecord : q = req[r] /\ Good(q) /\ req'[r] = q
    BY <1>1, Unfolded
  <2>2. Honest(q)'
    BY <1>1, <1>5, <2>1 DEF Good, Honest, Done
  <2>3. Good(q)'
    <3>1. CASE Upload'.published
      <4>1. AfterPublication(q)
        BY <1>6, <2>1, <3>1 DEF Good
      <4> QED BY <1>1, <2>2, <3>1, <4>1 DEF Good, AfterPublication
    <3>2. CASE ~ Upload'.published /\ Upload.published
      <4>1. ~ Joined(q)
        <5>1. SUFFICES ASSUME Joined(q) PROVE FALSE
          OBVIOUS
        <5>2. q.since + UploadTTL <= upload.deadline /\ Active(q)
          BY <2>1, <3>2, <5>1 DEF Good, AfterPublication, Active, Joined
        <5>3. now' < q.since + UploadTTL /\ q.since + UploadTTL \in Nat
          BY <1>5, <2>1, <5>2
        <5> QED BY <1>1, <1>2, <1>7, <3>2, <5>2, <5>3, Nats
      <4>2. BeforePublication(q)'
        BY <4>1 DEF BeforePublication, Joined, HasStore, Claimed, Written, Filled, Completing
      <4> QED BY <2>2, <3>2, <4>2 DEF Good
    <3>3. CASE ~ Upload'.published /\ ~ Upload.published
      <4>1. BeforePublication(q)
        BY <2>1, <3>3 DEF Good
      <4>2. q.pc \in Claimed => Hashes' = Hashes
        <5>1. SUFFICES ASSUME q.pc \in Claimed PROVE Hashes' = Hashes
          OBVIOUS
        <5>2. Active(q) /\ q.since + UploadTTL <= hashes.deadline
          BY <4>1, <5>1 DEF BeforePublication, Active, Claimed
        <5>3. now' < q.since + UploadTTL /\ q.since + UploadTTL \in Nat
          BY <1>5, <2>1, <5>2
        <5>4. now' <= hashes.deadline
          BY <1>1, <1>2, <5>2, <5>3, Nats
        <5> QED BY <1>1, <1>2, <5>4, Nats DEF Hashes
      <4>3. q.pc \in Completing => Hashes' = Hashes
        <5>1. SUFFICES ASSUME q.pc \in Completing PROVE Hashes' = Hashes
          OBVIOUS
        <5>2. Active(q) /\ q.pc \in Filled /\ q.store \in Stores
          BY <2>1, <3>3, <5>1, FilledReceived DEF Active, Filled, Completing
        <5>3. Received(q.store) = Chunks /\ q.since + UploadTTL <= chunks[q.store].deadline
          BY <2>1, <3>3, <4>1, <5>2, FilledReceived DEF BeforePublication
        <5>4. PICK c \in Chunks : TRUE
          BY Constants
        <5>5. chunks[q.store].deadline <= hashes.deadline
          BY <1>2, <3>3, <5>2, <5>3, <5>4 DEF StoreGood, Counted
        <5>6. now' < q.since + UploadTTL /\ q.since + UploadTTL \in Nat
          BY <1>5, <2>1, <5>2
        <5>7. now' <= hashes.deadline
          BY <1>1, <1>2, <5>2, <5>3, <5>5, <5>6, Nats
        <5> QED BY <1>1, <1>2, <5>7, Nats DEF Hashes
      <4>4. BeforePublication(q)'
        BY <1>1, <4>1, <4>2, <4>3 DEF BeforePublication
      <4> QED BY <2>2, <3>3, <4>4 DEF Good
    <3> QED BY <3>1, <3>2, <3>3
  <2> QED BY <2>1, <2>3 DEF Good, Honest, AfterPublication, BeforePublication, Active, Joined,
             HasStore
<1>12. OneFinisher'
  BY <1>1, <1>2 DEF OneFinisher
<1>13. CountKept'
  <2>1. Counting' \subseteq Counting
    BY <1>1 DEF Counting
  <2> QED BY <1>1, <2>1, CountStays
<1> QED BY <1>1, <1>2, <1>4, <1>8, <1>10, <1>11, <1>12, <1>13 DEF ChunkInv

------------------------------------------------------------------------------
LEMMA InitChunk == Init => ChunkInv
<1> SUFFICES ASSUME Init PROVE ChunkInv
  OBVIOUS
<1>1. now = 0 /\ 0 \in 0..MaxTime /\ 0 \in Deadlines /\ 0 <= now + UploadTTL
      /\ 0 <= now + Lifetime
  BY ChunkAssumption DEF Init, Deadlines
<1>2. upload.store = None /\ upload.published = FALSE /\ upload.deadline = 0
      /\ upload \in [store : Stores \cup {None}, settings : Settings \cup {None},
                     published : BOOLEAN, hashes : ChunkBytes, deadline : Deadlines]
  BY <1>1, UnsetTyped DEF Init, NoUpload
<1>3. NoBlob \in Blob /\ NoBlob.there = FALSE
  BY NoBlobTyped
<1>4. /\ hashes = [at |-> Unset, deadline |-> 0]
      /\ chunks = [s \in Stores |-> [got |-> {}, deadline |-> 0]]
      /\ lock = 0 /\ record = [s \in Stores |-> 0] /\ blob = [s \in Stores |-> NoBlob]
      /\ req = [r \in Requests |-> NewRequest] /\ doomed = None /\ leaving = {}
      /\ drawn = {} /\ links = {} /\ published = [s \in Stores |-> Unset] /\ counted = 0
  BY DEF Init
<1>5. SharedTypeOK
  <2> HIDE DEF NoBlob, Unset
  <2>1. hashes \in [at : ChunkBytes, deadline : Deadlines]
    BY <1>1, <1>4, UnsetTyped
  <2>2. blob \in [Stores -> Blob] /\ published \in [Stores -> ChunkBytes]
    BY <1>3, <1>4, UnsetTyped
  <2>3. chunks \in [Stores -> [got : SUBSET Chunks, deadline : Deadlines]]
        /\ record \in [Stores -> Deadlines]
    BY <1>1, <1>4
  <2> QED BY <1>1, <1>2, <1>4, <2>1, <2>2, <2>3 DEF SharedTypeOK, Blob
<1>6. Done = {}
  BY <1>4 DEF Done
<1>7. ~ Upload.published /\ Upload.store = None
  BY <1>2 DEF Upload, NoUpload
<1>8. UploadGood
  BY <1>1, <1>2, <1>4, <1>6, <1>7, FS_EmptySet DEF UploadGood
<1>9. ASSUME NEW s \in Stores PROVE StoreGood(s)
  <2>1. Received(s) = {}
    BY <1>4 DEF Received
  <2>2. Counted(s)
    BY <2>1 DEF Counted
  <2>3. chunks[s].got = {} /\ chunks[s].deadline = 0 /\ ~ blob[s].there
        /\ published[s] = Unset /\ record[s] = 0
    BY <1>3, <1>4
  <2> QED BY <1>1, <1>2, <1>6, <1>7, <2>2, <2>3, NoneAssumption DEF StoreGood
<1>10. req \in [Requests -> RequestRecord] /\ \A r \in Requests : req[r].pc = "new"
  BY <1>4, NewRequestTyped
<1>11. \A r \in Requests : Good(req[r])
  BY <1>10, IdleGood
<1>12. OneFinisher
  BY <1>10 DEF OneFinisher, Finishing
<1>13. CountKept
  <2>1. Counting = {}
    BY <1>10 DEF Counting
  <2> QED BY <1>4, <1>6, <2>1, FS_EmptySet DEF CountKept
<1> QED BY <1>5, <1>8, <1>9, <1>10, <1>11, <1>12, <1>13 DEF ChunkInv

LEMMA StepServed ==
    ASSUME ChunkInv, HoldersKeepTheirLock, NEW r \in Requests, Served(r)
    PROVE  ChunkInv'
<1>1. CASE \/ Load(r) \/ (\E store \in Stores : Create(r, store)) \/ Birth(r)
           \/ ClaimUpload(r) \/ Reload(r) \/ Claim(r) \/ Check(r) \/ Write(r)
  BY <1>1, StepLoad, StepCreate, StepBirth, StepClaimUpload, StepReload, StepClaim, StepCheck,
     StepWrite
<1>2. CASE TouchBlob(r) \/ RestorePTTL(r) \/ Restore(r) \/ RecordChunk(r) \/ Check2(r)
  BY <1>2, StepTouchBlob, StepRestorePTTL, StepRestore, StepRecordChunk, StepCheck2
<1>3. CASE Lock(r) \/ FinLoad(r) \/ FinHashes(r) \/ FinSet(r) \/ Adopt(r) \/ FinPTTL(r)
  BY <1>3, StepLock, StepFinLoad, StepFinHashes, StepFinSet, StepAdopt, StepFinPTTL
<1>4. CASE FinRestore(r) \/ FinTouch(r) \/ FinUndo(r) \/ Publish(r) \/ Count(r) \/ Unlock(r)
  BY <1>4, StepFinRestore, StepFinTouch, StepFinUndo, StepPublish, StepCount, StepUnlock
<1> QED BY <1>1, <1>2, <1>3, <1>4 DEF Served

LEMMA StutterChunk == ASSUME ChunkInv, UNCHANGED vars PROVE ChunkInv'
<1>1. UNCHANGED <<now, upload, hashes, chunks, lock, req, drawn, outcome>>
      /\ BlobsOnlyGo /\ record' = record /\ doomed' = doomed /\ leaving' = leaving
  BY BlobStays DEF vars, outcome
<1>2. doomed' \in Stores \cup {None} /\ leaving' \subseteq Stores
  BY <1>1, Unfolded DEF SharedTypeOK
<1> QED BY <1>1, <1>2, Elsewhere

LEMMA StepChunk ==
    ChunkInv /\ HoldersKeepTheirLock /\ [Next]_vars => ChunkInv'
<1> SUFFICES ASSUME ChunkInv, HoldersKeepTheirLock, [Next]_vars PROVE ChunkInv'
  OBVIOUS
<1>1. CASE \E r \in Requests : Arrive(r) \/ Served(r) \/ Failed(r)
  BY <1>1, StepArrive, StepServed, StepFailed
<1>2. CASE \E store \in Stores : Download(store) \/ Unlink(store) \/ SweepInfo(store)
  BY <1>2, StepDownload, StepUnlink, StepSweepInfo
<1>3. CASE SweepRemove \/ ServerCrash \/ Evict \/ Tick
  BY <1>3, StepSweepRemove, StepServerCrash, StepEvict, StepTick
<1>4. CASE UNCHANGED vars
  BY <1>4, StutterChunk
<1> QED BY <1>1, <1>2, <1>3, <1>4 DEF Next

(* The invariant, as long as no finishing request outlives its lock.       *)
THEOREM ChunkInvariant == Spec /\ []HoldersKeepTheirLock => []ChunkInv
<1>1. Init => ChunkInv
  BY InitChunk
<1>2. ChunkInv /\ HoldersKeepTheirLock /\ [Next]_vars => ChunkInv'
  BY StepChunk
<1> QED BY <1>1, <1>2, PTL DEF Spec

(* No finishing request outlives its lock if requests end within the       *)
(* lifetime of a lock.                                                     *)
THEOREM LocksOutlastRequests ==
    ASSUME Patience <= LockTTL
    PROVE  Spec => []HoldersKeepTheirLock
<1>1. Init => ChunkInv
  BY InitChunk
<1>2. ChunkInv => HoldersKeepTheirLock
  <2> SUFFICES ASSUME ChunkInv, NEW r \in Requests, req[r].pc \in Finishing
               PROVE  Locked
    BY DEF HoldersKeepTheirLock
  <2>1. Active(req[r]) /\ Good(req[r]) /\ req[r] \in RequestRecord
    BY Unfolded DEF Active, Finishing
  <2>2. lock # 0 /\ req[r].since + Patience <= lock /\ now <= req[r].since + Patience
    BY <2>1 DEF Good, Honest
  <2>3. req[r].since \in Nat /\ now \in Nat /\ lock \in Nat
    <3>1. now \in 0..MaxTime /\ lock \in Deadlines
      BY Unfolded DEF SharedTypeOK
    <3> QED BY <2>1, <3>1, DeadlinesFit DEF RequestRecord
  <2> QED BY <2>2, <2>3, Constants DEF Locked
<1>3. ChunkInv /\ HoldersKeepTheirLock /\ [Next]_vars => ChunkInv'
  BY StepChunk
<1> QED BY <1>1, <1>2, <1>3, PTL DEF Spec

(* The types of Redis, of the directory and of the requests.               *)
THEOREM ChunkTypesHold == Spec /\ []HoldersKeepTheirLock => []TypeOK
<1>1. Spec /\ []HoldersKeepTheirLock => []ChunkInv
  BY ChunkInvariant
<1>2. ChunkInv => TypeOK
  BY TypesHold
<1> QED BY <1>1, <1>2, PTL

(* A newId is answered only for a file published with all of its slices,   *)
(* and its blob never holds anything else: claimFileUploadChunk and the    *)
(* check after it, the slices counted per store key, and one finisher as   *)
(* long as none outlives its lock.                                         *)
THEOREM LinksAreWhole == Spec /\ []HoldersKeepTheirLock => []LinkIsWhole
<1>1. Spec /\ []HoldersKeepTheirLock => []ChunkInv
  BY ChunkInvariant
<1>2. ChunkInv => LinkIsWhole
  <2> SUFFICES ASSUME ChunkInv PROVE LinkIsWhole
    OBVIOUS
  <2> QED BY Unfolded DEF LinkIsWhole, UploadGood, StoreGood, Done
<1> QED BY <1>1, <1>2, PTL

(* A file is counted once however many requests tried to finish it, as     *)
(* long as none of them outlives its lock.                                 *)
THEOREM FilesAreCountedOnce == Spec /\ []HoldersKeepTheirLock => []CountedOnce
<1>1. Spec /\ []HoldersKeepTheirLock => []ChunkInv
  BY ChunkInvariant
<1>2. ChunkInv => CountedOnce
  <2> SUFFICES ASSUME ChunkInv PROVE CountedOnce
    OBVIOUS
  <2>1. PICK n \in Nat : n = Cardinality(Done)
    BY Unfolded, FS_CardinalityType DEF UploadGood
  <2>2. counted \in Nat /\ counted + (IF Counting # {} THEN 1 ELSE 0) <= n
    BY <2>1, Unfolded DEF SharedTypeOK, CountKept
  <2>3. counted <= n
    BY <2>2
  <2> QED BY <2>1, <2>3 DEF CountedOnce, Done
<1> QED BY <1>1, <1>2, PTL

(* Once its link is answered, the record of a file changes with a download *)
(* only: those who finish an upload work on one that is not published.     *)
LEMMA RecordsRest ==
    ASSUME ChunkInv, [Next]_vars
    PROVE  /\ now' = now \/ now' = now + 1
           /\ \A s \in links : record'[s] = record[s] \/ (record'[s] = 0 /\ Download(s))
<1>1. SharedTypeOK /\ UploadGood /\ \A r \in Requests : Good(req[r])
  BY Unfolded
<1>2. links \subseteq Done /\ links \subseteq Stores
  BY <1>1 DEF UploadGood, Done
<1>3. ASSUME NEW r \in Requests, req[r].pc \in Completing, NEW d,
             record' = [record EXCEPT ![req[r].store] = d]
      PROVE  \A s \in links : record'[s] = record[s]
  <2>1. published[req[r].store] = Unset
    <3>1. ~ Upload.published /\ HasStore(req[r])
      BY <1>1, <1>3 DEF Good, AfterPublication, HasStore, Completing
    <3> QED BY <1>1, <3>1 DEF Good, BeforePublication
  <2> QED BY <1>1, <1>2, <1>3, <2>1 DEF Done, SharedTypeOK
<1>4. ASSUME NEW r \in Requests, FinSet(r) \/ FinUndo(r)
      PROVE  now' = now /\ \A s \in links : record'[s] = record[s]
  <2>1. req[r].pc \in Completing /\ now' = now
    BY <1>4 DEF FinSet, FinUndo, Completing, outside
  <2>2. record' = record \/ \E d : record' = [record EXCEPT ![req[r].store] = d]
    BY <1>4 DEF FinSet, FinUndo
  <2> QED BY <1>3, <2>1, <2>2
<1>5. ASSUME NEW r \in Requests, Arrive(r) \/ Served(r) \/ Failed(r), ~ FinSet(r), ~ FinUndo(r)
      PROVE  now' = now /\ record' = record
  <2>1. CASE Arrive(r) \/ Failed(r)
    BY <2>1 DEF Arrive, Failed, redis, outside
  <2>2. CASE \/ Load(r) \/ (\E store \in Stores : Create(r, store)) \/ Birth(r)
             \/ ClaimUpload(r) \/ Reload(r) \/ Claim(r) \/ Check(r) \/ Write(r)
    BY <2>2 DEF Load, Create, Birth, ClaimUpload, Reload, Claim, Check, Write, redis, outside
  <2>3. CASE TouchBlob(r) \/ RestorePTTL(r) \/ Restore(r) \/ RecordChunk(r) \/ Check2(r)
    BY <2>3 DEF TouchBlob, RestorePTTL, Restore, RecordChunk, Check2, redis, outside
  <2>4. CASE Lock(r) \/ FinLoad(r) \/ FinHashes(r) \/ Adopt(r) \/ FinPTTL(r)
    BY <2>4 DEF Lock, FinLoad, FinHashes, Adopt, FinPTTL, redis, outside
  <2>5. CASE FinRestore(r) \/ FinTouch(r) \/ Publish(r) \/ Count(r) \/ Unlock(r)
    BY <2>5 DEF FinRestore, FinTouch, Publish, Count, Unlock, redis, outside
  <2> QED BY <1>5, <2>1, <2>2, <2>3, <2>4, <2>5 DEF Served
<1>6. CASE \E r \in Requests : Arrive(r) \/ Served(r) \/ Failed(r)
  BY <1>4, <1>5, <1>6
<1>7. ASSUME NEW store \in Stores, Download(store)
      PROVE  now' = now /\ \A s \in links :
                 record'[s] = record[s] \/ (record'[s] = 0 /\ Download(s))
  <2>1. record' = [record EXCEPT ![store] = 0] /\ now' = now
    BY <1>7 DEF Download
  <2> QED BY <1>1, <1>2, <1>7, <2>1 DEF SharedTypeOK
<1>8. CASE \E store \in Stores : Download(store) \/ Unlink(store) \/ SweepInfo(store)
  <2>1. PICK store \in Stores : Download(store) \/ Unlink(store) \/ SweepInfo(store)
    BY <1>8
  <2>2. CASE Download(store)
    BY <1>7, <2>2
  <2>3. CASE Unlink(store) \/ SweepInfo(store)
    BY <2>3 DEF Unlink, SweepInfo, redis
  <2> QED BY <2>1, <2>2, <2>3
<1>9. CASE SweepRemove \/ ServerCrash \/ Evict \/ Tick
  BY <1>9 DEF SweepRemove, ServerCrash, Evict, Tick, redis
<1>10. CASE UNCHANGED vars
  BY <1>10 DEF vars
<1> QED BY <1>6, <1>8, <1>9, <1>10 DEF Next

(* The record of a file whose link was answered ends with a download or    *)
(* its expiry: no failing request of finishFileUpload takes it away, as    *)
(* long as none outlives its lock.                                         *)
THEOREM LinksKeepTheirRecord == Spec /\ []HoldersKeepTheirLock => LinkKeepsItsRecord
<1> DEFINE Kept == \A store \in links : record'[store] # record[store] => Download(store)
<1>1. Spec /\ []HoldersKeepTheirLock => []ChunkInv
  BY ChunkInvariant
<1>2. ChunkInv /\ [Next]_vars => [Kept]_vars
  BY RecordsRest
<1> HIDE DEF Kept
<1>3. Spec /\ []HoldersKeepTheirLock => [][Kept]_vars
  BY <1>1, <1>2, PTL DEF Spec
<1> QED BY <1>3 DEF LinkKeepsItsRecord, Kept

(* A link that is gone, downloaded or expired, does not come back, as long *)
(* as no request that finishes its upload outlives its lock.               *)
THEOREM GoneLinksStayGone == Spec /\ []HoldersKeepTheirLock => LinkNeverComesBack
<1> DEFINE Kept == \A store \in links : RecordLive(store)' => RecordLive(store)
<1>1. Spec /\ []HoldersKeepTheirLock => []ChunkInv
  BY ChunkInvariant
<1>2. ChunkInv /\ [Next]_vars => [Kept]_vars
  <2> SUFFICES ASSUME ChunkInv, [Next]_vars, NEW store \in links, RecordLive(store)'
               PROVE  RecordLive(store)
    OBVIOUS
  <2>1. store \in Stores
    BY Unfolded DEF UploadGood, Done
  <2>2. now \in Nat /\ record[store] \in Nat
    BY <2>1, Nats
  <2>3. record'[store] # 0 /\ now' <= record'[store]
    BY DEF RecordLive
  <2>4. record'[store] = record[store] /\ (now' = now \/ now' = now + 1)
    BY <2>3, RecordsRest
  <2> QED BY <2>2, <2>3, <2>4 DEF RecordLive
<1> HIDE DEF Kept
<1>3. Spec /\ []HoldersKeepTheirLock => [][Kept]_vars
  BY <1>1, <1>2, PTL DEF Spec
<1> QED BY <1>3 DEF LinkNeverComesBack, Kept

------------------------------------------------------------------------------
(* The deadlines of a live file, when nothing fails.                       *)

(* A request that may still move the mtime of its blob.                    *)
Timing == {"touch", "pttl", "restore"}

Waits(s, pcs) == \E w \in Requests : req[w].pc \in pcs /\ req[w].store = s

(* How far the file under a store key came: the mtime of its record set on *)
(* the blob, or still to be set, or the record about to be deleted again.  *)
Settled(s) == s \in Done \/ Waits(s, {"publish"})
Named(s) == Settled(s) \/ Waits(s, {"fintouch"})
Begun(s) == Named(s) \/ Waits(s, {"finundo"})

(* What a request knows of the record and the blob it works on: a writer   *)
(* arrived before the mtime that is set, unless that is the record's.      *)
Timed(q) ==
    /\ q.pc \notin {"adopt", "finpttl", "finrestore"}
    /\ q.pc = "fintouch" => record[q.store] <= q.began + Lifetime + Patience
    /\ q.pc = "finundo" => ~ blob[q.store].there
    /\ q.pc = "restore" /\ blob[q.store].there =>
          Named(q.store) /\ record[q.store] <= now + q.ttl
    /\ q.pc \in Timing /\ blob[q.store].there =>
          \/ q.since <= blob[q.store].mtime
          \/ Settled(q.store) /\ record[q.store] <= blob[q.store].mtime + Patience

(* A record belongs to a file that came so far, and the mtime of a live    *)
(* file is its record's unless a request is about to restore it.           *)
StoreTimed(s) ==
    /\ record[s] # 0 => Begun(s)
    /\ blob[s].there /\ Settled(s) /\ RecordLive(s) /\ ~ Waits(s, Timing) =>
          record[s] <= blob[s].mtime + Patience

(* Nobody else has heard of the blob a request has just created.           *)
Fresh ==
    \A r \in Requests : req[r].pc = "birth" =>
        /\ record[req[r].store] = 0 /\ upload.store # req[r].store
        /\ \A w \in Requests \ {r} : HasStore(req[w]) => req[w].store # req[r].store

ExpiryInv ==
    /\ \A r \in Requests : Timed(req[r])
    /\ \A s \in Stores : StoreTimed(s)
    /\ Fresh

Numbers ==
    /\ now \in Nat
    /\ \A s \in Stores : record[s] \in Nat /\ blob[s].mtime \in Nat
    /\ \A r \in Requests : req[r].since \in Nat /\ req[r].began \in Nat /\ req[r].ttl \in Nat

LEMMA NumbersHold == ASSUME ChunkInv PROVE Numbers
<1>1. SharedTypeOK /\ req \in [Requests -> RequestRecord]
  BY Unfolded
<1>2. (\A d \in Deadlines : d \in Nat) /\ now \in Nat
  BY DeadlinesFit, Unfolded
<1>3. \A t \in 0..MaxTime : t \in Nat
  BY Constants
<1>4. \A t \in 0..Lifetime : t \in Nat
  BY Constants
<1>5. \A s \in Stores : record[s] \in Nat /\ blob[s].mtime \in Nat
  BY <1>1, <1>2 DEF SharedTypeOK
<1>6. \A r \in Requests : req[r].since \in Nat /\ req[r].began \in Nat /\ req[r].ttl \in Nat
  BY <1>1, <1>3, <1>4 DEF RequestRecord
<1> QED BY <1>2, <1>5, <1>6 DEF Numbers

LEMMA NumbersNext == ASSUME ChunkInv' PROVE Numbers'
<1>1. SharedTypeOK' /\ req' \in [Requests -> RequestRecord]
  BY DEF ChunkInv
<1>2. now' \in 0..MaxTime
  BY <1>1 DEF SharedTypeOK
<1>3. (\A d \in Deadlines : d \in Nat) /\ now' \in Nat
  BY <1>2, DeadlinesFit
<1>4. \A t \in 0..MaxTime : t \in Nat
  BY Constants
<1>5. \A t \in 0..Lifetime : t \in Nat
  BY Constants
<1>6. \A s \in Stores : record'[s] \in Nat /\ blob'[s].mtime \in Nat
  BY <1>1, <1>3 DEF SharedTypeOK
<1>7. \A r \in Requests : req'[r].since \in Nat /\ req'[r].began \in Nat /\ req'[r].ttl \in Nat
  BY <1>1, <1>4, <1>5 DEF RequestRecord
<1> QED BY <1>3, <1>6, <1>7 DEF Numbers

(* Requests of the same place in the handler are at the same files.        *)
LEMMA WaitsSame ==
    ASSUME ChunkInv, NEW r \in Requests, NEW new, req' = [req EXCEPT ![r] = new],
           NEW s, NEW pcs,
           req[r].pc \in pcs /\ req[r].store = s <=> new.pc \in pcs /\ new.store = s
    PROVE  Waits(s, pcs)' <=> Waits(s, pcs)
<1>1. req'[r] = new /\ \A w \in Requests \ {r} : req'[w] = req[w]
  BY Unfolded
<1> QED BY <1>1 DEF Waits

(* What a step leaves of the time of a file, for the requests that did not *)
(* take the step.                                                          *)
KeepsTime(s) ==
    /\ record'[s] \in {record[s], 0} \/ ~ Named(s)
    /\ Settled(s) => Settled(s)'
    /\ Named(s) => Named(s)' \/ ~ blob'[s].there
    /\ \/ blob'[s] = blob[s]
       \/ ~ blob'[s].there
       \/ /\ blob[s].there
          /\ \/ now <= blob'[s].mtime
             \/ Settled(s)' /\ record'[s] <= blob'[s].mtime + Patience

LEMMA TimedKept ==
    ASSUME ChunkInv, ChunkInv', NEW w \in Requests, NEW q, q = req[w], Timed(q),
           now' \in {now, now + 1}, \A s \in drawn : KeepsTime(s)
    PROVE  Timed(q)'
<1>1. CASE q.pc \in Timing \cup {"fintouch", "finundo"}
  <2>1. HasStore(req[w])
    BY <1>1 DEF HasStore, Timing
  <2>2. PICK s \in Stores : s = q.store /\ s \in drawn
    BY <2>1, OwnStore
  <2>3. KeepsTime(s)
    BY <2>2
  <2>4. /\ record[s] \in Nat /\ record'[s] \in Nat /\ blob[s].mtime \in Nat
        /\ blob'[s].mtime \in Nat /\ now \in Nat
        /\ q.since \in Nat /\ q.began \in Nat /\ q.ttl \in Nat
        /\ Patience \in Nat /\ Lifetime \in Nat
    BY NumbersHold, NumbersNext, Constants DEF Numbers
  <2>5. q.since <= now
    BY <1>1, Unfolded DEF Good, Honest, Active, Timing
  <2>6. q.pc = "fintouch" => Named(s)
    BY <2>2 DEF Named, Waits
  <2>7. q.pc = "fintouch" => record'[s] <= q.began + Lifetime + Patience
    BY <2>2, <2>3, <2>4, <2>6 DEF Timed, KeepsTime
  <2>8. q.pc = "finundo" => ~ blob'[s].there
    BY <2>2, <2>3 DEF Timed, KeepsTime
  <2>9. ASSUME q.pc = "restore", blob'[s].there
        PROVE  Named(s)' /\ record'[s] <= now' + q.ttl
    <3>1. blob[s].there
      BY <2>3, <2>9 DEF KeepsTime
    <3>2. Named(s) /\ record[s] <= now + q.ttl
      BY <2>2, <2>9, <3>1 DEF Timed
    <3>3. record'[s] \in {record[s], 0} /\ Named(s)'
      BY <2>3, <2>9, <3>2 DEF KeepsTime
    <3> QED BY <2>4, <3>2, <3>3
  <2>10. ASSUME q.pc \in Timing, blob'[s].there
         PROVE  \/ q.since <= blob'[s].mtime
                \/ Settled(s)' /\ record'[s] <= blob'[s].mtime + Patience
    <3>1. CASE blob'[s] = blob[s]
      <4>1. CASE q.since <= blob[s].mtime
        BY <3>1, <4>1
      <4>2. CASE ~ (q.since <= blob[s].mtime)
        <5>1. Settled(s) /\ record[s] <= blob[s].mtime + Patience
          BY <2>2, <2>10, <3>1, <4>2 DEF Timed
        <5>2. record'[s] \in {record[s], 0} /\ Settled(s)'
          BY <2>3, <5>1 DEF KeepsTime, Named
        <5> QED BY <2>4, <3>1, <5>1, <5>2
      <4> QED BY <4>1, <4>2
    <3>2. CASE now <= blob'[s].mtime
      BY <2>4, <2>5, <3>2
    <3> QED BY <2>3, <2>10, <3>1, <3>2 DEF KeepsTime
  <2>11. q.pc \notin {"adopt", "finpttl", "finrestore"}
    BY DEF Timed
  <2> QED BY <2>2, <2>7, <2>8, <2>9, <2>10, <2>11 DEF Timed
<1>2. CASE q.pc \notin Timing \cup {"fintouch", "finundo"}
  BY <1>2 DEF Timed, Timing
<1> QED BY <1>1, <1>2

(* What makes a file timed after a step.                                   *)
LEMMA StoreTimedNext ==
    ASSUME NEW s \in Stores, ExpiryInv,
           record'[s] # 0 => Begun(s)', now' >= now, now \in Nat, now' \in Nat, record[s] \in Nat,
           \/ ~ blob'[s].there
           \/ record'[s] = 0
           \/ Waits(s, Timing)'
           \/ ~ Settled(s)'
           \/ record'[s] <= blob'[s].mtime + Patience
           \/ /\ blob'[s] = blob[s] /\ record'[s] = record[s]
              /\ Settled(s) /\ ~ Waits(s, Timing)
    PROVE  StoreTimed(s)'
<1>1. StoreTimed(s)
  BY DEF ExpiryInv
<1>2. ASSUME blob'[s].there, Settled(s)', RecordLive(s)', ~ Waits(s, Timing)'
      PROVE  record'[s] <= blob'[s].mtime + Patience
  <2>1. record'[s] # 0 /\ now' <= record'[s]
    BY <1>2 DEF RecordLive
  <2>2. CASE record'[s] <= blob'[s].mtime + Patience
    BY <2>2
  <2>3. CASE blob'[s] = blob[s] /\ record'[s] = record[s] /\ Settled(s) /\ ~ Waits(s, Timing)
    <3>1. RecordLive(s)
      BY <2>1, <2>3 DEF RecordLive
    <3> QED BY <1>1, <1>2, <2>3, <3>1 DEF StoreTimed
  <2> QED BY <1>2, <2>1, <2>2, <2>3
<1> QED BY <1>2 DEF StoreTimed

(* A step of one request.                                                  *)
LEMMA Times ==
    ASSUME ChunkInv, ChunkInv', ExpiryInv, NEW r \in Requests, NEW new,
           req' = [req EXCEPT ![r] = new], now' = now,
           \A s \in drawn : KeepsTime(s), Timed(new)',
           \A s \in Stores : StoreTimed(s)', Fresh'
    PROVE  ExpiryInv'
<1>1. req'[r] = new /\ \A w \in Requests \ {r} : req'[w] = req[w]
  BY Unfolded
<1>2. ASSUME NEW w \in Requests PROVE Timed(req[w])'
  <2>1. PICK q : q = req'[w]
    OBVIOUS
  <2>2. Timed(q)'
    <3>1. CASE w = r
      BY <1>1, <2>1, <3>1
    <3>2. CASE w # r
      <4>1. q = req[w] /\ Timed(q)
        BY <1>1, <2>1, <3>2 DEF ExpiryInv
      <4> QED BY <4>1, TimedKept
    <3> QED BY <3>1, <3>2
  <2> QED BY <2>1, <2>2 DEF Timed, Named, Settled, Waits
<1> QED BY <1>2 DEF ExpiryInv

(* A request that is not the one that moved waits where it did.            *)
LEMMA WaitsLeft ==
    ASSUME ChunkInv, NEW r \in Requests, NEW new, req' = [req EXCEPT ![r] = new],
           NEW s, NEW pcs, Waits(s, pcs), ~ (req[r].pc \in pcs /\ req[r].store = s)
    PROVE  Waits(s, pcs)'
<1>1. \A w \in Requests \ {r} : req'[w] = req[w]
  BY Unfolded
<1> QED BY <1>1 DEF Waits

LEMMA PhasesSame ==
    ASSUME ChunkInv, NEW r \in Requests, NEW new, req' = [req EXCEPT ![r] = new],
           published' = published,
           req[r].pc \notin {"publish", "fintouch", "finundo"},
           new.pc \notin {"publish", "fintouch", "finundo"}, NEW s
    PROVE  (Settled(s)' <=> Settled(s)) /\ (Named(s)' <=> Named(s)) /\ (Begun(s)' <=> Begun(s))
<1>1. Done' = Done
  BY DEF Done
<1>2. Waits(s, {"publish"})' <=> Waits(s, {"publish"})
  BY WaitsSame
<1>3. Waits(s, {"fintouch"})' <=> Waits(s, {"fintouch"})
  BY WaitsSame
<1>4. Waits(s, {"finundo"})' <=> Waits(s, {"finundo"})
  BY WaitsSame
<1> QED BY <1>1, <1>2, <1>3, <1>4 DEF Settled, Named, Begun

LEMMA PhasesElsewhere ==
    ASSUME ChunkInv, NEW r \in Requests, NEW new, req' = [req EXCEPT ![r] = new],
           NEW s, req[r].store # s, new.store # s, s \in Done' <=> s \in Done
    PROVE  (Settled(s)' <=> Settled(s)) /\ (Named(s)' <=> Named(s)) /\ (Begun(s)' <=> Begun(s))
<1>1. Waits(s, {"publish"})' <=> Waits(s, {"publish"})
  BY WaitsSame
<1>2. Waits(s, {"fintouch"})' <=> Waits(s, {"fintouch"})
  BY WaitsSame
<1>3. Waits(s, {"finundo"})' <=> Waits(s, {"finundo"})
  BY WaitsSame
<1> QED BY <1>1, <1>2, <1>3 DEF Settled, Named, Begun

(* A file whose record and blob stay, or whose blob goes.                  *)
LEMMA StoreUntouched ==
    ASSUME ChunkInv, ExpiryInv, NEW r \in Requests, NEW new, req' = [req EXCEPT ![r] = new],
           now' = now, NEW s \in Stores, record'[s] = record[s],
           blob'[s] = blob[s] \/ ~ blob'[s].there,
           Settled(s)' => Settled(s), Begun(s) => Begun(s)',
           req[r].pc \notin Timing \/ req[r].store # s \/ ~ blob'[s].there
    PROVE  StoreTimed(s)'
<1>1. now \in Nat /\ record[s] \in Nat
  BY NumbersHold DEF Numbers
<1>2. record'[s] # 0 => Begun(s)'
  BY DEF ExpiryInv, StoreTimed
<1>3. CASE ~ blob'[s].there
  BY <1>1, <1>2, <1>3, StoreTimedNext
<1>4. CASE blob'[s].there /\ Settled(s)' /\ ~ Waits(s, Timing)'
  <2>1. ~ Waits(s, Timing)
    BY <1>4, WaitsLeft
  <2> QED BY <1>1, <1>2, <1>4, <2>1, StoreTimedNext
<1>5. CASE ~ Settled(s)' \/ Waits(s, Timing)'
  BY <1>1, <1>2, <1>5, StoreTimedNext
<1> QED BY <1>3, <1>4, <1>5

LEMMA FreshKept ==
    ASSUME ChunkInv, ExpiryInv, NEW r \in Requests, NEW new, req' = [req EXCEPT ![r] = new],
           new.pc # "birth",
           HasStore(new) =>
               (HasStore(req[r]) /\ new.store = req[r].store) \/ new.store = upload.store,
           \/ upload'.store \in {upload.store, None}
           \/ HasStore(req[r]) /\ upload'.store = req[r].store,
           \A s \in Stores :
               record'[s] \in {record[s], 0} \/ (HasStore(req[r]) /\ s = req[r].store)
    PROVE  Fresh'
<1>1. req'[r] = new /\ \A w \in Requests \ {r} : req'[w] = req[w]
  BY Unfolded
<1>2. ASSUME NEW b \in Requests, req'[b].pc = "birth"
      PROVE  /\ record'[req'[b].store] = 0 /\ upload'.store # req'[b].store
             /\ \A w \in Requests \ {b} : HasStore(req'[w]) => req'[w].store # req'[b].store
  <2>1. b # r /\ req'[b] = req[b] /\ req[b].pc = "birth"
    BY <1>1, <1>2
  <2>2. /\ record[req[b].store] = 0 /\ upload.store # req[b].store
        /\ \A w \in Requests \ {b} : HasStore(req[w]) => req[w].store # req[b].store
    BY <2>1 DEF ExpiryInv, Fresh
  <2>3. req[b].store \in Stores
    BY <2>1, OwnStore DEF HasStore
  <2>4. HasStore(req[r]) => req[r].store # req[b].store
    BY <2>1, <2>2
  <2>5. record'[req[b].store] = 0
    BY <2>2, <2>3, <2>4
  <2>6. upload'.store # req[b].store
    BY <2>2, <2>3, <2>4, NoneAssumption
  <2>7. ASSUME NEW w \in Requests \ {b}, HasStore(req'[w])
        PROVE  req'[w].store # req[b].store
    <3>1. CASE w = r
      BY <1>1, <2>2, <2>4, <2>7, <3>1
    <3>2. CASE w # r
      BY <1>1, <2>2, <2>7, <3>2
    <3> QED BY <3>1, <3>2
  <2> QED BY <2>1, <2>5, <2>6, <2>7
<1> QED BY <1>2 DEF Fresh, HasStore

(* The places of the handler that neither set a time nor wait for one.     *)
Quieted == {"new", "load", "create", "claimupload", "reload", "claim", "check", "write", "sadd",
            "check2", "lock", "finload", "finhashes", "finset", "count", "unlock", "done"}

(* A request moves to such a place, with its store key or the one found.   *)
Plainly(r) ==
    \E new :
        /\ req' = [req EXCEPT ![r] = new] /\ new.pc \in Quieted
        /\ HasStore(new) =>
              (HasStore(req[r]) /\ new.store = req[r].store) \/ new.store = upload.store

LEMMA Plain ==
    ASSUME ChunkInv, ChunkInv', ExpiryInv, NEW r \in Requests, Plainly(r),
           \/ req[r].pc \in Quieted \cup {"birth"}
           \/ HasStore(req[r]) /\ req[r].pc \in Timing /\ ~ blob'[req[r].store].there,
           \/ upload'.store \in {upload.store, None}
           \/ HasStore(req[r]) /\ upload'.store = req[r].store,
           record' = record, now' = now, published' = published,
           \A s \in Stores : blob'[s] = blob[s] \/ ~ blob'[s].there
    PROVE  ExpiryInv'
<1>1. PICK new :
          /\ req' = [req EXCEPT ![r] = new] /\ new.pc \in Quieted
          /\ HasStore(new) =>
                (HasStore(req[r]) /\ new.store = req[r].store) \/ new.store = upload.store
  BY DEF Plainly
<1>2. req[r].pc \notin {"publish", "fintouch", "finundo"}
      /\ new.pc \notin {"publish", "fintouch", "finundo", "birth"}
  BY <1>1 DEF Quieted, Timing
<1>3. \A s : (Settled(s)' <=> Settled(s)) /\ (Named(s)' <=> Named(s)) /\ (Begun(s)' <=> Begun(s))
  BY <1>1, <1>2, PhasesSame
<1>4. \A s \in drawn : KeepsTime(s)
  <2>1. drawn \subseteq Stores
    BY Unfolded DEF SharedTypeOK
  <2> QED BY <1>3, <2>1 DEF KeepsTime
<1>5. Timed(new)'
  BY <1>1 DEF Timed, Quieted, Timing
<1>6. ASSUME NEW s \in Stores PROVE StoreTimed(s)'
  <2>1. req[r].pc \notin Timing \/ req[r].store # s \/ ~ blob'[s].there
    BY DEF Quieted, Timing
  <2> QED BY <1>1, <1>3, <2>1, StoreUntouched
<1>7. Fresh'
  BY <1>1, <1>2, FreshKept
<1> QED BY <1>1, <1>4, <1>5, <1>6, <1>7, Times

(* The rest of the system takes records and blobs away, and time passes.   *)
LEMMA PlainElsewhere ==
    ASSUME ChunkInv, ChunkInv', ExpiryInv, req' = req, now' \in {now, now + 1},
           published' = published, upload'.store \in {upload.store, None},
           \A s \in Stores : record'[s] \in {record[s], 0},
           \A s \in Stores : blob'[s] = blob[s] \/ ~ blob'[s].there
    PROVE  ExpiryInv'
<1>1. Done' = Done
  BY DEF Done
<1>2. \A s, pcs : Waits(s, pcs)' <=> Waits(s, pcs)
  BY DEF Waits
<1>3. \A s : (Settled(s)' <=> Settled(s)) /\ (Named(s)' <=> Named(s)) /\ (Begun(s)' <=> Begun(s))
  BY <1>1, <1>2 DEF Settled, Named, Begun
<1>4. \A s \in drawn : KeepsTime(s)
  <2>1. drawn \subseteq Stores
    BY Unfolded DEF SharedTypeOK
  <2> QED BY <1>3, <2>1 DEF KeepsTime
<1>5. ASSUME NEW w \in Requests PROVE Timed(req[w])'
  <2>1. PICK q : q = req[w]
    OBVIOUS
  <2>2. Timed(q)
    BY <2>1 DEF ExpiryInv
  <2>3. Timed(q)'
    BY <1>4, <2>1, <2>2, TimedKept
  <2> QED BY <2>1, <2>3 DEF Timed, Named, Settled, Waits
<1>6. ASSUME NEW s \in Stores PROVE StoreTimed(s)'
  <2>1. now \in Nat /\ now' \in Nat /\ now' >= now /\ record[s] \in Nat
    BY NumbersHold, NumbersNext DEF Numbers
  <2>2. record'[s] # 0 => Begun(s)'
    BY <1>3 DEF ExpiryInv, StoreTimed
  <2> QED BY <1>2, <1>3, <2>1, <2>2, StoreTimedNext
<1>7. Fresh'
  <2>1. ASSUME NEW b \in Requests, req[b].pc = "birth"
        PROVE  record'[req[b].store] = 0 /\ upload'.store # req[b].store
    <3>1. req[b].store \in Stores
      BY <2>1, OwnStore DEF HasStore
    <3> QED BY <2>1, <3>1, NoneAssumption DEF ExpiryInv, Fresh
  <2> QED BY <2>1 DEF ExpiryInv, Fresh, HasStore
<1> QED BY <1>5, <1>6, <1>7 DEF ExpiryInv

(* The ways to such a place.                                               *)
LEMMA GoesPlainly ==
    ASSUME ChunkInv, NEW r \in Requests, NEW pc \in Quieted, Goes(r, pc),
           HasStore(req[r]) \/ pc = "create"
    PROVE  Plainly(r)
<1>1. pc \in Pcs
  BY DEF Quieted, Pcs, Finishing
<1>2. PICK new \in RequestRecord :
          /\ req' = [req EXCEPT ![r] = new] /\ Same(req[r], new)
          /\ new.pc = pc /\ new.store = req[r].store /\ new.reply = req[r].reply
  BY <1>1, GoesTo
<1> QED BY <1>2 DEF Plainly, HasStore

LEMMA LeavesPlainly ==
    ASSUME ChunkInv, NEW r \in Requests, NEW reply \in {"none", "error", "id"}, Leaves(r, reply),
           HasStore(req[r])
    PROVE  Plainly(r)
<1>1. PICK new \in RequestRecord :
          /\ req' = [req EXCEPT ![r] = new] /\ Same(req[r], new)
          /\ new.pc = "unlock" /\ new.store = req[r].store /\ new.reply = reply
  BY LeavesWith
<1> QED BY <1>1 DEF Plainly, Quieted

LEMMA EndsPlainly ==
    ASSUME NEW r \in Requests, NEW reply, NEW store, Replies(r, reply) \/ RepliesId(r, store)
    PROVE  Plainly(r)
<1>1. PICK answer :
          req' = [req EXCEPT ![r] = [NewRequest EXCEPT !.pc = "done", !.reply = answer]]
  BY DEF Replies, RepliesId
<1>2. PICK new : new = [NewRequest EXCEPT !.pc = "done", !.reply = answer]
  OBVIOUS
<1>3. new.pc = "done"
  BY <1>2 DEF NewRequest
<1> QED BY <1>1, <1>2, <1>3 DEF Plainly, Quieted, HasStore

LEMMA AnswersPlainly ==
    ASSUME NEW r \in Requests, NEW u, AnswerPublished(r, u)
    PROVE  Plainly(r)
BY EndsPlainly DEF AnswerPublished

LEMMA JoinsPlainly ==
    ASSUME ChunkInv, NEW r \in Requests, Upload.store # None, Joins(r, Upload)
    PROVE  Plainly(r)
<1>1. CASE AnswerPublished(r, Upload) \/ Replies(r, "error")
  BY <1>1, AnswersPlainly, EndsPlainly
<1>2. CASE req' = [req EXCEPT ![r].pc = "claim", ![r].store = Upload.store]
  <2> DEFINE one == [req[r] EXCEPT !.pc = "claim"]
             new == [one EXCEPT !.store = Upload.store]
  <2>1. req \in [Requests -> RequestRecord]
    BY Unfolded
  <2>2. req' = [req EXCEPT ![r] = new]
    BY <1>2, <2>1
  <2>3. one \in RequestRecord /\ one.pc = "claim"
    BY <2>1 DEF RequestRecord, Pcs
  <2> HIDE DEF one
  <2>4. new.pc = "claim" /\ new.store = Upload.store
    BY <2>3 DEF RequestRecord
  <2> HIDE DEF new
  <2>5. Upload.store = upload.store
    BY UploadNow
  <2> QED BY <2>2, <2>4, <2>5 DEF Plainly, Quieted
<1> QED BY <1>1, <1>2 DEF Joins

(* The steps of a request that set no time.                                *)
LEMMA PlainStep ==
    ASSUME ChunkInv, ChunkInv', ExpiryInv, NEW r \in Requests, Plainly(r),
           req[r].pc \in Quieted,
           UNCHANGED <<upload, record, now, published, blob>>
    PROVE  ExpiryInv'
BY Plain

LEMMA FreeArrive ==
    ASSUME ChunkInv, ChunkInv', ExpiryInv, NEW r \in Requests, Arrive(r)
    PROVE  ExpiryInv'
<1>1. req[r].pc = "new" /\ UNCHANGED <<upload, record, now, published, blob>>
  BY DEF Arrive, redis, outside, outcome
<1>2. PICK index, bytes, settings :
          req' = [req EXCEPT ![r] = [NewRequest EXCEPT !.pc = "load", !.index = index,
                                                       !.bytes = bytes, !.settings = settings,
                                                       !.since = now]]
  BY DEF Arrive
<1>3. PICK new : new = [NewRequest EXCEPT !.pc = "load", !.index = index, !.bytes = bytes,
                                          !.settings = settings, !.since = now]
  OBVIOUS
<1>4. new.pc = "load"
  BY <1>3 DEF NewRequest
<1>5. Plainly(r)
  BY <1>2, <1>3, <1>4 DEF Plainly, Quieted, HasStore
<1> QED BY <1>1, <1>5, PlainStep DEF Quieted

LEMMA FreeLoad ==
    ASSUME ChunkInv, ChunkInv', ExpiryInv, NEW r \in Requests, Load(r)
    PROVE  ExpiryInv'
<1>1. req[r].pc = "load" /\ UNCHANGED <<upload, record, now, published, blob>>
  BY DEF Load, redis, outside
<1>2. CASE Upload.store = None
  <2>1. Goes(r, "create")
    BY <1>2 DEF Load
  <2> QED BY <1>1, <2>1, GoesPlainly, PlainStep DEF Quieted
<1>3. CASE Upload.store # None
  <2>1. Joins(r, Upload)
    BY <1>3 DEF Load
  <2> QED BY <1>1, <1>3, <2>1, JoinsPlainly, PlainStep DEF Quieted
<1> QED BY <1>2, <1>3

LEMMA FreeClaimUpload ==
    ASSUME ChunkInv, ChunkInv', ExpiryInv, NEW r \in Requests, ClaimUpload(r), ~ Faults
    PROVE  ExpiryInv'
<1>1. req[r].pc = "claimupload" /\ UNCHANGED <<record, now, published>> /\ HasStore(req[r])
  BY DEF ClaimUpload, outside, HasStore
<1>2. blob' = blob /\ (Goes(r, "claim") \/ Goes(r, "reload"))
  BY DEF ClaimUpload
<1>3. Plainly(r)
  BY <1>1, <1>2, GoesPlainly DEF Quieted
<1>4. upload' = upload \/ upload'.store = req[r].store
  BY DEF ClaimUpload, NoUpload
<1> QED BY <1>1, <1>2, <1>3, <1>4, Plain DEF Quieted

LEMMA FreeReload ==
    ASSUME ChunkInv, ChunkInv', ExpiryInv, NEW r \in Requests, Reload(r)
    PROVE  ExpiryInv'
<1>1. req[r].pc = "reload" /\ UNCHANGED <<upload, record, now, published>>
      /\ blob' = [blob EXCEPT ![req[r].store] = NoBlob]
  BY DEF Reload, outside, redis
<1>2. Plainly(r)
  BY EndsPlainly, JoinsPlainly DEF Reload
<1>3. \A s \in Stores : blob'[s] = blob[s] \/ ~ blob'[s].there
  <2>1. blob \in [Stores -> Blob]
    BY Unfolded DEF SharedTypeOK, Blob
  <2> QED BY <1>1, <2>1, NoBlobTyped
<1> QED BY <1>1, <1>2, <1>3, Plain DEF Quieted

LEMMA FreeClaim ==
    ASSUME ChunkInv, ChunkInv', ExpiryInv, NEW r \in Requests, Claim(r) \/ Check(r) \/ Check2(r)
    PROVE  ExpiryInv'
<1>1. req[r].pc \in {"claim", "check", "check2"}
      /\ UNCHANGED <<upload, record, now, published, blob>> /\ HasStore(req[r])
  BY DEF Claim, Check, Check2, outside, redis, HasStore
<1>2. \/ Goes(r, "check") \/ Goes(r, "write") \/ Replies(r, "error") \/ Replies(r, "ok")
      \/ AnswerPublished(r, Upload)
  BY DEF Claim, Check, Check2
<1>3. Plainly(r)
  BY <1>1, <1>2, GoesPlainly, EndsPlainly, AnswersPlainly DEF Quieted
<1> QED BY <1>1, <1>3, PlainStep DEF Quieted

LEMMA FreeRecordChunk ==
    ASSUME ChunkInv, ChunkInv', ExpiryInv, NEW r \in Requests, RecordChunk(r)
    PROVE  ExpiryInv'
<1>1. req[r].pc = "sadd" /\ UNCHANGED <<record, now, published, blob>> /\ HasStore(req[r])
  BY DEF RecordChunk, outside, outcome, HasStore
<1>2. Goes(r, "lock") \/ Goes(r, "check2")
  BY DEF RecordChunk
<1>3. Plainly(r)
  BY <1>1, <1>2, GoesPlainly DEF Quieted
<1>4. upload'.store = upload.store
  BY Unfolded DEF RecordChunk, SharedTypeOK
<1> QED BY <1>1, <1>3, <1>4, Plain DEF Quieted

LEMMA FreeLock ==
    ASSUME ChunkInv, ChunkInv', ExpiryInv, NEW r \in Requests,
           Lock(r) \/ Count(r) \/ Unlock(r), ~ Faults
    PROVE  ExpiryInv'
<1>1. req[r].pc \in {"lock", "count", "unlock"} /\ HasStore(req[r])
  BY DEF Lock, Count, Unlock, HasStore
<1>2. UNCHANGED <<upload, record, now, published, blob>>
  BY DEF Lock, Count, Unlock, outside, redis
<1>3. \/ Goes(r, "finload") \/ Leaves(r, "id") \/ Replies(r, "retry") \/ Replies(r, "error")
      \/ RepliesId(r, req[r].store)
  BY DEF Lock, Count, Unlock
<1>4. Plainly(r)
  BY <1>1, <1>3, GoesPlainly, LeavesPlainly, EndsPlainly DEF Quieted
<1> QED BY <1>1, <1>2, <1>4, PlainStep DEF Quieted

LEMMA FreeFinLoad ==
    ASSUME ChunkInv, ChunkInv', ExpiryInv, NEW r \in Requests, FinLoad(r)
    PROVE  ExpiryInv'
<1>1. req[r].pc = "finload" /\ UNCHANGED <<upload, record, now, published, blob>>
      /\ req \in [Requests -> RequestRecord] /\ HasStore(req[r])
  BY Unfolded DEF FinLoad, redis, outside, outcome, HasStore
<1> DEFINE pc == IF Upload.published THEN "unlock" ELSE "finhashes"
           reply == IF Upload.published THEN "id" ELSE "none"
           store == IF Upload.published THEN Upload.store ELSE req[r].store
           one == [req[r] EXCEPT !.pc = pc]
           two == [one EXCEPT !.reply = reply]
           new == [two EXCEPT !.store = store]
<1>2. req' = [req EXCEPT ![r] = new]
  BY <1>1 DEF FinLoad
<1>3. pc \in {"unlock", "finhashes"} /\ reply \in {"id", "none"}
      /\ (store = upload.store \/ store = req[r].store)
  BY UploadNow
<1> HIDE DEF pc, reply, store
<1>4. one \in RequestRecord /\ one.pc = pc
  BY <1>1, <1>3 DEF RequestRecord, Pcs, Finishing
<1> HIDE DEF one
<1>5. two \in RequestRecord /\ two.pc = pc
  BY <1>3, <1>4 DEF RequestRecord
<1> HIDE DEF two
<1>6. new.pc = pc /\ new.store = store
  BY <1>5 DEF RequestRecord
<1> HIDE DEF new
<1>7. Plainly(r)
  BY <1>1, <1>2, <1>3, <1>6 DEF Plainly, Quieted
<1> QED BY <1>1, <1>7, PlainStep DEF Quieted

LEMMA FreeFinHashes ==
    ASSUME ChunkInv, ChunkInv', ExpiryInv, NEW r \in Requests, FinHashes(r)
    PROVE  ExpiryInv'
<1>1. req[r].pc = "finhashes" /\ UNCHANGED <<upload, record, now, published, blob>>
      /\ req \in [Requests -> RequestRecord] /\ HasStore(req[r])
  BY Unfolded DEF FinHashes, redis, outside, outcome, HasStore
<1>2. CASE Leaves(r, "error")
  BY <1>1, <1>2, LeavesPlainly, PlainStep DEF Quieted
<1>3. CASE req' = [req EXCEPT ![r].pc = "finset", ![r].hashes = Hashes, ![r].began = now]
  <2> DEFINE one == [req[r] EXCEPT !.pc = "finset"]
             two == [one EXCEPT !.hashes = Hashes]
             new == [two EXCEPT !.began = now]
  <2>1. req' = [req EXCEPT ![r] = new]
    BY <1>1, <1>3
  <2>2. Hashes \in ChunkBytes
    BY Unfolded, UnsetTyped DEF Hashes, SharedTypeOK
  <2>3. one \in RequestRecord /\ one.pc = "finset" /\ one.store = req[r].store
    BY <1>1 DEF RequestRecord, Pcs, Finishing
  <2> HIDE DEF one
  <2>4. two \in RequestRecord /\ two.pc = "finset" /\ two.store = req[r].store
    BY <2>2, <2>3 DEF RequestRecord
  <2> HIDE DEF two
  <2>5. new.pc = "finset" /\ new.store = req[r].store
    BY <2>4 DEF RequestRecord
  <2> HIDE DEF new
  <2>6. Plainly(r)
    BY <1>1, <2>1, <2>5 DEF Plainly, Quieted
  <2> QED BY <1>1, <2>6, PlainStep DEF Quieted
<1> QED BY <1>2, <1>3 DEF FinHashes

(* A step that sets the mtime of a blob, to now or later.                  *)
LEMMA Stamps ==
    ASSUME ChunkInv, ChunkInv', ExpiryInv, NEW r \in Requests, NEW new,
           req' = [req EXCEPT ![r] = new], HasStore(req[r]), Same(req[r], new),
           new.store = req[r].store,
           req[r].pc \in Quieted \cup Timing \cup {"birth"},
           new.pc \in Quieted \cup {"touch", "pttl"},
           blob[req[r].store].there, NEW until \in Nat, now <= until,
           NEW b, b.there, b.mtime = until, blob' = [blob EXCEPT ![req[r].store] = b],
           UNCHANGED <<upload, record, now, published>>,
           new.pc \in Timing \/ record[req[r].store] <= until + Patience
    PROVE  ExpiryInv'
<1>1. PICK store \in Stores : store = req[r].store /\ store \in drawn
  BY OwnStore
<1>2. blob'[store] = b /\ \A s \in Stores \ {store} : blob'[s] = blob[s]
  <2>1. blob \in [Stores -> Blob]
    BY Unfolded DEF SharedTypeOK, Blob
  <2> QED BY <1>1, <2>1
<1>3. req[r].pc \notin {"publish", "fintouch", "finundo"}
      /\ new.pc \notin {"publish", "fintouch", "finundo", "birth", "restore", "adopt", "finpttl",
                        "finrestore"}
  BY DEF Quieted, Timing
<1>4. \A s : (Settled(s)' <=> Settled(s)) /\ (Named(s)' <=> Named(s)) /\ (Begun(s)' <=> Begun(s))
  BY <1>3, PhasesSame
<1>5. \A s \in drawn : KeepsTime(s)
  <2>1. drawn \subseteq Stores
    BY Unfolded DEF SharedTypeOK
  <2> QED BY <1>1, <1>2, <1>4, <2>1 DEF KeepsTime
<1>6. Timed(new)'
  <2>1. req[r].since <= now /\ req[r].since \in Nat /\ now \in Nat
    BY NumbersHold, Unfolded DEF Numbers, Good, Honest, Active, HasStore
  <2>2. new.since <= until
    BY <2>1 DEF Same
  <2> QED BY <1>1, <1>2, <1>3, <2>2 DEF Timed
<1>7. ASSUME NEW s \in Stores PROVE StoreTimed(s)'
  <2>1. CASE s # store
    BY <1>1, <1>2, <1>4, <2>1, StoreUntouched
  <2>2. CASE s = store
    <3>1. now \in Nat /\ record[s] \in Nat
      BY NumbersHold DEF Numbers
    <3>2. record'[s] # 0 => Begun(s)'
      BY <1>4 DEF ExpiryInv, StoreTimed
    <3>3. CASE new.pc \in Timing
      <4>1. req'[r] = new
        BY Unfolded
      <4>2. Waits(s, Timing)'
        BY <1>1, <2>2, <3>3, <4>1 DEF Waits
      <4> QED BY <3>1, <3>2, <4>2, StoreTimedNext
    <3>4. CASE record[req[r].store] <= until + Patience
      <4>1. record'[s] <= blob'[s].mtime + Patience
        BY <1>1, <1>2, <2>2, <3>4
      <4> QED BY <3>1, <3>2, <4>1, StoreTimedNext
    <3> QED BY <3>3, <3>4
  <2> QED BY <2>1, <2>2
<1>8. Fresh'
  BY <1>3, FreshKept
<1> QED BY <1>5, <1>6, <1>7, <1>8, Times

(* Chtimes of a blob that is there.                                        *)
LEMMA StampsMtime ==
    ASSUME ChunkInv, ChunkInv', ExpiryInv, NEW r \in Requests, HasStore(req[r]),
           req[r].pc \in Timing \cup {"birth"}, NEW then \in Quieted \cup {"touch", "pttl"},
           Goes(r, then), blob[req[r].store].there, NEW until \in Nat, now <= until,
           blob' = [blob EXCEPT ![req[r].store].mtime = until],
           UNCHANGED <<upload, record, now, published>>,
           then \in Timing \/ record[req[r].store] <= until + Patience
    PROVE  ExpiryInv'
<1>1. then \in Pcs
  BY DEF Quieted, Pcs, Finishing
<1>2. PICK new \in RequestRecord :
          /\ req' = [req EXCEPT ![r] = new] /\ Same(req[r], new)
          /\ new.pc = then /\ new.store = req[r].store /\ new.reply = req[r].reply
  BY <1>1, GoesTo
<1>3. blob \in [Stores -> Blob] /\ req[r].store \in Stores
  BY Unfolded, OwnStore DEF SharedTypeOK, Blob
<1>4. PICK b : b = [blob[req[r].store] EXCEPT !.mtime = until]
  OBVIOUS
<1>5. b.there /\ b.mtime = until
  BY <1>3, <1>4 DEF Blob
<1>6. blob' = [blob EXCEPT ![req[r].store] = b]
  BY <1>3, <1>4
<1> QED BY <1>2, <1>5, <1>6, Stamps

LEMMA TimedBirth ==
    ASSUME ChunkInv, ChunkInv', ExpiryInv, NEW r \in Requests, Birth(r)
    PROVE  ExpiryInv'
<1>1. req[r].pc = "birth" /\ HasStore(req[r]) /\ UNCHANGED <<upload, record, now, published>>
  BY DEF Birth, redis, outside, HasStore
<1>2. CASE blob[req[r].store].there
  <2>1. Goes(r, "claimupload") /\ blob' = [blob EXCEPT ![req[r].store].mtime = now + UploadTTL]
    BY <1>2 DEF Birth, Chtimes
  <2>2. now \in Nat /\ now + UploadTTL \in Nat /\ now <= now + UploadTTL /\ Patience \in Nat
    BY NumbersHold, Constants DEF Numbers
  <2>3. record[req[r].store] = 0
    BY <1>1 DEF ExpiryInv, Fresh
  <2>4. PICK until \in Nat :
            until = now + UploadTTL /\ now <= until /\ record[req[r].store] <= until + Patience
    BY <2>2, <2>3
  <2>5. "claimupload" \in Quieted
    BY DEF Quieted
  <2> QED BY <1>1, <1>2, <2>1, <2>4, <2>5, StampsMtime
<1>3. CASE ~ blob[req[r].store].there
  <2>1. Replies(r, "error") /\ blob' = blob
    BY <1>3 DEF Birth, Chtimes
  <2> QED BY <1>1, <2>1, EndsPlainly, Plain
<1> QED BY <1>2, <1>3

LEMMA TimedTouchBlob ==
    ASSUME ChunkInv, ChunkInv', ExpiryInv, NEW r \in Requests, TouchBlob(r)
    PROVE  ExpiryInv'
<1>1. req[r].pc = "touch" /\ HasStore(req[r]) /\ UNCHANGED <<upload, record, now, published>>
  BY DEF TouchBlob, redis, outside, HasStore
<1>2. CASE blob[req[r].store].there
  <2>1. Goes(r, "pttl") /\ blob' = [blob EXCEPT ![req[r].store].mtime = now + UploadTTL]
    BY <1>2 DEF TouchBlob, Chtimes
  <2>2. now \in Nat /\ now + UploadTTL \in Nat /\ now <= now + UploadTTL
    BY NumbersHold, Constants DEF Numbers
  <2> QED BY <1>1, <1>2, <2>1, <2>2, StampsMtime DEF Timing
<1>3. CASE ~ blob[req[r].store].there
  <2>1. Replies(r, "error") /\ blob' = blob
    BY <1>3 DEF TouchBlob, Chtimes
  <2> QED BY <1>1, <1>3, <2>1, EndsPlainly, Plain DEF Timing
<1> QED BY <1>2, <1>3

LEMMA TimedRestore ==
    ASSUME ChunkInv, ChunkInv', ExpiryInv, NEW r \in Requests, Restore(r)
    PROVE  ExpiryInv'
<1>1. req[r].pc = "restore" /\ HasStore(req[r]) /\ UNCHANGED <<upload, record, now, published>>
      /\ Goes(r, "sadd")
  BY DEF Restore, Chtimes, redis, outside, HasStore
<1>2. CASE blob[req[r].store].there
  <2>1. blob' = [blob EXCEPT ![req[r].store].mtime = now + req[r].ttl]
    BY <1>2 DEF Restore, Chtimes
  <2>2. now \in Nat /\ req[r].ttl \in Nat /\ now + req[r].ttl \in Nat
        /\ now <= now + req[r].ttl /\ Patience \in Nat
    BY NumbersHold, Constants DEF Numbers
  <2>3. req[r].store \in Stores /\ record[req[r].store] \in Nat
    BY <1>1, OwnStore, NumbersHold DEF Numbers
  <2>4. record[req[r].store] <= now + req[r].ttl
    BY <1>1, <1>2 DEF ExpiryInv, Timed
  <2>5. record[req[r].store] <= now + req[r].ttl + Patience
    BY <2>2, <2>3, <2>4
  <2> QED BY <1>1, <1>2, <2>1, <2>2, <2>5, StampsMtime DEF Timing, Quieted
<1>3. CASE ~ blob[req[r].store].there
  <2>1. blob' = blob /\ Plainly(r)
    BY <1>1, <1>3, GoesPlainly DEF Restore, Chtimes, Quieted
  <2> QED BY <1>1, <1>3, <2>1, Plain DEF Timing
<1> QED BY <1>2, <1>3

LEMMA TimedWrite ==
    ASSUME ChunkInv, ChunkInv', ExpiryInv, NEW r \in Requests, Write(r)
    PROVE  ExpiryInv'
<1>1. req[r].pc = "write" /\ HasStore(req[r]) /\ UNCHANGED <<upload, record, now, published>>
  BY DEF Write, redis, outside, HasStore
<1>2. CASE blob[req[r].store].there
  <2>1. blob \in [Stores -> Blob] /\ req[r].store \in Stores /\ now \in Nat
    BY <1>1, Unfolded, OwnStore DEF SharedTypeOK, Blob
  <2>2. Goes(r, "touch")
        /\ blob' = [blob EXCEPT ![req[r].store].bytes[req[r].index] = req[r].bytes,
                                ![req[r].store].mtime = now]
    BY <1>2 DEF Write
  <2> DEFINE some == [blob[req[r].store] EXCEPT !.bytes[req[r].index] = req[r].bytes]
             full == [some EXCEPT !.mtime = now]
  <2>3. blob' = [blob EXCEPT ![req[r].store] = full]
    BY <2>1, <2>2
  <2>4. some.there = blob[req[r].store].there /\ DOMAIN some = {"there", "bytes", "mtime"}
    BY <2>1 DEF Blob
  <2> HIDE DEF some
  <2>5. full.there = some.there /\ full.mtime = now
    BY <2>4
  <2> HIDE DEF full
  <2>6. "touch" \in Pcs
    BY DEF Pcs
  <2>7. PICK new \in RequestRecord :
            /\ req' = [req EXCEPT ![r] = new] /\ Same(req[r], new)
            /\ new.pc = "touch" /\ new.store = req[r].store /\ new.reply = req[r].reply
    BY <2>2, <2>6, GoesTo
  <2>8. PICK b : b = full /\ b.there /\ b.mtime = now
    BY <1>2, <2>4, <2>5
  <2>9. blob' = [blob EXCEPT ![req[r].store] = b] /\ now <= now
    BY <2>1, <2>3, <2>8
  <2>10. req[r].pc \in Quieted /\ new.pc \in Quieted \cup {"touch", "pttl"} /\ new.pc \in Timing
    BY <1>1, <2>7 DEF Timing, Quieted
  <2> QED BY <1>1, <1>2, <2>1, <2>7, <2>8, <2>9, <2>10, Stamps
<1>3. CASE ~ blob[req[r].store].there
  <2>1. Replies(r, "error") /\ blob' = blob
    BY <1>3 DEF Write
  <2> QED BY <1>1, <2>1, EndsPlainly, Plain DEF Quieted
<1> QED BY <1>2, <1>3

LEMMA TimedRestorePTTL ==
    ASSUME ChunkInv, ChunkInv', ExpiryInv, NEW r \in Requests, RestorePTTL(r)
    PROVE  ExpiryInv'
<1>1. req[r].pc = "pttl" /\ HasStore(req[r])
      /\ UNCHANGED <<upload, record, now, published, blob>> /\ PTTL(r, "restore", "sadd")
  BY DEF RestorePTTL, redis, outside, outcome, HasStore
<1>2. PICK store \in Stores : store = req[r].store /\ store \in drawn
  BY <1>1, OwnStore
<1>3. /\ req \in [Requests -> RequestRecord] /\ Timed(req[r])
      /\ record[store] \in Nat /\ now \in Nat /\ record[store] <= now + Lifetime
      /\ Patience \in Nat /\ Lifetime \in Nat /\ blob[store].mtime \in Nat
      /\ req[r].since \in Nat /\ now <= req[r].since + Patience
  BY <1>1, Unfolded, NumbersHold, Constants
  DEF ExpiryInv, Numbers, StoreGood, Good, Honest, Active
<1>4. ASSUME NEW new, req' = [req EXCEPT ![r] = new], new.pc \in {"restore", "sadd"},
             new.store = store, Timed(new)', StoreTimed(store)'
      PROVE  ExpiryInv'
  <2>1. req[r].pc \notin {"publish", "fintouch", "finundo"}
        /\ new.pc \notin {"publish", "fintouch", "finundo", "birth"}
    BY <1>1, <1>4
  <2>2. \A s : (Settled(s)' <=> Settled(s)) /\ (Named(s)' <=> Named(s))
               /\ (Begun(s)' <=> Begun(s))
    BY <1>1, <1>4, <2>1, PhasesSame
  <2>3. \A s \in drawn : KeepsTime(s)
    BY <1>1, <2>2 DEF KeepsTime
  <2>4. \A s \in Stores : StoreTimed(s)'
    BY <1>1, <1>2, <1>4, <2>2, StoreUntouched
  <2>5. Fresh'
    BY <1>1, <1>2, <1>4, <2>1, FreshKept
  <2> QED BY <1>1, <1>4, <2>3, <2>4, <2>5, Times
<1>5. Begun(store) /\ blob[store].there => Named(store)
  <2>1. ASSUME Waits(store, {"finundo"}) PROVE ~ blob[store].there
    BY <2>1 DEF Waits, ExpiryInv, Timed
  <2> QED BY <2>1 DEF Begun
<1>6. CASE RecordLive(store) /\ record[store] - now > 0
  <2> DEFINE ttl == record[store] - now
             one == [req[r] EXCEPT !.ttl = ttl]
             new == [one EXCEPT !.pc = "restore"]
  <2>1. req' = [req EXCEPT ![r] = new]
    BY <1>1, <1>2, <1>3, <1>6 DEF PTTL
  <2>2. ttl \in 0..Lifetime /\ record[store] <= now + ttl
    BY <1>3, <1>6
  <2> HIDE DEF ttl
  <2>3. one \in RequestRecord
    BY <1>3, <2>2 DEF RequestRecord
  <2>4. one.ttl = ttl /\ one.store = store /\ one.since = req[r].since
    BY <1>2, <1>3 DEF RequestRecord
  <2> HIDE DEF one
  <2>5. new.pc = "restore" /\ new.ttl = ttl /\ new.store = store /\ new.since = req[r].since
    BY <2>3, <2>4 DEF RequestRecord
  <2>6. PICK q : q = new
    OBVIOUS
  <2> HIDE DEF new
  <2>7. req'[r] = q
    BY <1>3, <2>1, <2>6
  <2>8. \A s : (Settled(s)' <=> Settled(s)) /\ (Named(s)' <=> Named(s))
               /\ (Begun(s)' <=> Begun(s))
    BY <1>1, <2>1, <2>5, PhasesSame
  <2>9. Begun(store)
    BY <1>2, <1>6 DEF ExpiryInv, StoreTimed, RecordLive
  <2>10. blob[store].there =>
             \/ req[r].since <= blob[store].mtime
             \/ Settled(store) /\ record[store] <= blob[store].mtime + Patience
    BY <1>1, <1>2, <1>3 DEF Timed, Timing
  <2>11. PICK t : t = ttl
    OBVIOUS
  <2>12. q.pc = "restore" /\ q.ttl = t /\ q.store = store /\ q.since = req[r].since
         /\ record[store] <= now + t
    BY <2>2, <2>5, <2>6, <2>11
  <2>13. Timed(q)'
    BY <1>1, <1>5, <2>8, <2>9, <2>10, <2>12 DEF Timed
  <2>14. Waits(store, Timing)'
    BY <2>7, <2>12 DEF Waits, Timing
  <2>15. StoreTimed(store)'
    BY <1>1, <1>3, <2>8, <2>9, <2>14, StoreTimedNext
  <2>16. req' = [req EXCEPT ![r] = q] /\ q.pc \in {"restore", "sadd"}
    BY <2>1, <2>6, <2>12
  <2> QED BY <1>4, <2>12, <2>13, <2>15, <2>16
<1>7. CASE ~ (RecordLive(store) /\ record[store] - now > 0)
  <2>1. Goes(r, "sadd") /\ "sadd" \in Pcs
    BY <1>1, <1>2, <1>7 DEF PTTL, Pcs
  <2>2. PICK new \in RequestRecord :
            /\ req' = [req EXCEPT ![r] = new] /\ Same(req[r], new)
            /\ new.pc = "sadd" /\ new.store = req[r].store /\ new.reply = req[r].reply
    BY <2>1, GoesTo
  <2>3. Timed(new)'
    BY <2>2 DEF Timed, Timing
  <2>4. Begun(store)' <=> Begun(store)
    BY <1>1, <2>2, PhasesSame
  <2>5. record'[store] # 0 => Begun(store)'
    BY <1>1, <1>2, <2>4 DEF ExpiryInv, StoreTimed
  <2>6. StoreTimed(store)'
    <3>1. CASE ~ RecordLive(store)
      BY <1>1, <2>5, <3>1 DEF StoreTimed, RecordLive
    <3>2. CASE RecordLive(store) /\ blob[store].there
      <4>1. record[store] = now
        BY <1>3, <1>7, <3>2 DEF RecordLive
      <4>2. \/ req[r].since <= blob[store].mtime
            \/ record[store] <= blob[store].mtime + Patience
        BY <1>1, <1>2, <1>3, <3>2 DEF Timed, Timing
      <4>3. record'[store] <= blob'[store].mtime + Patience
        BY <1>1, <1>3, <4>1, <4>2
      <4> QED BY <1>1, <1>3, <2>5, <4>3, StoreTimedNext
    <3>3. CASE ~ blob[store].there
      BY <1>1, <1>3, <2>5, <3>3, StoreTimedNext
    <3> QED BY <3>1, <3>2, <3>3
  <2> QED BY <1>2, <1>4, <2>2, <2>3, <2>6
<1> QED BY <1>6, <1>7

LEMMA TimedCreate ==
    ASSUME ChunkInv, ChunkInv', ExpiryInv, NEW r \in Requests, NEW store \in Stores,
           Create(r, store)
    PROVE  ExpiryInv'
<1>1. /\ req[r].pc = "create" /\ UNCHANGED <<upload, record, now, published>>
      /\ store \notin drawn
      /\ blob' = [blob EXCEPT ![store] = [NoBlob EXCEPT !.there = TRUE, !.mtime = now]]
  BY DEF Create, redis, outcome
<1>2. req \in [Requests -> RequestRecord] /\ blob \in [Stores -> Blob] /\ drawn \subseteq Stores
      /\ StoreGood(store)
  BY Unfolded DEF SharedTypeOK, Blob
<1>3. PICK new \in RequestRecord :
          req' = [req EXCEPT ![r] = new] /\ new.pc = "birth" /\ new.store = store
  <2> DEFINE one == [req[r] EXCEPT !.pc = "birth"]
             next == [one EXCEPT !.store = store]
  <2>1. req' = [req EXCEPT ![r] = next]
    BY <1>2 DEF Create
  <2>2. one \in RequestRecord /\ one.pc = "birth"
    BY <1>2 DEF RequestRecord, Pcs
  <2> HIDE DEF one
  <2>3. next \in RequestRecord /\ next.pc = "birth" /\ next.store = store
    BY <2>2 DEF RequestRecord
  <2> HIDE DEF next
  <2> QED BY <2>1, <2>3
<1>4. \A s \in Stores \ {store} : blob'[s] = blob[s]
  BY <1>1, <1>2
<1>5. \A s : (Settled(s)' <=> Settled(s)) /\ (Named(s)' <=> Named(s)) /\ (Begun(s)' <=> Begun(s))
  BY <1>1, <1>3, PhasesSame
<1>6. \A s \in drawn : KeepsTime(s)
  BY <1>1, <1>2, <1>4, <1>5 DEF KeepsTime
<1>7. Timed(new)'
  BY <1>3 DEF Timed, Timing
<1>8. record[store] = 0 /\ upload.store # store
  BY <1>1, <1>2 DEF StoreGood
<1>9. ASSUME NEW s \in Stores PROVE StoreTimed(s)'
  <2>1. CASE s # store
    BY <1>1, <1>3, <1>4, <1>5, <2>1, StoreUntouched DEF Timing
  <2>2. CASE s = store
    BY <1>1, <1>8, <2>2 DEF StoreTimed, RecordLive
  <2> QED BY <2>1, <2>2
<1>10. Fresh'
  <2>1. req'[r] = new /\ \A w \in Requests \ {r} : req'[w] = req[w]
    BY <1>2, <1>3
  <2>2. \A w \in Requests : HasStore(req[w]) => req[w].store # store
    BY <1>1, OwnStore
  <2>3. ASSUME NEW b \in Requests, req'[b].pc = "birth"
        PROVE  /\ record'[req'[b].store] = 0 /\ upload'.store # req'[b].store
               /\ \A w \in Requests \ {b} : HasStore(req'[w]) => req'[w].store # req'[b].store
    <3>1. CASE b = r
      BY <1>1, <1>3, <1>8, <2>1, <2>2, <3>1
    <3>2. CASE b # r
      <4>1. req'[b] = req[b] /\ req[b].pc = "birth" /\ HasStore(req[b])
        BY <2>1, <2>3, <3>2 DEF HasStore
      <4>2. /\ record[req[b].store] = 0 /\ upload.store # req[b].store
            /\ \A w \in Requests \ {b} : HasStore(req[w]) => req[w].store # req[b].store
        BY <4>1 DEF ExpiryInv, Fresh
      <4>3. ASSUME NEW w \in Requests \ {b}, HasStore(req'[w])
            PROVE  req'[w].store # req[b].store
        <5>1. CASE w = r
          BY <1>3, <2>1, <2>2, <4>1, <5>1
        <5>2. CASE w # r
          BY <2>1, <4>2, <4>3, <5>2
        <5> QED BY <5>1, <5>2
      <4> QED BY <1>1, <4>1, <4>2, <4>3
    <3> QED BY <3>1, <3>2
  <2> QED BY <2>3 DEF Fresh, HasStore
<1> QED BY <1>1, <1>3, <1>6, <1>7, <1>9, <1>10, Times

(* Of the requests that finish there is only the one that moves.           *)
LEMMA AloneNext ==
    ASSUME ChunkInv, NEW r \in Requests, req[r].pc \in Finishing, NEW new,
           req' = [req EXCEPT ![r] = new], NEW s, NEW pcs \in SUBSET Finishing
    PROVE  /\ Waits(s, pcs) <=> req[r].pc \in pcs /\ req[r].store = s
           /\ Waits(s, pcs)' <=> new.pc \in pcs /\ new.store = s
<1>1. req'[r] = new /\ \A w \in Requests \ {r} : req'[w] = req[w]
  BY Unfolded
<1>2. \A w \in Requests \ {r} : req[w].pc \notin pcs
  BY OthersAreNot
<1> QED BY <1>1, <1>2 DEF Waits

LEMMA PhasesAlone ==
    ASSUME ChunkInv, NEW r \in Requests, req[r].pc \in Finishing, NEW new,
           req' = [req EXCEPT ![r] = new], NEW s, req[r].store = s, new.store = s
    PROVE  /\ Settled(s) <=> s \in Done \/ req[r].pc = "publish"
           /\ Named(s) <=> s \in Done \/ req[r].pc \in {"publish", "fintouch"}
           /\ Begun(s) <=> s \in Done \/ req[r].pc \in {"publish", "fintouch", "finundo"}
           /\ Settled(s)' <=> s \in Done' \/ new.pc = "publish"
           /\ Named(s)' <=> s \in Done' \/ new.pc \in {"publish", "fintouch"}
           /\ Begun(s)' <=> s \in Done' \/ new.pc \in {"publish", "fintouch", "finundo"}
<1>1. {"publish"} \in SUBSET Finishing /\ {"fintouch"} \in SUBSET Finishing
      /\ {"finundo"} \in SUBSET Finishing
  BY DEF Finishing
<1>2. ASSUME NEW pcs \in SUBSET Finishing
      PROVE  (Waits(s, pcs) <=> req[r].pc \in pcs) /\ (Waits(s, pcs)' <=> new.pc \in pcs)
  BY <1>2, AloneNext
<1>3. \A p \in {"publish", "fintouch", "finundo"} :
          (Waits(s, {p}) <=> req[r].pc = p) /\ (Waits(s, {p})' <=> new.pc = p)
  BY <1>1, <1>2
<1> QED BY <1>3 DEF Settled, Named, Begun

(* A finishing request leaves the other files alone.                       *)
LEMMA Finishes ==
    ASSUME ChunkInv, ChunkInv', ExpiryInv, NEW r \in Requests,
           req[r].pc \in Finishing, HasStore(req[r]),
           NEW new, req' = [req EXCEPT ![r] = new], new.store = req[r].store,
           new.pc \notin {"new", "load", "create", "done", "birth"},
           NEW store \in Stores, store = req[r].store, now' = now,
           \A s \in Stores \ {store} :
               /\ s \in Done' <=> s \in Done
               /\ record'[s] = record[s] /\ blob'[s] = blob[s],
           upload'.store \in {upload.store, store},
           KeepsTime(store), Timed(new)', StoreTimed(store)'
    PROVE  ExpiryInv'
<1>1. drawn \subseteq Stores /\ req[r].pc \notin Timing
  BY Unfolded DEF SharedTypeOK, Finishing, Timing
<1>2. ASSUME NEW s \in Stores \ {store} PROVE KeepsTime(s) /\ StoreTimed(s)'
  <2>1. (Settled(s)' <=> Settled(s)) /\ (Named(s)' <=> Named(s)) /\ (Begun(s)' <=> Begun(s))
    BY <1>2, PhasesElsewhere
  <2>2. KeepsTime(s)
    BY <1>2, <2>1 DEF KeepsTime
  <2>3. StoreTimed(s)'
    BY <1>1, <1>2, <2>1, StoreUntouched
  <2> QED BY <2>2, <2>3
<1>3. Fresh'
  <2>1. new.pc # "birth"
    OBVIOUS
  <2>2. \A s \in Stores : record'[s] \in {record[s], 0} \/ (HasStore(req[r]) /\ s = req[r].store)
    OBVIOUS
  <2> QED BY <2>1, <2>2, FreshKept
<1> QED BY <1>1, <1>2, <1>3, Times

LEMMA TimedFinSet ==
    ASSUME ChunkInv, ChunkInv', ExpiryInv, NEW r \in Requests, FinSet(r), ~ Faults
    PROVE  ExpiryInv'
<1>1. req[r].pc = "finset" /\ HasStore(req[r]) /\ Active(req[r]) /\ req[r].pc \in Completing
      /\ req[r].pc \in Finishing /\ UNCHANGED <<upload, now, published, blob>>
  BY DEF FinSet, outside, outcome, HasStore, Active, Completing, Finishing
<1>2. PICK store \in Stores : store = req[r].store /\ store \in drawn
  BY <1>1, OwnStore
<1>3. /\ req \in [Requests -> RequestRecord] /\ record \in [Stores -> Deadlines]
      /\ req[r].since <= now /\ now <= req[r].since + Patience /\ req[r].since <= req[r].began
      /\ req[r].since \in Nat /\ req[r].began \in Nat /\ now \in Nat
      /\ Patience \in Nat /\ Lifetime \in Nat
  BY <1>1, Unfolded, NumbersHold, Constants
  DEF Numbers, Good, Honest, SharedTypeOK
<1>4. store \notin Done /\ Done' = Done
  <2>1. ~ Upload.published
    BY <1>1, Unfolded DEF Good, AfterPublication
  <2>2. BeforePublication(req[r])
    BY <2>1, Unfolded DEF Good
  <2> QED BY <1>1, <1>2, <2>2 DEF BeforePublication, Done
<1>5. ~ RecordLive(store)
  <2>1. \A pcs \in SUBSET Finishing : "finset" \notin pcs => ~ Waits(store, pcs)
    BY <1>1, OthersAreNot DEF Waits
  <2>2. ~ Begun(store)
    BY <1>4, <2>1 DEF Begun, Named, Settled, Finishing
  <2> QED BY <2>2 DEF ExpiryInv, StoreTimed, RecordLive
<1>6. Goes(r, "fintouch") /\ record' = [record EXCEPT ![store] = now + Lifetime]
  BY <1>2, <1>5 DEF FinSet
<1>7. PICK new \in RequestRecord :
          /\ req' = [req EXCEPT ![r] = new] /\ Same(req[r], new)
          /\ new.pc = "fintouch" /\ new.store = req[r].store /\ new.reply = req[r].reply
  BY <1>6, GoesTo DEF Pcs, Finishing
<1>8. ~ Named(store) /\ ~ Settled(store) /\ ~ Settled(store)' /\ Begun(store)'
  BY <1>1, <1>2, <1>4, <1>7, PhasesAlone
<1>9. KeepsTime(store)
  BY <1>1, <1>8 DEF KeepsTime
<1>10. Timed(new)'
  <2>1. record'[store] = now + Lifetime /\ new.began = req[r].began
    BY <1>3, <1>6, <1>7 DEF Same
  <2>2. record'[store] <= new.began + Lifetime + Patience
    BY <1>3, <2>1
  <2> QED BY <1>2, <1>7, <2>2 DEF Timed, Timing
<1>11. StoreTimed(store)'
  BY <1>8 DEF StoreTimed
<1>12. \A s \in Stores \ {store} : record'[s] = record[s]
  BY <1>3, <1>6
<1> QED BY <1>1, <1>2, <1>4, <1>7, <1>9, <1>10, <1>11, <1>12, Finishes

LEMMA TimedFinTouch ==
    ASSUME ChunkInv, ChunkInv', ExpiryInv, NEW r \in Requests, FinTouch(r)
    PROVE  ExpiryInv'
<1>1. req[r].pc = "fintouch" /\ HasStore(req[r]) /\ req[r].pc \in Finishing
      /\ UNCHANGED <<upload, record, now, published>>
  BY DEF FinTouch, redis, outside, HasStore, Finishing
<1>2. PICK store \in Stores : store = req[r].store /\ store \in drawn
  BY <1>1, OwnStore
<1>3. blob \in [Stores -> Blob] /\ Done' = Done /\ record[store] \in Nat /\ now \in Nat
      /\ Timed(req[r])
  BY <1>1, Unfolded, NumbersHold DEF SharedTypeOK, Blob, Done, Numbers, ExpiryInv
<1>4. CASE blob[store].there
  <2>1. Goes(r, "publish")
        /\ blob' = [blob EXCEPT ![store].mtime = req[r].began + Lifetime]
    BY <1>2, <1>4 DEF FinTouch, Chtimes
  <2>2. PICK new \in RequestRecord :
            /\ req' = [req EXCEPT ![r] = new] /\ Same(req[r], new)
            /\ new.pc = "publish" /\ new.store = req[r].store /\ new.reply = req[r].reply
    BY <2>1, GoesTo DEF Pcs, Finishing
  <2>3. blob'[store].mtime = req[r].began + Lifetime
        /\ \A s \in Stores \ {store} : blob'[s] = blob[s]
    BY <1>3, <2>1 DEF Blob
  <2>4. record'[store] <= blob'[store].mtime + Patience
    BY <1>1, <1>2, <1>3, <2>3 DEF Timed
  <2>5. Settled(store)' /\ Named(store)' /\ Begun(store)'
    BY <1>1, <1>2, <2>2, PhasesAlone
  <2>6. KeepsTime(store)
    BY <1>1, <1>4, <2>4, <2>5 DEF KeepsTime
  <2>7. Timed(new)'
    BY <2>2 DEF Timed, Timing
  <2>8. StoreTimed(store)'
    BY <2>4, <2>5 DEF StoreTimed
  <2> QED BY <1>1, <1>2, <1>3, <2>2, <2>3, <2>6, <2>7, <2>8, Finishes
<1>5. CASE ~ blob[store].there
  <2>1. Goes(r, "finundo") /\ blob' = blob
    BY <1>2, <1>5 DEF FinTouch, Chtimes
  <2>2. PICK new \in RequestRecord :
            /\ req' = [req EXCEPT ![r] = new] /\ Same(req[r], new)
            /\ new.pc = "finundo" /\ new.store = req[r].store /\ new.reply = req[r].reply
    BY <2>1, GoesTo DEF Pcs, Finishing
  <2>3. (Settled(store) => Settled(store)') /\ Begun(store)'
    BY <1>1, <1>2, <1>3, <2>2, PhasesAlone
  <2>4. KeepsTime(store)
    BY <1>1, <1>5, <2>1, <2>3 DEF KeepsTime
  <2>5. Timed(new)'
    BY <1>2, <1>5, <2>1, <2>2 DEF Timed, Timing
  <2>6. StoreTimed(store)'
    BY <1>5, <2>1, <2>3 DEF StoreTimed
  <2> QED BY <1>1, <1>2, <1>3, <2>1, <2>2, <2>4, <2>5, <2>6, Finishes
<1> QED BY <1>4, <1>5

LEMMA TimedFinUndo ==
    ASSUME ChunkInv, ChunkInv', ExpiryInv, NEW r \in Requests, FinUndo(r)
    PROVE  ExpiryInv'
<1>1. req[r].pc = "finundo" /\ HasStore(req[r]) /\ req[r].pc \in Finishing
      /\ UNCHANGED <<upload, blob, now, published>> /\ Leaves(r, "error")
  BY DEF FinUndo, outside, outcome, HasStore, Finishing
<1>2. PICK store \in Stores : store = req[r].store /\ store \in drawn
  BY <1>1, OwnStore
<1>3. record'[store] = 0 /\ \A s \in Stores \ {store} : record'[s] = record[s]
  BY <1>2, Unfolded DEF FinUndo, SharedTypeOK
<1>4. PICK new \in RequestRecord :
          /\ req' = [req EXCEPT ![r] = new] /\ Same(req[r], new)
          /\ new.pc = "unlock" /\ new.store = req[r].store /\ new.reply = "error"
  BY <1>1, LeavesWith
<1>5. Done' = Done
  BY <1>1 DEF Done
<1>6. (Settled(store) => Settled(store)') /\ (Named(store) => Named(store)')
  BY <1>1, <1>2, <1>4, <1>5, PhasesAlone
<1>7. KeepsTime(store)
  BY <1>1, <1>3, <1>6 DEF KeepsTime
<1>8. Timed(new)'
  BY <1>4 DEF Timed, Timing
<1>9. StoreTimed(store)'
  BY <1>3 DEF StoreTimed, RecordLive
<1> QED BY <1>1, <1>2, <1>3, <1>4, <1>5, <1>7, <1>8, <1>9, Finishes

LEMMA TimedPublish ==
    ASSUME ChunkInv, ChunkInv', ExpiryInv, NEW r \in Requests, Publish(r), ~ Faults
    PROVE  ExpiryInv'
<1>1. req[r].pc = "publish" /\ HasStore(req[r]) /\ req[r].pc \in Finishing
      /\ req[r].pc \in Completing /\ UNCHANGED <<record, blob, now>> /\ Goes(r, "count")
  BY DEF Publish, outside, HasStore, Finishing, Completing
<1>2. PICK store \in Stores : store = req[r].store /\ store \in drawn
  BY <1>1, OwnStore
<1>3. PICK new \in RequestRecord :
          /\ req' = [req EXCEPT ![r] = new] /\ Same(req[r], new)
          /\ new.pc = "count" /\ new.store = req[r].store /\ new.reply = req[r].reply
  BY <1>1, GoesTo DEF Pcs, Finishing
<1>4. published[store] = Unset /\ req[r].hashes # Unset
  <2>1. ~ Upload.published
    BY <1>1, Unfolded DEF Good, AfterPublication
  <2>2. BeforePublication(req[r])
    BY <2>1, Unfolded DEF Good
  <2>3. PICK c \in Chunks : TRUE
    BY Constants
  <2> QED BY <1>1, <1>2, <2>2, <2>3, UnsetTyped DEF BeforePublication
<1>5. published' = [published EXCEPT ![store] = req[r].hashes] /\ upload'.store = store
  BY <1>2, <1>4 DEF Publish
<1>6. store \in Done' /\ \A s \in Stores \ {store} : s \in Done' <=> s \in Done
  BY <1>4, <1>5, Unfolded DEF Done, SharedTypeOK
<1>7. /\ Settled(store) /\ Settled(store)' /\ Named(store)' /\ Begun(store)'
  BY <1>1, <1>2, <1>3, <1>6, PhasesAlone
<1>8. KeepsTime(store)
  BY <1>1, <1>7 DEF KeepsTime
<1>9. Timed(new)'
  BY <1>3 DEF Timed, Timing
<1>10. StoreTimed(store)'
  BY <1>1, <1>3, <1>7, StoreUntouched DEF Timing
<1> QED BY <1>1, <1>2, <1>3, <1>5, <1>6, <1>8, <1>9, <1>10, Finishes

(* The rest of the system.                                                 *)
LEMMA TimedElsewhere ==
    ASSUME ChunkInv, ChunkInv', ExpiryInv,
           \/ \E store \in Stores : Download(store) \/ Unlink(store) \/ SweepInfo(store)
           \/ SweepRemove \/ Evict \/ Tick \/ UNCHANGED vars
    PROVE  ExpiryInv'
<1>1. blob \in [Stores -> Blob] /\ record \in [Stores -> Deadlines] /\ now \in Nat
      /\ doomed \in Stores \cup {None}
  BY Unfolded DEF SharedTypeOK, Blob
<1>2. /\ req' = req /\ published' = published /\ now' \in {now, now + 1}
      /\ upload'.store \in {upload.store, None}
  BY DEF Download, Unlink, SweepInfo, SweepRemove, Evict, Tick, NoUpload, redis, outcome, vars
<1>3. record' = record \/ \E s \in Stores : record' = [record EXCEPT ![s] = 0]
  BY DEF Download, Unlink, SweepInfo, SweepRemove, Evict, Tick, redis, vars
<1>4. \A s \in Stores : record'[s] \in {record[s], 0}
  BY <1>1, <1>3
<1>5. blob' = blob \/ \E s \in Stores : blob' = [blob EXCEPT ![s] = NoBlob]
  BY <1>1 DEF Download, Unlink, SweepInfo, SweepRemove, Evict, Tick, vars
<1>6. \A s \in Stores : blob'[s] = blob[s] \/ ~ blob'[s].there
  BY <1>1, <1>5, NoBlobTyped
<1> QED BY <1>2, <1>4, <1>6, PlainElsewhere

(* Without failures nothing adopts a record that another request left.     *)
LEMMA NoAdoption ==
    ASSUME ExpiryInv, NEW r \in Requests
    PROVE  ~ Adopt(r) /\ ~ FinPTTL(r) /\ ~ FinRestore(r)
BY DEF ExpiryInv, Timed, Adopt, FinPTTL, FinRestore

LEMMA TimedServed ==
    ASSUME ChunkInv, ChunkInv', ExpiryInv, NEW r \in Requests, Served(r), ~ Faults
    PROVE  ExpiryInv'
<1>1. CASE Load(r) \/ (\E store \in Stores : Create(r, store)) \/ Birth(r) \/ ClaimUpload(r)
           \/ Reload(r) \/ Claim(r) \/ Check(r) \/ Check2(r) \/ Write(r)
  BY <1>1, FreeLoad, TimedCreate, TimedBirth, FreeClaimUpload, FreeReload, FreeClaim, TimedWrite
<1>2. CASE TouchBlob(r) \/ RestorePTTL(r) \/ Restore(r) \/ RecordChunk(r)
  BY <1>2, TimedTouchBlob, TimedRestorePTTL, TimedRestore, FreeRecordChunk
<1>3. CASE Lock(r) \/ FinLoad(r) \/ FinHashes(r) \/ FinSet(r) \/ FinTouch(r) \/ FinUndo(r)
           \/ Publish(r) \/ Count(r) \/ Unlock(r)
  BY <1>3, FreeLock, FreeFinLoad, FreeFinHashes, TimedFinSet, TimedFinTouch, TimedFinUndo,
     TimedPublish
<1> QED BY <1>1, <1>2, <1>3, NoAdoption DEF Served

LEMMA StepExpiry ==
    ASSUME ChunkInv, ChunkInv', ExpiryInv, ~ Faults, [Next]_vars
    PROVE  ExpiryInv'
<1>1. ASSUME NEW r \in Requests, Arrive(r) \/ Served(r) \/ Failed(r) PROVE ExpiryInv'
  <2>1. ~ Failed(r)
    BY DEF Failed
  <2> QED BY <1>1, <2>1, FreeArrive, TimedServed
<1>2. ~ ServerCrash
  BY DEF ServerCrash
<1> QED BY <1>1, <1>2, TimedElsewhere DEF Next

LEMMA InitExpiry == ASSUME Init PROVE ExpiryInv
<1>1. \A r \in Requests : req[r].pc = "new"
  BY DEF Init, NewRequest
<1>2. \A s \in Stores : record[s] = 0
  BY DEF Init
<1> QED BY <1>1, <1>2 DEF ExpiryInv, Timed, StoreTimed, Fresh, Timing, RecordLive

(* The second layer, for a server on which nothing fails and no finisher   *)
(* outlives its lock: what the record, the blob and each late writer have  *)
(* to do with each other's times.                                          *)
THEOREM ExpiryInvariant ==
    ASSUME ~ Faults
    PROVE  Spec /\ []HoldersKeepTheirLock => []ExpiryInv
<1>1. Spec /\ []HoldersKeepTheirLock => []ChunkInv
  BY ChunkInvariant
<1>2. Init => ExpiryInv
  BY InitExpiry
<1>3. ChunkInv /\ ChunkInv' /\ ExpiryInv /\ [Next]_vars => ExpiryInv'
  BY StepExpiry
<1> QED BY <1>1, <1>2, <1>3, PTL DEF Spec

(* The blob of a live file is due when its record expires, unless a request*)
(* is just about to restore that: restoreFileExpiry, after a slice that was*)
(* sent again.                                                             *)
THEOREM LiveFilesKeepTheirExpiry ==
    ASSUME ~ Faults
    PROVE  Spec /\ []HoldersKeepTheirLock => []LiveFileKeepsExpiry
<1>1. Spec /\ []HoldersKeepTheirLock => []ChunkInv
  BY ChunkInvariant
<1>2. Spec /\ []HoldersKeepTheirLock => []ExpiryInv
  BY ExpiryInvariant
<1>3. ChunkInv /\ ExpiryInv => LiveFileKeepsExpiry
  <2> SUFFICES ASSUME ChunkInv, ExpiryInv, NEW store \in links, RecordLive(store),
                      blob[store].there,
                      \A r \in Requests :
                          req[r].store = store => req[r].pc \notin {"touch", "pttl", "restore"}
               PROVE  blob[store].mtime + Patience >= record[store]
    BY DEF LiveFileKeepsExpiry
  <2>1. store \in Stores /\ store \in Done
    BY Unfolded DEF UploadGood, Done
  <2>2. Settled(store) /\ ~ Waits(store, Timing)
    BY <2>1 DEF Settled, Waits, Timing
  <2>3. record[store] <= blob[store].mtime + Patience
    BY <2>1, <2>2 DEF ExpiryInv, StoreTimed
  <2>4. record[store] \in Nat /\ blob[store].mtime \in Nat /\ Patience \in Nat
    BY <2>1, NumbersHold, Constants DEF Numbers
  <2> QED BY <2>3, <2>4
<1> QED BY <1>1, <1>2, <1>3, PTL
====

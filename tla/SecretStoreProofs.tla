--------------------------- MODULE SecretStoreProofs ---------------------------
(***************************************************************************)
(* Proofs about SecretStore for any number of clients, readers and ids,    *)
(* any limits and any clock bound.                                         *)
(***************************************************************************)
EXTENDS SecretStoreInv, TLAPS

(* Each step of Next, named, for the case splits below.                    *)
LEMMA NextCases ==
    ASSUME Next
    PROVE  \/ \E s \in Saves : \/ SaveRequest(s) \/ SaveAnswer(s) \/ SaveFailed(s)
                               \/ \E id \in Ids : SaveSetNX(s, id) \/ SaveCollision(s, id)
           \/ \E r \in Readers :
                 \/ ReadRequest(r) \/ ReadWatch(r) \/ ReadGet(r) \/ ReadPTTL(r)
                 \/ ReadExecSet(r) \/ ReadExecDel(r) \/ ReadRefused(r)
                 \/ ReadAnswer(r) \/ ReadFailed(r)
           \/ StatusRequest \/ StatusFailed \/ \E s \in Saves : StatusExists(s)
           \/ ServerCrash
           \/ Tick
BY DEF Next, SaveStep, ReadServed, StatusStep

LEMMA ClampTypes ==
    /\ \A n \in Int : ClampViews(n) \in 1 .. MaxViews
    /\ \A d \in Int : ClampDuration(d) \in 1 .. MaxDuration
    /\ \A n \in 1 .. MaxViews : StoredViews(n) \in 0 .. MaxViews /\ ViewsOf(StoredViews(n)) = n
BY LimitsAssumption DEF ClampViews, ClampDuration, StoredViews, ViewsOf

LEMMA SchemeTypes ==
    ASSUME NEW s \in Saves, NEW form \in SaveForms(s), SchemeAccepted(form)
    PROVE  /\ SchemeStored(form) \in StoredKeys
           /\ form.v \in {LegacyScheme, SchemeV3}
           /\ KeyOf(s, SchemeStored(form), form.v)
<1>1. form.legacy \in {Empty, Malformed, Token(s)} /\ form.hash \in {Empty, Malformed, Hash(Token(s))}
    BY DEF SaveForms
<1>2. Token(s) \in StoredKeys /\ Hash(Token(s)) \in StoredKeys
    BY DEF StoredKeys
<1>3. CASE form.v = SchemeV3
    BY <1>1, <1>2, <1>3 DEF SchemeAccepted, SchemeStored, IsValidHashedKey, LegacyScheme, SchemeV3, KeyOf
<1>4. CASE form.v = LegacyScheme
    BY <1>1, <1>2, <1>4 DEF SchemeAccepted, SchemeStored, IsValidHashedKey, LegacyScheme, SchemeV3, KeyOf
<1> QED BY <1>3, <1>4 DEF SchemeAccepted

LEMMA InitTypes == Init => TypeOK
BY LimitsAssumption, StoreAssumption DEF Init, TypeOK, LifetimesBounded, NoRequest, NewSave, NoPoll, NoRecord,
   ReadRequests, SaveRequests

LEMMA LifetimeIsNat == 0 \in 0 .. MaxDuration /\ 0 .. MaxDuration \subseteq Nat
BY LimitsAssumption

(* Updating fields of a request with values of their types.                *)
LEMMA ReadStatusType ==
    ASSUME NEW q \in ReadRequests,
           NEW status \in {"ok", "no message", "wrong key", "retry", "error"}
    PROVE  [q EXCEPT !.status = status] \in ReadRequests
BY DEF ReadRequests

LEMMA NoRequestType == NoRequest \in ReadRequests
BY LimitsAssumption DEF NoRequest, ReadRequests

LEMMA NewSaveType == NewSave \in SaveRequests /\ NewSave.id = NoId
BY LimitsAssumption, StoreAssumption DEF NewSave, SaveRequests

(* A record as SETNX stores it and as a read writes it back.               *)
LEMMA RecordType ==
    ASSUME NEW s \in Saves, NEW key \in StoredKeys, NEW version \in {LegacyScheme, SchemeV3},
           NEW views \in 0 .. MaxViews, NEW deadline \in Nat
    PROVE  [save |-> s, key |-> key, version |-> version, views |-> views,
            deadline |-> deadline] \in Records
BY DEF Records

LEMMA UpdatedType ==
    ASSUME NEW rec \in Records, rec.views > 1, NEW deadline \in Nat
    PROVE  [rec EXCEPT !.views = @ - 1, !.deadline = deadline] \in Records
<1>1. rec.views \in 0 .. MaxViews /\ rec.views - 1 \in 0 .. MaxViews
    BY LimitsAssumption DEF Records
<1> QED BY <1>1 DEF Records

LEMMA NoRecordIsNone == \A rec \in Records : rec # NoRecord /\ rec.save \in Saves
BY NoSaveAssumption DEF Records, NoRecord

(* Only the token itself matches what was stored for it.                   *)
LEMMA TokensMatch ==
    ASSUME NEW s \in Saves, NEW key, NEW version, KeyOf(s, key, version),
           NEW presented, TokenMatchesStored(key, version, presented)
    PROVE  presented = Token(s)
<1>1. CASE version = LegacyScheme
    BY <1>1 DEF KeyOf, TokenMatchesStored, LegacyScheme, SchemeV3
<1>2. CASE version = SchemeV3
    <2>1. Hash(Token(s)) = Hash(presented)
        BY <1>2 DEF KeyOf, TokenMatchesStored, LegacyScheme, SchemeV3
    <2> QED BY <2>1 DEF Hash
<1> QED BY <1>1, <1>2 DEF KeyOf
-------------------------------------------------------------------------------
(* The invariant holds initially and is kept by every step.                *)

LEMMA InitInv == Init => IInv
<1> SUFFICES ASSUME Init PROVE IInv
    OBVIOUS
<1>1. TypeOK
    BY InitTypes
<1>2. /\ \A s \in Saves : save[s].pc = "new" /\ save[s].id = NoId
      /\ \A s \in Saves : taken[s] = {} /\ delivered[s] = {}
      /\ \A r \in Readers : reader[r].pc = "idle"
      /\ \A id \in Ids : db[id] = NoRecord
    BY DEF Init, NewSave, NoRequest
<1> QED BY <1>1, <1>2 DEF IInv, SavePhases, KeysMatch, ReadPhases, SnapshotSound,
        ViewsConserved, ViewsAnsweredOnce, DeliveredWereTaken, LifetimeKept

LEMMA StepSaveRequest ==
    ASSUME IInv, NEW s \in Saves, SaveRequest(s)
    PROVE  IInv'
<1> USE DEF IInv
<1>0. /\ save[s].pc = "new" /\ save[s].id = NoId /\ taken[s] = {}
      /\ UNCHANGED <<db, now, reader, dirty, poll, taken, delivered>>
    BY DEF SaveRequest, SavePhases
<1>1. PICK form \in SaveForms(s), views \in RequestViews, duration \in RequestDurations,
            empty \in BOOLEAN :
         save' = [save EXCEPT ![s] =
                 IF ~empty /\ SchemeAccepted(form)
                 THEN [NewSave EXCEPT !.pc = "setnx",
                                      !.key = SchemeStored(form),
                                      !.version = form.v,
                                      !.views = ClampViews(views),
                                      !.duration = ClampDuration(duration)]
                 ELSE [NewSave EXCEPT !.pc = "error"]]
    BY DEF SaveRequest
<1>2. ClampViews(views) \in 1 .. MaxViews /\ ClampDuration(duration) \in 0 .. MaxDuration
      /\ ClampDuration(duration) > 0
    BY ClampTypes, StoreAssumption, LimitsAssumption
<1>3. /\ save'[s] \in SaveRequests /\ save'[s].id = NoId
      /\ \/ save'[s].pc = "error"
         \/ /\ save'[s].pc = "setnx"
            /\ save'[s].key \in StoredKeys
            /\ save'[s].views \in 1 .. MaxViews /\ save'[s].duration > 0
            /\ KeyOf(s, save'[s].key, save'[s].version)
            /\ save'[s].attempts < MaxStorageIDAttempts
    <2>1. CASE ~empty /\ SchemeAccepted(form)
        <3>1. /\ SchemeStored(form) \in StoredKeys /\ form.v \in {LegacyScheme, SchemeV3}
              /\ KeyOf(s, SchemeStored(form), form.v)
            BY <2>1, SchemeTypes
        <3>2. save'[s] = [NewSave EXCEPT !.pc = "setnx", !.key = SchemeStored(form),
                             !.version = form.v, !.views = ClampViews(views),
                             !.duration = ClampDuration(duration)]
            BY <1>1, <2>1 DEF TypeOK
        <3>3. save'[s] \in SaveRequests
            <4>1. \A q \in SaveRequests, key \in StoredKeys, version \in {LegacyScheme, SchemeV3},
                     n \in 0 .. MaxViews, d \in 0 .. MaxDuration :
                     [q EXCEPT !.pc = "setnx", !.key = key, !.version = version,
                               !.views = n, !.duration = d] \in SaveRequests
                BY DEF SaveRequests
            <4>2. ClampViews(views) \in 0 .. MaxViews
                BY <1>2, LimitsAssumption
            <4>3. [NewSave EXCEPT !.pc = "setnx", !.key = SchemeStored(form), !.version = form.v,
                                  !.views = ClampViews(views),
                                  !.duration = ClampDuration(duration)] \in SaveRequests
                BY <3>1, <4>1, <4>2, <1>2, NewSaveType
            <4> QED BY <3>2, <4>3
        <3>4. /\ save'[s].pc = "setnx" /\ save'[s].id = NoId
              /\ save'[s].key = SchemeStored(form) /\ save'[s].version = form.v
              /\ save'[s].views = ClampViews(views) /\ save'[s].attempts = NewSave.attempts
              /\ save'[s].duration = ClampDuration(duration)
            BY <3>2, NewSaveType DEF SaveRequests
        <3>5. NewSave.attempts < MaxStorageIDAttempts
            BY StoreAssumption DEF NewSave
        <3> QED BY <3>1, <3>3, <3>4, <3>5, <1>2
    <2>2. CASE empty \/ ~SchemeAccepted(form)
        <3>1. save'[s] = [NewSave EXCEPT !.pc = "error"]
            BY <1>1, <2>2 DEF TypeOK
        <3> QED BY <3>1, NewSaveType DEF SaveRequests
    <2> QED BY <2>1, <2>2
<1>4. \A t \in Saves \ {s} : save'[t] = save[t]
    BY <1>1 DEF TypeOK
<1>5. save' \in [Saves -> SaveRequests]
    BY <1>1, <1>3, <1>4 DEF TypeOK
<1>6. TypeOK'
    BY <1>0, <1>5 DEF TypeOK, LifetimesBounded
<1>7. SavePhases'
    BY <1>0, <1>3, <1>4 DEF SavePhases
<1>8. KeysMatch'
    BY <1>0, <1>3, <1>4 DEF KeysMatch
<1>9. ReadPhases' /\ SnapshotSound' /\ ViewsAnsweredOnce' /\ DeliveredWereTaken'
    BY <1>0 DEF ReadPhases, SnapshotSound, ViewsAnsweredOnce, Holds, DeliveredWereTaken
<1>10. ViewsConserved'
    <2>1. \A id \in Ids : db[id] # NoRecord => db[id].save \in Saves /\ db[id].save # s
        BY <1>0, NoIdAssumption, NoRecordIsNone DEF ViewsConserved, TypeOK
    <2> QED BY <1>0, <1>4, <2>1 DEF ViewsConserved
<1>11. LifetimeKept'
    BY <1>0, <1>3, <1>4 DEF LifetimeKept
<1> QED BY <1>6, <1>7, <1>8, <1>9, <1>10, <1>11

LEMMA StepSaveSetNX ==
    ASSUME IInv, NEW s \in Saves, NEW id \in Ids, SaveSetNX(s, id)
    PROVE  IInv'
<1> USE DEF IInv
<1> DEFINE rec == [save |-> s, key |-> save[s].key, version |-> save[s].version,
                   views |-> StoredViews(save[s].views),
                   deadline |-> Expiry(save[s].duration)]
<1>1. /\ save[s].pc = "setnx" /\ ~Live(id) /\ db' = [db EXCEPT ![id] = rec]
      /\ Touch(id, {}) /\ UNCHANGED <<now, reader, poll, taken, delivered>>
    BY DEF SaveSetNX
<1>2. /\ save[s].key \in StoredKeys /\ save[s].views \in 1 .. MaxViews
      /\ save[s].id = NoId /\ taken[s] = {} /\ KeyOf(s, save[s].key, save[s].version)
    BY <1>1 DEF SavePhases, KeysMatch
<1>3. /\ save[s] \in SaveRequests /\ now \in Nat
      /\ Expiry(save[s].duration) \in now .. (now + MaxDuration) /\ Expiry(save[s].duration) \in Nat
      /\ save[s].version \in {LegacyScheme, SchemeV3}
    BY <1>1, LimitsAssumption DEF TypeOK, SaveRequests, SavePhases, Expiry
<1>4. rec \in Records
    BY <1>2, <1>3, ClampTypes, RecordType
<1>5. rec.save = s /\ rec.key = save[s].key /\ rec.version = save[s].version
      /\ rec.deadline = Expiry(save[s].duration) /\ ViewsOf(rec.views) = save[s].views
    BY <1>2, ClampTypes
<1> HIDE DEF rec
<1>6. db'[id] = rec /\ \A i \in Ids \ {id} : db'[i] = db[i]
    BY <1>1 DEF TypeOK
<1>7. /\ save'[s] = [save[s] EXCEPT !.pc = "stored", !.id = id, !.deadline = Expiry(save[s].duration)]
      /\ \A t \in Saves \ {s} : save'[t] = save[t]
    BY DEF SaveSetNX, TypeOK
<1>8. /\ save'[s].pc = "stored" /\ save'[s].id = id /\ save'[s].key = save[s].key
      /\ save'[s].views = save[s].views /\ save'[s].version = save[s].version
      /\ save'[s].deadline = Expiry(save[s].duration)
    BY <1>3, <1>7 DEF SaveRequests
<1>9. save' \in [Saves -> SaveRequests]
    <2>1. [save[s] EXCEPT !.pc = "stored", !.id = id, !.deadline = Expiry(save[s].duration)]
             \in SaveRequests
        BY <1>3 DEF SaveRequests
    <2> QED BY <1>7, <2>1 DEF SaveSetNX, TypeOK
<1>10. /\ dirty \subseteq dirty' /\ dirty' \subseteq Readers
       /\ \A r \in Readers : reader[r].pc \in Watching /\ reader[r].id = id => r \in dirty'
    BY <1>1 DEF Touch, TypeOK
<1>11. TypeOK'
    <2>1. LifetimesBounded'
        BY <1>1, <1>3, <1>5, <1>6 DEF TypeOK, LifetimesBounded
    <2> QED BY <1>1, <1>4, <1>9, <1>10, <2>1 DEF TypeOK
<1>7a. \A t \in Saves \ {s} : save'[t] = save[t]
    BY <1>7
<1>12. SavePhases'
    <2> SUFFICES ASSUME NEW t \in Saves
                 PROVE  /\ save'[t].pc \in {"setnx", "stored", "ok"} =>
                              save'[t].key \in StoredKeys /\ save'[t].views \in 1 .. MaxViews
                        /\ save'[t].pc = "setnx" => save'[t].duration > 0
                        /\ save'[t].pc = "setnx" => save'[t].attempts < MaxStorageIDAttempts
                        /\ save'[t].pc \in {"new", "setnx"} => save'[t].id = NoId
                        /\ save'[t].pc \in {"stored", "ok"} => save'[t].id \in Ids
                        /\ save'[t].id = NoId => taken[t] = {}
        BY <1>1 DEF SavePhases
    <2>1. CASE t = s
        BY <1>2, <1>8, <2>1
    <2>2. CASE t # s
        BY <1>7a, <2>2 DEF SavePhases
    <2> QED BY <2>1, <2>2
<1>13. KeysMatch'
    <2>1. ASSUME NEW t \in Saves, save'[t].pc = "setnx"
          PROVE  KeyOf(t, save'[t].key, save'[t].version)
        BY <1>7a, <1>8, <2>1 DEF KeysMatch
    <2>2. ASSUME NEW i \in Ids, db'[i] # NoRecord
          PROVE  KeyOf(db'[i].save, db'[i].key, db'[i].version)
        BY <1>2, <1>5, <1>6, <2>2 DEF KeysMatch
    <2> QED BY <2>1, <2>2 DEF KeysMatch
<1>14. ReadPhases'
    BY <1>1 DEF ReadPhases
<1>15. SnapshotSound'
    BY <1>1, <1>6, <1>10 DEF SnapshotSound, ReadPhases, Watching
<1>16. ViewsConserved'
    <2> SUFFICES ASSUME NEW i \in Ids, db'[i] # NoRecord
                 PROVE  LET t == db'[i].save IN
                        /\ save'[t].id = i
                        /\ ViewsOf(db'[i].views) <= save'[t].views
                        /\ taken'[t] = ViewsOf(db'[i].views) .. (save'[t].views - 1)
        BY DEF ViewsConserved
    <2>1. CASE i = id
        <3>1. /\ save[s].views .. (save[s].views - 1) = {}
              /\ save[s].views <= save[s].views
            BY <1>2, LimitsAssumption
        <3> QED BY <1>1, <1>2, <1>5, <1>6, <1>8, <2>1, <3>1
    <2>2. CASE i # id
        <3>1. db[i] \in Records /\ db[i].save \in Saves
            BY <1>6, <2>2, NoRecordIsNone DEF TypeOK
        <3>2. save[db[i].save].id = i
            BY <1>6, <2>2 DEF ViewsConserved
        <3>3. db[i].save # s
            BY <1>2, <3>2, NoIdAssumption
        <3> QED BY <1>1, <1>6, <1>7, <2>2, <3>1, <3>3 DEF ViewsConserved
    <2> QED BY <2>1, <2>2
<1>17. ViewsAnsweredOnce' /\ DeliveredWereTaken'
    BY <1>1 DEF ViewsAnsweredOnce, Holds, DeliveredWereTaken
<1>18. LifetimeKept'
    <2>1. ASSUME NEW t \in Saves, save'[t].id # NoId, 0 \notin taken'[t], now' <= save'[t].deadline
          PROVE  db'[save'[t].id].save = t /\ save'[t].deadline <= db'[save'[t].id].deadline
        <3>1. CASE t = s
            BY <1>3, <1>5, <1>6, <1>8, <3>1
        <3>2. CASE t # s
            <4>1. db[save[t].id].save = t /\ save[t].deadline <= db[save[t].id].deadline
                BY <1>1, <1>7, <2>1, <3>2 DEF LifetimeKept
            <4>2. save[t].id \in Ids
                BY <1>7, <2>1, <3>2 DEF TypeOK, SaveRequests
            <4>3. save[t].id # id
                <5> SUFFICES ASSUME save[t].id = id PROVE FALSE
                    OBVIOUS
                <5>1. db[id] # NoRecord
                    BY <4>1, NoSaveAssumption DEF NoRecord
                <5>2. now <= db[id].deadline
                    <6>1. now \in Nat /\ save[t].deadline \in Nat /\ db[id].deadline \in Nat
                        BY <5>1 DEF TypeOK, SaveRequests, Records
                    <6> QED BY <1>1, <1>7, <2>1, <3>2, <4>1, <6>1
                <5> QED BY <1>1, <5>1, <5>2 DEF Live
            <4> QED BY <1>6, <1>7, <3>2, <4>1, <4>2, <4>3
        <3> QED BY <3>1, <3>2
    <2>2. ASSUME NEW r \in Readers, reader'[r].pc = "set", r \notin dirty'
          PROVE  reader'[r].cur.deadline <= now' + reader'[r].ttl
        BY <1>1, <1>10, <2>2 DEF LifetimeKept
    <2> QED BY <2>1, <2>2 DEF LifetimeKept
<1> QED BY <1>11, <1>12, <1>13, <1>14, <1>15, <1>16, <1>17, <1>18

(* The steps of a save that leave the database alone only move its phase   *)
(* on, to "ok" from "stored" alone.                                        *)
LEMMA SaveOther ==
    ASSUME IInv, NEW s \in Saves,
           UNCHANGED <<db, now, reader, dirty, poll, taken, delivered>>,
           save' \in [Saves -> SaveRequests],
           \A t \in Saves \ {s} : save'[t] = save[t],
           save'[s].id = save[s].id, save'[s].key = save[s].key,
           save'[s].views = save[s].views, save'[s].version = save[s].version,
           save'[s].deadline = save[s].deadline, save'[s].duration = save[s].duration,
           \/ save'[s].pc = "error"
           \/ save[s].pc = "stored" /\ save'[s].pc = "ok"
           \/ /\ save[s].pc = "setnx" /\ save'[s].pc = "setnx"
              /\ save'[s].attempts < MaxStorageIDAttempts
    PROVE  IInv'
<1> USE DEF IInv
<1>1. TypeOK'
    BY DEF TypeOK, LifetimesBounded
<1>2. SavePhases'
    BY DEF SavePhases
<1>3. KeysMatch'
    BY DEF KeysMatch
<1>4. ReadPhases' /\ SnapshotSound' /\ ViewsAnsweredOnce' /\ DeliveredWereTaken'
    BY DEF ReadPhases, SnapshotSound, ViewsAnsweredOnce, Holds, DeliveredWereTaken
<1>5. ViewsConserved'
    <2>1. \A id \in Ids : db[id] # NoRecord => db[id].save \in Saves
        BY NoRecordIsNone DEF TypeOK
    <2> QED BY <2>1 DEF ViewsConserved
<1>6. LifetimeKept'
    BY DEF LifetimeKept
<1> QED BY <1>1, <1>2, <1>3, <1>4, <1>5, <1>6

LEMMA StepSaveAnswer ==
    ASSUME IInv, NEW s \in Saves, SaveAnswer(s)
    PROVE  IInv'
<1>1. /\ save[s].pc = "stored" /\ save' = [save EXCEPT ![s].pc = "ok"]
      /\ UNCHANGED <<db, now, reader, dirty, poll, taken, delivered>>
    BY DEF SaveAnswer
<1>2. save[s] \in SaveRequests /\ save \in [Saves -> SaveRequests]
    BY DEF IInv, TypeOK
<1>3. [save[s] EXCEPT !.pc = "ok"] \in SaveRequests
    BY <1>2 DEF SaveRequests
<1>4. save'[s] = [save[s] EXCEPT !.pc = "ok"] /\ \A t \in Saves \ {s} : save'[t] = save[t]
    BY <1>1, <1>2
<1>5. save' \in [Saves -> SaveRequests]
    BY <1>1, <1>2, <1>3
<1>6. /\ save'[s].pc = "ok" /\ save'[s].id = save[s].id /\ save'[s].key = save[s].key
      /\ save'[s].views = save[s].views /\ save'[s].version = save[s].version
      /\ save'[s].deadline = save[s].deadline /\ save'[s].duration = save[s].duration
    BY <1>2, <1>4 DEF SaveRequests
<1> QED BY <1>1, <1>4, <1>5, <1>6, SaveOther

LEMMA StepSaveFailed ==
    ASSUME IInv, NEW s \in Saves, SaveFailed(s)
    PROVE  IInv'
<1>1. /\ save' = [save EXCEPT ![s].pc = "error"]
      /\ UNCHANGED <<db, now, reader, dirty, poll, taken, delivered>>
    BY DEF SaveFailed
<1>2. save[s] \in SaveRequests /\ save \in [Saves -> SaveRequests]
    BY DEF IInv, TypeOK
<1>3. [save[s] EXCEPT !.pc = "error"] \in SaveRequests
    BY <1>2 DEF SaveRequests
<1>4. save'[s] = [save[s] EXCEPT !.pc = "error"] /\ \A t \in Saves \ {s} : save'[t] = save[t]
    BY <1>1, <1>2
<1>5. save' \in [Saves -> SaveRequests]
    BY <1>1, <1>2, <1>3
<1>6. /\ save'[s].pc = "error" /\ save'[s].id = save[s].id /\ save'[s].key = save[s].key
      /\ save'[s].views = save[s].views /\ save'[s].version = save[s].version
      /\ save'[s].deadline = save[s].deadline /\ save'[s].duration = save[s].duration
    BY <1>2, <1>4 DEF SaveRequests
<1> QED BY <1>1, <1>4, <1>5, <1>6, SaveOther

LEMMA StepSaveCollision ==
    ASSUME IInv, NEW s \in Saves, NEW id \in Ids, SaveCollision(s, id)
    PROVE  IInv'
<1> DEFINE pc == IF save[s].attempts + 1 < MaxStorageIDAttempts THEN "setnx" ELSE "error"
           new == [save[s] EXCEPT !.attempts = save[s].attempts + 1, !.pc = pc]
<1>1. /\ save[s].pc = "setnx" /\ save' = [save EXCEPT ![s] = new]
      /\ UNCHANGED <<db, now, reader, dirty, poll, taken, delivered>>
    BY DEF SaveCollision
<1>2. save[s] \in SaveRequests /\ save \in [Saves -> SaveRequests]
    BY DEF IInv, TypeOK
<1>3. save[s].attempts + 1 \in 0 .. MaxStorageIDAttempts
    BY <1>1, <1>2, StoreAssumption DEF IInv, SavePhases, SaveRequests
<1>4. /\ new \in SaveRequests
      /\ new.pc = pc /\ new.attempts = save[s].attempts + 1
      /\ new.id = save[s].id /\ new.key = save[s].key
      /\ new.views = save[s].views /\ new.version = save[s].version
      /\ new.deadline = save[s].deadline /\ new.duration = save[s].duration
    BY <1>2, <1>3 DEF SaveRequests
<1>5. pc = "error" \/ (pc = "setnx" /\ save[s].attempts + 1 < MaxStorageIDAttempts)
    OBVIOUS
<1> HIDE DEF new, pc
<1>6. save'[s] = new /\ \A t \in Saves \ {s} : save'[t] = save[t]
    BY <1>1, <1>2
<1>7. save' \in [Saves -> SaveRequests]
    BY <1>1, <1>2, <1>4
<1> QED BY <1>1, <1>4, <1>5, <1>6, <1>7, SaveOther

-------------------------------------------------------------------------------
(* A step of one read that commits nothing and answers nothing "ok".       *)
LEMMA ReaderMoves ==
    ASSUME IInv, NEW r \in Readers, NEW new \in ReadRequests,
           UNCHANGED <<db, now, save, poll, taken, delivered>>,
           reader' = [reader EXCEPT ![r] = new],
           dirty' = dirty \/ dirty' = dirty \ {r},
           new.pc # "committed",
           new.pc # "idle" => new.id \in Ids,
           new.pc \in {"pttl", "set", "del"} =>
               /\ new.cur \in Records /\ new.key = Token(new.cur.save)
               /\ r \notin dirty' => db[new.id] = new.cur,
           new.pc \in {"pttl", "set"} => new.cur.views > 1,
           new.pc = "set" =>
               /\ new.ttl > 0
               /\ r \notin dirty' => new.cur.deadline <= now + new.ttl
    PROVE  IInv'
<1> USE DEF IInv
<1>1. reader'[r] = new /\ \A q \in Readers \ {r} : reader'[q] = reader[q]
    BY DEF TypeOK
<1>2. \A q \in Readers \ {r} : q \in dirty' <=> q \in dirty
    OBVIOUS
<1>3. TypeOK'
    BY DEF TypeOK, LifetimesBounded
<1>4. SavePhases' /\ KeysMatch' /\ ViewsConserved' /\ DeliveredWereTaken'
    BY DEF SavePhases, KeysMatch, ViewsConserved, DeliveredWereTaken
<1>5. ReadPhases'
    BY <1>1 DEF ReadPhases
<1>6. SnapshotSound'
    BY <1>1, <1>2 DEF SnapshotSound
<1>7. ViewsAnsweredOnce'
    BY <1>1 DEF ViewsAnsweredOnce, Holds
<1>8. LifetimeKept'
    BY <1>1, <1>2 DEF LifetimeKept
<1> QED BY <1>3, <1>4, <1>5, <1>6, <1>7, <1>8

(* Any answer but "ok".                                                    *)
LEMMA StepAnswer ==
    ASSUME IInv, NEW r \in Readers,
           NEW status \in {"ok", "no message", "wrong key", "retry", "error"},
           Answer(r, status), UNCHANGED <<db, now, save, poll, taken, delivered>>
    PROVE  IInv'
<1> DEFINE new == [NoRequest EXCEPT !.status = status]
<1>1. new \in ReadRequests
    BY NoRequestType, ReadStatusType
<1>2. new.pc = "idle"
    BY NoRequestType DEF NoRequest, ReadRequests
<1>3. reader' = [reader EXCEPT ![r] = new] /\ dirty' = dirty \ {r}
    BY DEF Answer
<1> HIDE DEF new
<1> QED BY <1>1, <1>2, <1>3, ReaderMoves

LEMMA StepReadRequest ==
    ASSUME IInv, NEW r \in Readers, ReadRequest(r)
    PROVE  IInv'
<1>1. PICK id \in Ids \cup {NoId}, key \in PresentedKeys :
         reader' = [reader EXCEPT ![r] =
             IF id = NoId
             THEN [NoRequest EXCEPT !.status = "no message"]
             ELSE IF ~IsValidHashedKey(key)
             THEN [NoRequest EXCEPT !.status = "wrong key"]
             ELSE [NoRequest EXCEPT !.pc = "watch", !.id = id, !.key = key, !.start = now]]
    BY DEF ReadRequest
<1>2. UNCHANGED <<db, now, save, dirty, poll, taken, delivered>> /\ now \in Nat
    BY DEF ReadRequest, IInv, TypeOK
<1>3. ASSUME NEW status \in {"no message", "wrong key"},
             reader' = [reader EXCEPT ![r] = [NoRequest EXCEPT !.status = status]]
      PROVE  IInv'
    <2> DEFINE new == [NoRequest EXCEPT !.status = status]
    <2>1. new \in ReadRequests
        BY NoRequestType, ReadStatusType
    <2>2. new.pc = "idle"
        BY NoRequestType DEF NoRequest, ReadRequests
    <2>3. reader' = [reader EXCEPT ![r] = new]
        BY <1>3
    <2> HIDE DEF new
    <2> QED BY <1>2, <2>1, <2>2, <2>3, ReaderMoves
<1>4. CASE id \in Ids /\ id # NoId /\ IsValidHashedKey(key)
    <2> DEFINE new == [NoRequest EXCEPT !.pc = "watch", !.id = id, !.key = key, !.start = now]
    <2>1. new \in ReadRequests
        BY <1>2, NoRequestType DEF ReadRequests
    <2>2. new.pc = "watch" /\ new.id \in Ids
        BY <1>4, NoRequestType DEF ReadRequests
    <2>3. reader' = [reader EXCEPT ![r] = new]
        BY <1>1, <1>4
    <2> HIDE DEF new
    <2> QED BY <1>2, <2>1, <2>2, <2>3, ReaderMoves
<1> QED BY <1>1, <1>3, <1>4

LEMMA StepReadWatch ==
    ASSUME IInv, NEW r \in Readers, ReadWatch(r)
    PROVE  IInv'
<1> DEFINE new == [reader[r] EXCEPT !.pc = "get"]
<1>1. /\ reader[r].pc = "watch" /\ reader' = [reader EXCEPT ![r] = new]
      /\ UNCHANGED <<db, now, save, dirty, poll, taken, delivered>>
    BY DEF ReadWatch
<1>2. reader[r] \in ReadRequests /\ reader[r].id \in Ids
    BY <1>1 DEF IInv, TypeOK, ReadPhases
<1>3. new \in ReadRequests /\ new.pc = "get" /\ new.id = reader[r].id
    BY <1>2 DEF ReadRequests
<1> HIDE DEF new
<1> QED BY <1>1, <1>2, <1>3, ReaderMoves

LEMMA StepReadGet ==
    ASSUME IInv, NEW r \in Readers, ReadGet(r)
    PROVE  IInv'
<1> DEFINE current == db[reader[r].id]
           pc == IF current.views > 1 THEN "pttl" ELSE "del"
           new == [reader[r] EXCEPT !.cur = current, !.pc = pc]
<1>1. reader[r].pc = "get" /\ UNCHANGED <<db, now, save, poll, taken, delivered>>
    BY DEF ReadGet
<1>2. reader[r] \in ReadRequests /\ reader[r].id \in Ids
    BY <1>1 DEF IInv, TypeOK, ReadPhases
<1>3. CASE Answer(r, "no message") \/ Answer(r, "wrong key")
    BY <1>1, <1>3, StepAnswer
<1>4. CASE /\ Live(reader[r].id)
           /\ TokenMatchesStored(current.key, current.version, reader[r].key)
           /\ reader' = [reader EXCEPT ![r].cur = current, ![r].pc = pc]
           /\ UNCHANGED dirty
    <2>1. current \in Records
        BY <1>2, <1>4 DEF Live, IInv, TypeOK
    <2>2. KeyOf(current.save, current.key, current.version) /\ current.save \in Saves
        BY <1>2, <1>4, <2>1, NoRecordIsNone DEF Live, IInv, KeysMatch
    <2>3. reader[r].key = Token(current.save)
        BY <1>4, <2>2, TokensMatch
    <2>4. pc \in {"pttl", "del"} /\ (pc = "pttl" => current.views > 1)
        OBVIOUS
    <2> HIDE DEF pc
    <2>5. /\ new \in ReadRequests /\ new.pc = pc /\ new.id = reader[r].id
          /\ new.cur = current /\ new.key = reader[r].key
        <3> HIDE DEF current
        <3> QED BY <1>2, <2>1, <2>4 DEF ReadRequests
    <2>6. reader' = [reader EXCEPT ![r] = new]
        BY <1>4
    <2> HIDE DEF new
    <2>7. db[new.id] = new.cur
        BY <2>5
    <2> HIDE DEF current
    <2> QED BY <1>1, <1>2, <1>4, <2>1, <2>3, <2>4, <2>5, <2>6, <2>7, ReaderMoves
<1> QED BY <1>3, <1>4 DEF ReadGet

LEMMA StepReadPTTL ==
    ASSUME IInv, NEW r \in Readers, ReadPTTL(r)
    PROVE  IInv'
<1> DEFINE id == reader[r].id
           ttl == IF Live(id) THEN db[id].deadline - now ELSE -2
           rest == IF ttl > 0 THEN ttl ELSE 0
           pc == IF ttl > 0 THEN "set" ELSE "del"
           new == [reader[r] EXCEPT !.ttl = rest, !.pc = pc]
<1>1. /\ reader[r].pc = "pttl" /\ reader' = [reader EXCEPT ![r] = new]
      /\ UNCHANGED <<db, now, save, dirty, poll, taken, delivered>>
    BY DEF ReadPTTL
<1>2. /\ reader[r] \in ReadRequests /\ reader[r].id \in Ids /\ reader[r].cur \in Records
      /\ reader[r].key = Token(reader[r].cur.save) /\ reader[r].cur.views > 1
      /\ r \notin dirty => db[reader[r].id] = reader[r].cur
    BY <1>1 DEF IInv, TypeOK, ReadPhases, SnapshotSound
<1>3. now \in Nat /\ reader[r].cur.deadline \in Nat /\ ttl \in Int
    <2>1. now \in Nat /\ reader[r].cur.deadline \in Nat
        BY <1>2 DEF IInv, TypeOK, Records
    <2>2. Live(id) => db[id].deadline \in Nat
        BY <1>2 DEF IInv, TypeOK, Live, Records
    <2> QED BY <2>1, <2>2
<1>4. /\ rest \in 0 .. MaxDuration /\ pc \in {"set", "del"} /\ (pc = "set" => rest > 0)
      /\ pc = "set" /\ r \notin dirty => reader[r].cur.deadline <= now + rest
    <2>1. rest \in Nat /\ pc \in {"set", "del"} /\ (pc = "set" => rest > 0 /\ rest = ttl /\ Live(id))
        BY <1>3
    <2>2. Live(id) => ttl = db[id].deadline - now
        OBVIOUS
    <2>3. Live(id) => db[id].deadline \in Nat /\ db[id].deadline <= now + MaxDuration
        BY <1>2 DEF IInv, TypeOK, LifetimesBounded, Live, Records
    <2>4. rest = 0 \/ (rest = ttl /\ Live(id))
        BY <1>3
    <2> HIDE DEF rest, pc, ttl
    <2>5. rest <= MaxDuration
        BY <1>3, <2>2, <2>3, <2>4, LimitsAssumption
    <2> QED BY <1>2, <1>3, <2>1, <2>2, <2>5, LimitsAssumption
<1> HIDE DEF rest, pc, ttl
<1>5. /\ new \in ReadRequests /\ new.pc = pc /\ new.id = reader[r].id /\ new.ttl = rest
      /\ new.cur = reader[r].cur /\ new.key = reader[r].key
    BY <1>2, <1>4 DEF ReadRequests
<1> HIDE DEF new, id
<1> QED BY <1>1, <1>2, <1>4, <1>5, ReaderMoves

LEMMA StepReadRefused ==
    ASSUME IInv, NEW r \in Readers, ReadRefused(r)
    PROVE  IInv'
<1> DEFINE new == [reader[r] EXCEPT !.pc = "watch", !.cur = NoRecord, !.ttl = 0]
<1>1. reader[r].pc \in {"set", "del"} /\ UNCHANGED <<db, now, save, poll, taken, delivered>>
    BY DEF ReadRefused
<1>2. reader[r] \in ReadRequests /\ reader[r].id \in Ids
    BY <1>1 DEF IInv, TypeOK, ReadPhases
<1>3. CASE Answer(r, "retry")
    BY <1>1, <1>3, StepAnswer
<1>4. CASE reader' = [reader EXCEPT ![r] = new] /\ dirty' = dirty \ {r}
    <2>1. new \in ReadRequests /\ new.pc = "watch" /\ new.id = reader[r].id
        <3>1. NoRecord \in Records \cup {NoRecord}
            OBVIOUS
        <3> QED BY <1>2, <3>1, LifetimeIsNat DEF ReadRequests
    <2>2. reader' = [reader EXCEPT ![r] = new]
        BY <1>4
    <2> HIDE DEF new
    <2> QED BY <1>1, <1>2, <1>4, <2>1, <2>2, ReaderMoves
<1>5. Answer(r, "retry") \/ (reader' = [reader EXCEPT ![r] = new] /\ dirty' = dirty \ {r})
    BY DEF ReadRefused
<1> QED BY <1>3, <1>4, <1>5

LEMMA StepReadFailed ==
    ASSUME IInv, NEW r \in Readers, ReadFailed(r)
    PROVE  IInv'
BY StepAnswer DEF ReadFailed

(* A commit: the record was still the one that was read, so the view taken *)
(* is the next one of its secret and nobody had it before.                 *)
LEMMA Commit ==
    ASSUME IInv, NEW r \in Readers, NEW view \in 0 .. MaxViews,
           NEW new \in Records \cup {NoRecord},
           reader[r].pc \in {"set", "del"}, ExecAllowed(r),
           db' = [db EXCEPT ![reader[r].id] = new],
           TakeView(r, view),
           \/ new = NoRecord /\ view = 0
           \/ /\ new \in Records /\ view = new.views
              /\ reader[r].cur.views > 1 /\ new.views = reader[r].cur.views - 1
              /\ new.save = reader[r].cur.save /\ new.key = reader[r].cur.key
              /\ new.version = reader[r].cur.version
              /\ reader[r].cur.deadline <= new.deadline
              /\ new.deadline <= now + MaxDuration
    PROVE  IInv'
<1> USE DEF IInv
<1> DEFINE id == reader[r].id
           cur == reader[r].cur
           s == cur.save
           took == reader[r].took + 1
           next == [reader[r] EXCEPT !.pc = "committed", !.view = view, !.took = took]
<1>1. /\ reader[r] \in ReadRequests /\ id \in Ids /\ cur \in Records
      /\ reader[r].key = Token(s) /\ db[id] = cur
    BY DEF TypeOK, ReadPhases, SnapshotSound, ExecAllowed
<1>2. /\ s \in Saves /\ cur.views \in 0 .. MaxViews /\ cur.deadline \in Nat /\ cur # NoRecord
    BY <1>1, NoRecordIsNone DEF Records
<1>3. /\ save[s].id = id /\ save[s].views \in 0 .. MaxViews
      /\ ViewsOf(cur.views) <= save[s].views
      /\ taken[s] = ViewsOf(cur.views) .. (save[s].views - 1)
    BY <1>1, <1>2 DEF ViewsConserved, TypeOK, SaveRequests
<1>4. /\ view \in 0 .. MaxViews /\ view < ViewsOf(cur.views) /\ view \notin taken[s]
      /\ ViewsOf(cur.views) \in 1 .. MaxViews
    BY <1>2, <1>3, LimitsAssumption DEF ViewsOf
<1>5. /\ reader' = [reader EXCEPT ![r] = next]
      /\ taken' = [taken EXCEPT ![s] = taken[s] \cup {view}]
      /\ UNCHANGED <<now, save, poll, delivered>> /\ Touch(id, {r})
    BY DEF TakeView
<1>6. /\ next \in ReadRequests /\ next.pc = "committed" /\ next.view = view
      /\ next.id = id /\ next.cur = cur /\ next.key = reader[r].key
    <2>1. took \in Nat
        <3>1. reader[r].took \in Nat
            BY <1>1 DEF ReadRequests
        <3> QED BY <3>1
    <2> HIDE DEF took
    <2>2. view \in 0 .. MaxViews
        BY <1>4
    <2>3. next \in ReadRequests
        <3> HIDE DEF cur, id
        <3> QED BY <1>1, <2>1, <2>2 DEF ReadRequests
    <2>4. next.pc = "committed" /\ next.view = view /\ next.id = id /\ next.cur = cur
          /\ next.key = reader[r].key
        BY <1>1 DEF ReadRequests
    <2> QED BY <2>3, <2>4
<1> HIDE DEF next
<1>7. reader'[r] = next /\ \A q \in Readers \ {r} : reader'[q] = reader[q]
    BY <1>5 DEF TypeOK
<1>8. /\ taken'[s] = taken[s] \cup {view} /\ \A t \in Saves \ {s} : taken'[t] = taken[t]
      /\ \A t \in Saves : taken[t] \subseteq taken'[t]
    BY <1>2, <1>5 DEF TypeOK
<1>9. db'[id] = new /\ \A i \in Ids \ {id} : db'[i] = db[i]
    BY <1>1 DEF TypeOK
<1>10. /\ dirty \subseteq dirty' /\ dirty' \subseteq Readers
       /\ \A q \in Readers \ {r} : reader[q].pc \in Watching /\ reader[q].id = id => q \in dirty'
    BY <1>5 DEF Touch, TypeOK
<1>11. /\ new = NoRecord \/ new \in Records
       /\ new \in Records => /\ new # NoRecord /\ new.save = s /\ new.key = cur.key
                             /\ new.version = cur.version /\ cur.deadline <= new.deadline
                             /\ new.deadline <= now + MaxDuration
                             /\ cur.views > 1 /\ view = cur.views - 1 /\ new.views = view
       /\ new = NoRecord => view = 0
    BY NoRecordIsNone
<1>12. TypeOK'
    <2>1. db' \in [Ids -> Records \cup {NoRecord}]
        BY <1>11 DEF TypeOK
    <2>2. reader' \in [Readers -> ReadRequests]
        BY <1>5, <1>6 DEF TypeOK
    <2>3. taken' \in [Saves -> SUBSET (0 .. MaxViews)]
        BY <1>4, <1>5, <1>2 DEF TypeOK
    <2>4. LifetimesBounded'
        BY <1>5, <1>9, <1>11 DEF TypeOK, LifetimesBounded
    <2> QED BY <1>5, <1>10, <2>1, <2>2, <2>3, <2>4 DEF TypeOK
<1> HIDE DEF cur, id
<1>13. SavePhases'
    BY <1>1, <1>3, <1>5, <1>8, NoIdAssumption DEF SavePhases
<1>14. KeysMatch'
    BY <1>1, <1>2, <1>5, <1>9, <1>11 DEF KeysMatch
<1>15. ReadPhases'
    BY <1>1, <1>6, <1>7 DEF ReadPhases
<1>16. SnapshotSound'
    BY <1>6, <1>7, <1>9, <1>10 DEF SnapshotSound, ReadPhases, Watching
<1>17. ViewsConserved'
    <2> SUFFICES ASSUME NEW i \in Ids, db'[i] # NoRecord
                 PROVE  LET t == db'[i].save IN
                        /\ save'[t].id = i
                        /\ ViewsOf(db'[i].views) <= save'[t].views
                        /\ taken'[t] = ViewsOf(db'[i].views) .. (save'[t].views - 1)
        BY DEF ViewsConserved
    <2>1. CASE i = id
        <3>1. new \in Records
            BY <1>9, <1>11, <2>1
        <3>2. ViewsOf(new.views) = view /\ ViewsOf(cur.views) = view + 1
            BY <1>2, <1>11, <3>1 DEF ViewsOf
        <3>3. (view + 1) .. (save[s].views - 1) \cup {view} = view .. (save[s].views - 1)
            BY <1>3, <1>4, <3>2, LimitsAssumption
        <3>4. view <= save[s].views
            BY <1>3, <1>4, LimitsAssumption
        <3>5. db'[i].save = s /\ db'[i].views = new.views
            BY <1>9, <1>11, <2>1, <3>1
        <3>6. taken'[s] = view .. (save[s].views - 1)
            BY <1>3, <1>8, <3>2, <3>3
        <3> QED BY <1>3, <1>5, <2>1, <3>2, <3>4, <3>5, <3>6
    <2>2. CASE i # id
        <3>1. db[i] \in Records /\ db[i].save \in Saves /\ db[i] # NoRecord
            BY <1>9, <2>2, NoRecordIsNone DEF TypeOK
        <3>2. db[i].save # s
            BY <1>3, <2>2, <3>1 DEF ViewsConserved
        <3> QED BY <1>5, <1>8, <1>9, <2>2, <3>1, <3>2 DEF ViewsConserved
    <2> QED BY <2>1, <2>2
<1>18. DeliveredWereTaken'
    BY <1>5, <1>8 DEF DeliveredWereTaken
<1>19. ViewsAnsweredOnce'
    <2>1. view \notin delivered[s]
        BY <1>2, <1>4 DEF DeliveredWereTaken
    <2>2. ASSUME NEW q \in Readers \ {r}, reader[q].pc = "committed", reader[q].cur.save = s
          PROVE  reader[q].view # view
        BY <1>4, <2>2 DEF ViewsAnsweredOnce
    <2>3. next.cur.save = s /\ s \in Saves
        BY <1>2, <1>6
    <2>4. \A q \in Readers : reader[q].pc = "committed" => reader[q].cur.save \in Saves
        BY NoRecordIsNone DEF ReadPhases
    <2> HIDE DEF s
    <2>5. ASSUME NEW q \in Readers, reader'[q].pc = "committed"
          PROVE  reader'[q].view \in taken'[reader'[q].cur.save] \ delivered'[reader'[q].cur.save]
        <3>1. CASE q = r
            BY <1>5, <1>6, <1>7, <1>8, <2>1, <2>3, <3>1
        <3>2. CASE q # r
            <4>1. /\ reader'[q] = reader[q] /\ reader[q].pc = "committed"
                  /\ reader[q].cur.save \in Saves
                BY <1>7, <2>4, <2>5, <3>2
            <4>2. reader[q].view \in taken[reader[q].cur.save] \ delivered[reader[q].cur.save]
                BY <4>1 DEF ViewsAnsweredOnce
            <4> QED BY <1>5, <1>8, <4>1, <4>2
        <3> QED BY <3>1, <3>2
    <2>6. ASSUME NEW q \in Readers, reader'[q].pc = "committed",
                 NEW p \in Readers \ {q}, reader'[p].pc = "committed",
                 reader'[p].cur.save = reader'[q].cur.save, reader'[p].view = reader'[q].view
          PROVE  FALSE
        <3>1. CASE q = r
            BY <1>6, <1>7, <2>2, <2>3, <2>6, <3>1
        <3>2. CASE p = r
            BY <1>6, <1>7, <2>2, <2>3, <2>6, <3>2
        <3>3. CASE q # r /\ p # r
            BY <1>7, <2>6, <3>3 DEF ViewsAnsweredOnce, Holds
        <3> QED BY <3>1, <3>2, <3>3
    <2> QED BY <2>5, <2>6 DEF ViewsAnsweredOnce, Holds
<1>20. LifetimeKept'
    <2>1. ASSUME NEW t \in Saves, save'[t].id # NoId, 0 \notin taken'[t], now' <= save'[t].deadline
          PROVE  db'[save'[t].id].save = t /\ save'[t].deadline <= db'[save'[t].id].deadline
        <3>1. /\ save'[t] = save[t] /\ save[t].id \in Ids
              /\ db[save[t].id].save = t /\ save[t].deadline <= db[save[t].id].deadline
            BY <1>5, <1>8, <2>1 DEF LifetimeKept, TypeOK, SaveRequests
        <3>2. CASE save[t].id # id
            BY <1>9, <3>1, <3>2
        <3>3. CASE save[t].id = id
            <4>1. t = s /\ save[t].deadline <= cur.deadline
                BY <1>1, <3>1, <3>3
            <4>2. new # NoRecord
                BY <1>8, <1>11, <2>1, <4>1
            <4>3. save[t].deadline \in Nat /\ new.deadline \in Nat
                BY <1>11, <4>2 DEF TypeOK, SaveRequests, Records
            <4> QED BY <1>2, <1>9, <1>11, <3>1, <3>3, <4>1, <4>2, <4>3
        <3> QED BY <3>2, <3>3
    <2>2. ASSUME NEW q \in Readers, reader'[q].pc = "set", q \notin dirty'
          PROVE  reader'[q].cur.deadline <= now' + reader'[q].ttl
        BY <1>5, <1>6, <1>7, <1>10, <2>2 DEF LifetimeKept
    <2> QED BY <2>1, <2>2 DEF LifetimeKept
<1> QED BY <1>12, <1>13, <1>14, <1>15, <1>16, <1>17, <1>18, <1>19, <1>20

LEMMA StepReadExecSet ==
    ASSUME IInv, NEW r \in Readers, ReadExecSet(r)
    PROVE  IInv'
<1> DEFINE new == [reader[r].cur EXCEPT !.views = reader[r].cur.views - 1,
                                        !.deadline = Expiry(reader[r].ttl)]
<1>1. /\ reader[r].pc = "set" /\ ExecAllowed(r)
      /\ db' = [db EXCEPT ![reader[r].id] = new] /\ TakeView(r, new.views)
    BY DEF ReadExecSet
<1>2. reader[r].pc \in {"set", "del"}
    BY <1>1
<1>3. reader[r].cur \in Records /\ reader[r].cur.views > 1
    BY <1>1 DEF IInv, ReadPhases
<1>4. reader[r].cur.deadline <= now + reader[r].ttl
    BY <1>1 DEF IInv, LifetimeKept, ExecAllowed
<1>5. /\ Expiry(reader[r].ttl) = now + reader[r].ttl
      /\ now + reader[r].ttl \in Nat /\ now + reader[r].ttl <= now + MaxDuration
    <2>1. reader[r] \in ReadRequests /\ now \in Nat /\ reader[r].ttl > 0
        BY <1>1 DEF IInv, TypeOK, ReadPhases
    <2>2. reader[r].ttl \in 0 .. MaxDuration
        BY <2>1 DEF ReadRequests
    <2> QED BY <2>1, <2>2, LimitsAssumption DEF Expiry
<1>6. new \in Records
    BY <1>3, <1>5, UpdatedType
<1>7. /\ new.views = reader[r].cur.views - 1
      /\ new.save = reader[r].cur.save /\ new.key = reader[r].cur.key
      /\ new.version = reader[r].cur.version /\ new.deadline = now + reader[r].ttl
    BY <1>3, <1>5 DEF Records
<1> HIDE DEF new
<1>8. /\ new \in Records /\ new.views = new.views
      /\ reader[r].cur.views > 1 /\ new.views = reader[r].cur.views - 1
      /\ new.save = reader[r].cur.save /\ new.key = reader[r].cur.key
      /\ new.version = reader[r].cur.version
      /\ reader[r].cur.deadline <= new.deadline /\ new.deadline <= now + MaxDuration
    BY <1>3, <1>4, <1>5, <1>6, <1>7
<1>9. new.views \in 0 .. MaxViews
    BY <1>6 DEF Records
<1> QED BY <1>1, <1>2, <1>6, <1>8, <1>9, Commit

LEMMA StepReadExecDel ==
    ASSUME IInv, NEW r \in Readers, ReadExecDel(r)
    PROVE  IInv'
<1>1. /\ reader[r].pc \in {"set", "del"} /\ ExecAllowed(r) /\ TakeView(r, 0)
      /\ db' = [db EXCEPT ![reader[r].id] = NoRecord]
    BY DEF ReadExecDel
<1>2. 0 \in 0 .. MaxViews
    BY LimitsAssumption
<1> QED BY <1>1, <1>2, Commit

(* The reply: the view the reader holds becomes one that was answered.     *)
LEMMA StepReadAnswer ==
    ASSUME IInv, NEW r \in Readers, ReadAnswer(r)
    PROVE  IInv'
<1> USE DEF IInv
<1> DEFINE s == reader[r].cur.save
           new == [NoRequest EXCEPT !.status = "ok"]
<1>1. /\ reader[r].pc = "committed" /\ reader' = [reader EXCEPT ![r] = new] /\ dirty' = dirty \ {r}
      /\ delivered' = [delivered EXCEPT ![s] = delivered[s] \cup {reader[r].view}]
      /\ UNCHANGED <<db, now, save, poll, taken>>
    BY DEF ReadAnswer, Answer
<1>2. /\ s \in Saves /\ reader[r].view \in taken[s]
      /\ \A q \in Readers : reader[q].pc = "committed" => reader[q].cur.save \in Saves
    BY <1>1, NoRecordIsNone DEF ReadPhases, ViewsAnsweredOnce
<1>3. new \in ReadRequests /\ new.pc = "idle"
    <2>1. new \in ReadRequests
        BY NoRequestType, ReadStatusType
    <2> QED BY <2>1 DEF NoRequest, ReadRequests
<1> HIDE DEF new
<1>4. reader'[r] = new /\ \A q \in Readers \ {r} : reader'[q] = reader[q]
    BY <1>1 DEF TypeOK
<1>5. /\ delivered'[s] = delivered[s] \cup {reader[r].view}
      /\ \A t \in Saves \ {s} : delivered'[t] = delivered[t]
    BY <1>1, <1>2 DEF TypeOK
<1>6. TypeOK'
    <2>1. reader' \in [Readers -> ReadRequests] /\ dirty' \subseteq Readers
        BY <1>1, <1>3 DEF TypeOK
    <2>2. reader[r].view \in 0 .. MaxViews
        BY DEF TypeOK, ReadRequests
    <2>3. delivered' \in [Saves -> SUBSET (0 .. MaxViews)]
        BY <1>1, <1>2, <2>2 DEF TypeOK
    <2> QED BY <1>1, <2>1, <2>3 DEF TypeOK, LifetimesBounded
<1>7. SavePhases' /\ KeysMatch' /\ ViewsConserved'
    BY <1>1 DEF SavePhases, KeysMatch, ViewsConserved
<1>8. ReadPhases' /\ SnapshotSound' /\ LifetimeKept'
    BY <1>1, <1>3, <1>4 DEF ReadPhases, SnapshotSound, LifetimeKept
<1>9. DeliveredWereTaken'
    BY <1>1, <1>2, <1>5 DEF DeliveredWereTaken
<1>10. ViewsAnsweredOnce'
    <2>1. ASSUME NEW q \in Readers, reader'[q].pc = "committed"
          PROVE  /\ reader'[q] = reader[q] /\ q # r /\ reader[q].cur.save \in Saves
                 /\ reader[q].view \in taken[reader[q].cur.save] \ delivered[reader[q].cur.save]
                 /\ reader[q].cur.save = s => reader[q].view # reader[r].view
        BY <1>1, <1>2, <1>3, <1>4, <2>1 DEF ViewsAnsweredOnce, Holds
    <2> HIDE DEF s
    <2>2. ASSUME NEW q \in Readers, reader'[q].pc = "committed"
          PROVE  reader'[q].view \in taken'[reader'[q].cur.save] \ delivered'[reader'[q].cur.save]
        BY <1>1, <1>5, <2>1, <2>2
    <2>3. ASSUME NEW q \in Readers, reader'[q].pc = "committed",
                 NEW p \in Readers \ {q}, reader'[p].pc = "committed",
                 reader'[p].cur.save = reader'[q].cur.save, reader'[p].view = reader'[q].view
          PROVE  FALSE
        BY <2>1, <2>3 DEF ViewsAnsweredOnce, Holds
    <2> QED BY <2>2, <2>3 DEF ViewsAnsweredOnce, Holds
<1> QED BY <1>6, <1>7, <1>8, <1>9, <1>10

(* Asking for the status of secrets changes nothing about them.            *)
LEMMA StepStatus ==
    ASSUME IInv, StatusRequest \/ StatusFailed \/ \E s \in Saves : StatusExists(s)
    PROVE  IInv'
<1> USE DEF IInv
<1>1. UNCHANGED <<db, now, save, reader, dirty, taken, delivered>>
    BY DEF StatusRequest, StatusFailed, StatusExists
<1>2. poll' \in [asked : SUBSET Saves, todo : SUBSET Saves, gone : SUBSET Saves]
    <2>1. CASE StatusRequest
        BY <2>1 DEF StatusRequest
    <2>2. CASE StatusFailed
        BY <2>2 DEF StatusFailed, NoPoll
    <2>3. ASSUME NEW s \in Saves, StatusExists(s)
          PROVE  poll' \in [asked : SUBSET Saves, todo : SUBSET Saves, gone : SUBSET Saves]
        BY <2>3 DEF StatusExists, TypeOK
    <2> QED BY <2>1, <2>2, <2>3
<1>3. TypeOK'
    BY <1>1, <1>2 DEF TypeOK, LifetimesBounded
<1> QED BY <1>1, <1>3 DEF SavePhases, KeysMatch, ReadPhases, SnapshotSound, ViewsConserved,
        ViewsAnsweredOnce, Holds, DeliveredWereTaken, LifetimeKept

(* A crash ends the requests in flight; the database stays.                *)
LEMMA StepServerCrash ==
    ASSUME IInv, ServerCrash
    PROVE  IInv'
<1> USE DEF IInv
<1>1. UNCHANGED <<db, now, taken, delivered>> /\ dirty' = {}
    BY DEF ServerCrash
<1>2. ASSUME NEW s \in Saves
      PROVE  /\ save'[s] \in SaveRequests
             /\ save'[s].id = save[s].id /\ save'[s].views = save[s].views
             /\ save'[s].deadline = save[s].deadline
             /\ \/ save'[s] = save[s] /\ save[s].pc \notin {"setnx", "stored"}
                \/ save'[s].pc = "error"
    <2>1. save[s] \in SaveRequests
        BY DEF TypeOK
    <2>2. [save[s] EXCEPT !.pc = "error"] \in SaveRequests
        BY <2>1 DEF SaveRequests
    <2>3. save'[s] = IF save[s].pc \in {"setnx", "stored"}
                     THEN [save[s] EXCEPT !.pc = "error"] ELSE save[s]
        BY DEF ServerCrash
    <2> QED BY <2>1, <2>2, <2>3 DEF SaveRequests
<1>3. ASSUME NEW r \in Readers
      PROVE  reader'[r] \in ReadRequests /\ reader'[r].pc = "idle"
    <2>1. [NoRequest EXCEPT !.status = "error"] \in ReadRequests
        BY NoRequestType, ReadStatusType
    <2>2. [NoRequest EXCEPT !.status = "error"].pc = "idle"
        BY DEF NoRequest
    <2>3. reader'[r] = IF reader[r].pc = "idle" THEN reader[r]
                       ELSE [NoRequest EXCEPT !.status = "error"]
        BY DEF ServerCrash
    <2>4. reader[r] \in ReadRequests
        BY DEF TypeOK
    <2> QED BY <2>1, <2>2, <2>3, <2>4
<1>4. TypeOK'
    <2>1. save' \in [Saves -> SaveRequests]
        BY <1>2 DEF ServerCrash
    <2>2. reader' \in [Readers -> ReadRequests]
        BY <1>3 DEF ServerCrash
    <2>3. poll' \in [asked : SUBSET Saves, todo : SUBSET Saves, gone : SUBSET Saves]
        BY DEF ServerCrash, NoPoll, TypeOK
    <2> QED BY <1>1, <2>1, <2>2, <2>3 DEF TypeOK, LifetimesBounded
<1>5. SavePhases'
    BY <1>1, <1>2 DEF SavePhases
<1>6. KeysMatch'
    BY <1>1, <1>2 DEF KeysMatch
<1>7. ReadPhases' /\ SnapshotSound' /\ ViewsAnsweredOnce' /\ DeliveredWereTaken'
    BY <1>1, <1>3 DEF ReadPhases, SnapshotSound, ViewsAnsweredOnce, DeliveredWereTaken
<1>8. ViewsConserved'
    <2>1. \A id \in Ids : db[id] # NoRecord => db[id].save \in Saves
        BY NoRecordIsNone DEF TypeOK
    <2> QED BY <1>1, <1>2, <2>1 DEF ViewsConserved
<1>9. LifetimeKept'
    BY <1>1, <1>2, <1>3 DEF LifetimeKept
<1> QED BY <1>4, <1>5, <1>6, <1>7, <1>8, <1>9

LEMMA StepTick ==
    ASSUME IInv, Tick
    PROVE  IInv'
<1> USE DEF IInv
<1>1. now \in Nat /\ now' = now + 1 /\ UNCHANGED <<db, save, reader, dirty, poll, taken, delivered>>
    BY DEF Tick, TypeOK
<1>2. TypeOK'
    <2>1. LifetimesBounded'
        <3>1. ASSUME NEW id \in Ids, db[id] # NoRecord
              PROVE  db[id].deadline <= now + 1 + MaxDuration
            <4>1. db[id].deadline \in Nat /\ db[id].deadline <= now + MaxDuration
                BY <3>1 DEF TypeOK, LifetimesBounded, Records
            <4> QED BY <1>1, <4>1, LimitsAssumption
        <3> QED BY <1>1, <3>1 DEF LifetimesBounded
    <2> QED BY <1>1, <2>1 DEF TypeOK
<1>3. LifetimeKept'
    <2>1. ASSUME NEW s \in Saves, save[s].id # NoId, 0 \notin taken[s], now' <= save[s].deadline
          PROVE  db[save[s].id].save = s /\ save[s].deadline <= db[save[s].id].deadline
        <3>1. now <= save[s].deadline
            BY <1>1, <2>1 DEF TypeOK, SaveRequests
        <3> QED BY <2>1, <3>1 DEF LifetimeKept
    <2>2. ASSUME NEW r \in Readers, reader[r].pc = "set", r \notin dirty
          PROVE  reader[r].cur.deadline <= now' + reader[r].ttl
        <3>1. reader[r].cur.deadline <= now + reader[r].ttl
            BY <2>2 DEF LifetimeKept
        <3>2. reader[r].cur.deadline \in Nat /\ reader[r].ttl \in Nat
            <4>1. reader[r] \in ReadRequests /\ reader[r].cur \in Records
                BY <2>2 DEF TypeOK, ReadPhases
            <4>2. reader[r].ttl \in 0 .. MaxDuration
                BY <4>1 DEF ReadRequests
            <4> QED BY <4>1, <4>2, LifetimeIsNat DEF Records
        <3> QED BY <1>1, <3>1, <3>2
    <2> QED BY <1>1, <2>1, <2>2 DEF LifetimeKept
<1> QED BY <1>1, <1>2, <1>3 DEF SavePhases, KeysMatch, ReadPhases, SnapshotSound, ViewsConserved,
        ViewsAnsweredOnce, Holds, DeliveredWereTaken
-------------------------------------------------------------------------------
(* The invariant, for every instance of the module.                        *)
LEMMA StepInv == IInv /\ [Next]_vars => IInv'
<1> SUFFICES ASSUME IInv, [Next]_vars PROVE IInv'
    OBVIOUS
<1>1. CASE UNCHANGED vars
    BY <1>1 DEF vars, IInv, TypeOK, LifetimesBounded, SavePhases, KeysMatch, ReadPhases, SnapshotSound,
       ViewsConserved, ViewsAnsweredOnce, Holds, DeliveredWereTaken, LifetimeKept
<1>2. CASE Next
    BY <1>2, NextCases, StepSaveRequest, StepSaveAnswer, StepSaveFailed, StepSaveSetNX,
       StepSaveCollision, StepReadRequest, StepReadWatch, StepReadGet, StepReadPTTL,
       StepReadExecSet, StepReadExecDel, StepReadRefused, StepReadAnswer, StepReadFailed,
       StepStatus, StepServerCrash, StepTick
<1> QED BY <1>1, <1>2

(* IInv holds in every reachable state of the store.                       *)
THEOREM StoreInvariant == Spec => []IInv
<1>1. Init => IInv
    BY InitInv
<1>2. IInv /\ [Next]_vars => IInv'
    BY StepInv
<1> QED BY <1>1, <1>2, PTL DEF Spec

(* Every variable keeps its type: no request makes the server store a view *)
(* count above MaxViews, a lifetime above MaxDuration or, by a read that   *)
(* writes back what is left, a record without an expiry.                   *)
THEOREM TypesHold == Spec => []TypeOK
BY StoreInvariant, PTL DEF IInv

(* Committed reads and stored views always add up to the views of the save *)
(* (ViewsConserved), for any number of concurrent readers and savers.      *)
THEOREM ViewsAreConserved == Spec => []ViewsConserved
BY StoreInvariant, PTL DEF IInv

(* No view of a secret is ever held by two reads or answered twice.        *)
THEOREM EachViewAnsweredOnce == Spec => []ViewsAnsweredOnce
BY StoreInvariant, PTL DEF IInv

(* Only the holder of the token of a link reads its secret.                *)
THEOREM ReadOnlyByTokenHolder == Spec => []ReadByTokenHolder
<1>1. IInv => ReadByTokenHolder
    BY DEF IInv, ReadPhases, ReadByTokenHolder
<1> QED BY <1>1, StoreInvariant, PTL

(* A link that was handed out stays readable until its last view is taken  *)
(* or its own deadline has passed.                                         *)
THEOREM LinkStaysReadable == Spec => []AcknowledgedStaysReadable
<1>1. IInv => AcknowledgedStaysReadable
    <2> SUFFICES ASSUME IInv, NEW s \in Saves, save[s].pc = "ok", 0 \notin taken[s],
                        now <= save[s].deadline
                 PROVE  Live(save[s].id) /\ db[save[s].id].save = s
        BY DEF AcknowledgedStaysReadable
    <2>1. save[s].id \in Ids /\ save[s].id # NoId
        BY NoIdAssumption DEF IInv, SavePhases
    <2>2. /\ db[save[s].id].save = s
          /\ save[s].deadline <= db[save[s].id].deadline
        BY <2>1 DEF IInv, LifetimeKept
    <2>3. db[save[s].id] # NoRecord
        BY <2>2, NoSaveAssumption DEF NoRecord
    <2>4. now \in Nat /\ save[s].deadline \in Nat /\ db[save[s].id].deadline \in Nat
        BY <2>1, <2>3 DEF IInv, TypeOK, SaveRequests, Records
    <2> QED BY <2>2, <2>3, <2>4 DEF Live
<1> QED BY <1>1, StoreInvariant, PTL
------------------------------------------------------------------------------
(* What a reader has taken, by its phase.                                  *)
TookOnce ==
    \A r \in Readers : reader[r].took = IF reader[r].pc = "committed" THEN 1 ELSE 0

(* A reader's answer, which changes nothing but the reader.                *)
LEMMA AnsweredFields ==
    ASSUME TypeOK, NEW r \in Readers, NEW status, Answer(r, status)
    PROVE  /\ reader'[r].pc = "idle" /\ reader'[r].took = 0 /\ reader'[r].status = status
           /\ \A q \in Readers \ {r} : reader'[q] = reader[q]
<1>1. reader' = [reader EXCEPT ![r] = [NoRequest EXCEPT !.status = status]]
    BY DEF Answer
<1>2. reader'[r] = [NoRequest EXCEPT !.status = status]
    BY <1>1 DEF TypeOK
<1> QED BY <1>1, <1>2 DEF TypeOK, NoRequest

(* Which updates of a request touch the count of views it took.            *)
LEMMA TookKept ==
    ASSUME NEW q \in ReadRequests, NEW pc
    PROVE  /\ [q EXCEPT !.pc = pc].took = q.took /\ [q EXCEPT !.pc = pc].pc = pc
           /\ \A ttl : LET new == [q EXCEPT !.ttl = ttl, !.pc = pc]
                        IN  new.took = q.took /\ new.pc = pc
           /\ \A cur : LET new == [q EXCEPT !.cur = cur, !.pc = pc]
                        IN  new.took = q.took /\ new.pc = pc
           /\ \A cur, ttl : LET new == [q EXCEPT !.pc = pc, !.cur = cur, !.ttl = ttl]
                             IN  new.took = q.took /\ new.pc = pc
           /\ \A view, took : LET new == [q EXCEPT !.pc = pc, !.view = view, !.took = took]
                              IN  new.took = took /\ new.pc = pc
BY DEF ReadRequests

(* What one step does to a reader: it takes a view by committing and in no *)
(* other way, holds it until it is idle again, and then says "ok" or       *)
(* "error".                                                                *)
LEMMA ReaderSteps ==
    ASSUME IInv, TookOnce, Next, NEW r \in Readers
    PROVE  /\ reader'[r].took = IF reader'[r].pc = "committed" THEN 1 ELSE 0
           /\ reader[r].pc = "committed" /\ reader'[r].pc = "idle"
                 => reader'[r].status \in {"ok", "error"}
           /\ \/ reader'[r] = reader[r]
              \/ reader[r].pc # "committed" /\ reader'[r].pc # "committed"
              \/ ReadExecSet(r) \/ ReadExecDel(r)
              \/ reader'[r].pc = "idle"
<1> USE DEF TookOnce
<1> DEFINE Goal == /\ reader'[r].took = IF reader'[r].pc = "committed" THEN 1 ELSE 0
                   /\ reader[r].pc = "committed" /\ reader'[r].pc = "idle"
                         => reader'[r].status \in {"ok", "error"}
                   /\ \/ reader'[r] = reader[r]
                      \/ reader[r].pc # "committed" /\ reader'[r].pc # "committed"
                      \/ ReadExecSet(r) \/ ReadExecDel(r)
                      \/ reader'[r].pc = "idle"
<1>1. TypeOK /\ reader \in [Readers -> ReadRequests]
    BY DEF IInv, TypeOK
<1>2. CASE reader'[r] = reader[r]
    BY <1>2
<1>3. ASSUME NEW q \in Readers,
             \/ ReadRequest(q) \/ ReadWatch(q) \/ ReadGet(q) \/ ReadPTTL(q)
             \/ ReadExecSet(q) \/ ReadExecDel(q) \/ ReadRefused(q)
             \/ ReadAnswer(q) \/ ReadFailed(q)
      PROVE  Goal
    <2>1. CASE q # r
        <3>1. reader'[r] = reader[r]
            BY <1>1, <1>3, <2>1 DEF ReadRequest, ReadWatch, ReadGet, ReadPTTL, ReadExecSet,
               ReadExecDel, ReadRefused, ReadAnswer, ReadFailed, Answer, TakeView
        <3> QED BY <1>2, <3>1
    <2>2. CASE q = r /\ ReadRequest(q)
        <3>1. PICK id \in Ids \cup {NoId}, key \in PresentedKeys :
                 reader'[r] =
                     IF id = NoId
                     THEN [NoRequest EXCEPT !.status = "no message"]
                     ELSE IF ~IsValidHashedKey(key)
                     THEN [NoRequest EXCEPT !.status = "wrong key"]
                     ELSE [NoRequest EXCEPT !.pc = "watch", !.id = id, !.key = key, !.start = now]
            BY <1>1, <2>2 DEF ReadRequest
        <3>2. reader[r].pc = "idle"
            BY <2>2 DEF ReadRequest
        <3>3. reader'[r].took = 0 /\ reader'[r].pc \in {"idle", "watch"}
            BY <3>1 DEF NoRequest
        <3> QED BY <3>2, <3>3
    <2>3. CASE q = r /\ (ReadWatch(q) \/ ReadPTTL(q))
        <3>1. CASE ReadWatch(r)
            <4>1. reader'[r] = [reader[r] EXCEPT !.pc = "get"] /\ reader[r].pc = "watch"
                BY <1>1, <3>1 DEF ReadWatch
            <4>2. reader'[r].took = reader[r].took /\ reader'[r].pc = "get"
                BY <1>1, <4>1, TookKept
            <4> QED BY <4>1, <4>2
        <3>2. CASE ReadPTTL(r)
            <4> DEFINE rest == IF Live(reader[r].id) THEN db[reader[r].id].deadline - now ELSE -2
                       ttl == IF rest > 0 THEN rest ELSE 0
                       pc == IF rest > 0 THEN "set" ELSE "del"
            <4>1. reader' = [reader EXCEPT ![r].ttl = ttl, ![r].pc = pc] /\ reader[r].pc = "pttl"
                BY <3>2 DEF ReadPTTL
            <4>2. pc \in {"set", "del"}
                OBVIOUS
            <4> HIDE DEF ttl, pc
            <4>3. reader'[r] = [reader[r] EXCEPT !.ttl = ttl, !.pc = pc]
                BY <1>1, <4>1
            <4>4. reader'[r].took = reader[r].took /\ reader'[r].pc = pc
                BY <1>1, <4>3, TookKept
            <4> QED BY <4>1, <4>2, <4>4
        <3> QED BY <2>3, <3>1, <3>2
    <2>4. CASE q = r /\ ReadGet(q)
        <3>1. CASE Answer(r, "no message") \/ Answer(r, "wrong key")
            BY <1>1, <2>4, <3>1, AnsweredFields DEF ReadGet
        <3>2. CASE reader' = [reader EXCEPT ![r].cur = db[reader[r].id],
                                  ![r].pc = IF db[reader[r].id].views > 1 THEN "pttl" ELSE "del"]
            <4> DEFINE pc == IF db[reader[r].id].views > 1 THEN "pttl" ELSE "del"
            <4>1. reader'[r] = [reader[r] EXCEPT !.cur = db[reader[r].id], !.pc = pc]
                BY <1>1, <3>2
            <4>2. pc \in {"pttl", "del"}
                OBVIOUS
            <4> HIDE DEF pc
            <4>3. reader'[r].took = reader[r].took /\ reader'[r].pc = pc
                BY <1>1, <4>1, TookKept
            <4>4. reader[r].pc = "get"
                BY <2>4 DEF ReadGet
            <4> QED BY <4>2, <4>3, <4>4
        <3> QED BY <2>4, <3>1, <3>2 DEF ReadGet
    <2>5. CASE q = r /\ (ReadExecSet(q) \/ ReadExecDel(q))
        <3>1. PICK view : reader' = [reader EXCEPT ![r].pc = "committed", ![r].view = view,
                                                   ![r].took = @ + 1]
            BY <2>5 DEF ReadExecSet, ReadExecDel, TakeView
        <3>2. reader[r].pc \in {"set", "del"} /\ reader[r].took = 0
            BY <2>5 DEF ReadExecSet, ReadExecDel
        <3>3. reader'[r] = [reader[r] EXCEPT !.pc = "committed", !.view = view, !.took = 1]
            BY <1>1, <3>1, <3>2
        <3>4. reader'[r].took = 1 /\ reader'[r].pc = "committed"
            BY <1>1, <3>3, TookKept
        <3> QED BY <2>5, <3>2, <3>4
    <2>6. CASE q = r /\ ReadRefused(q)
        <3>1. CASE Answer(r, "retry")
            BY <1>1, <2>6, <3>1, AnsweredFields DEF ReadRefused
        <3>2. CASE reader' = [reader EXCEPT ![r].pc = "watch", ![r].cur = NoRecord, ![r].ttl = 0]
            <4>1. reader'[r] = [reader[r] EXCEPT !.pc = "watch", !.cur = NoRecord, !.ttl = 0]
                BY <1>1, <3>2
            <4>2. reader'[r].took = reader[r].took /\ reader'[r].pc = "watch"
                BY <1>1, <4>1, TookKept
            <4>3. reader[r].pc \in {"set", "del"}
                BY <2>6 DEF ReadRefused
            <4> QED BY <4>2, <4>3
        <3> QED BY <2>6, <3>1, <3>2 DEF ReadRefused
    <2>7. CASE q = r /\ (ReadAnswer(q) \/ ReadFailed(q))
        <3>1. Answer(r, "ok") \/ Answer(r, "error")
            BY <2>7 DEF ReadAnswer, ReadFailed
        <3> QED BY <1>1, <3>1, AnsweredFields
    <2> QED BY <1>3, <2>1, <2>2, <2>3, <2>4, <2>5, <2>6, <2>7
<1>4. CASE ServerCrash
    <2>1. reader'[r] = IF reader[r].pc = "idle" THEN reader[r]
                       ELSE [NoRequest EXCEPT !.status = "error"]
        BY <1>4 DEF ServerCrash
    <2> QED BY <2>1 DEF NoRequest
<1>5. CASE \/ \E s \in Saves : \/ SaveRequest(s) \/ SaveAnswer(s) \/ SaveFailed(s)
                               \/ \E id \in Ids : SaveSetNX(s, id) \/ SaveCollision(s, id)
           \/ StatusRequest \/ StatusFailed \/ (\E s \in Saves : StatusExists(s))
           \/ Tick
    <2>1. reader' = reader
        BY <1>5 DEF SaveRequest, SaveAnswer, SaveFailed, SaveSetNX, SaveCollision,
           StatusRequest, StatusFailed, StatusExists, Tick
    <2> QED BY <1>2, <2>1
<1> QED BY <1>3, <1>4, <1>5, NextCases

(* An answer that invites a retry, or says that there is nothing to read,  *)
(* was never preceded by a view the same request took; and no request      *)
(* takes two.                                                              *)
THEOREM AnswersAreTrue == Spec => AnswersTellTheTruth
<1> DEFINE Inv == IInv /\ TookOnce
           Says == \A r \in Readers :
                    /\ reader'[r].took <= 1
                    /\ reader[r].pc # "idle" /\ reader'[r].pc = "idle"
                       /\ reader'[r].status \in {"retry", "no message", "wrong key"}
                          => reader[r].took = 0
<1>1. Init => Inv
    <2>1. Init => TookOnce
        BY DEF Init, TookOnce, NoRequest
    <2> QED BY <2>1, InitInv
<1>2. Inv /\ [Next]_vars => Inv'
    <2>1. Inv /\ Next => TookOnce'
        BY ReaderSteps DEF TookOnce
    <2>2. Inv /\ UNCHANGED vars => TookOnce'
        BY DEF TookOnce, vars
    <2> QED BY <2>1, <2>2, StepInv
<1>3. Inv /\ [Next]_vars => [Says]_vars
    <2> SUFFICES ASSUME Inv, Next, NEW r \in Readers
                 PROVE  /\ reader'[r].took <= 1
                        /\ reader[r].pc # "idle" /\ reader'[r].pc = "idle"
                           /\ reader'[r].status \in {"retry", "no message", "wrong key"}
                              => reader[r].took = 0
        OBVIOUS
    <2>1. reader'[r].took <= 1
        BY ReaderSteps
    <2>2. reader[r].pc = "committed" \/ reader[r].took = 0
        BY DEF TookOnce
    <2> QED BY <2>1, <2>2, ReaderSteps
<1>4. AnswersTellTheTruth <=> [][Says]_vars
    BY DEF AnswersTellTheTruth
<1> HIDE DEF Inv, Says
<1> QED BY <1>1, <1>2, <1>3, <1>4, PTL DEF Spec
-------------------------------------------------------------------------------
(* The steps that leave the records alone, and the ids of the saves.       *)
Elsewhere ==
    \/ \E s \in Saves : \/ SaveRequest(s) \/ SaveAnswer(s) \/ SaveFailed(s)
                        \/ \E id \in Ids : SaveCollision(s, id)
    \/ \E r \in Readers :
          \/ ReadRequest(r) \/ ReadWatch(r) \/ ReadGet(r) \/ ReadPTTL(r)
          \/ ReadRefused(r) \/ ReadAnswer(r) \/ ReadFailed(r)
    \/ StatusRequest \/ StatusFailed \/ \E s \in Saves : StatusExists(s)
    \/ ServerCrash

(* They do.                                                                *)
LEMMA RecordsLeftAlone ==
    ASSUME IInv, Elsewhere
    PROVE  UNCHANGED <<db, now>> /\ \A s \in Saves : save'[s].id = save[s].id
<1>1. UNCHANGED <<db, now>>
    BY DEF Elsewhere, SaveRequest, SaveAnswer, SaveFailed, SaveCollision, ReadRequest,
       ReadWatch, ReadGet, ReadPTTL, ReadRefused, ReadAnswer, ReadFailed, StatusRequest,
       StatusFailed, StatusExists, ServerCrash
<1>2. save \in [Saves -> SaveRequests]
    BY DEF IInv, TypeOK
<1>3. ASSUME NEW s \in Saves
      PROVE  save'[s].id = save[s].id
    <2>1. save[s] \in SaveRequests
        BY <1>2
    <2>2. ASSUME NEW t \in Saves, SaveRequest(t)
          PROVE  save'[s].id = save[s].id
        <3>1. CASE s # t
            BY <1>2, <2>2, <3>1 DEF SaveRequest
        <3>2. CASE s = t
            <4>1. save[s].id = NoId
                BY <2>2, <3>2 DEF SaveRequest, IInv, SavePhases
            <4>2. PICK form \in SaveForms(s), views \in RequestViews, duration \in RequestDurations,
                     empty \in BOOLEAN :
                     save' = [save EXCEPT ![s] =
                         IF ~empty /\ SchemeAccepted(form)
                         THEN [NewSave EXCEPT !.pc = "setnx", !.key = SchemeStored(form),
                                              !.version = form.v, !.views = ClampViews(views),
                                              !.duration = ClampDuration(duration)]
                         ELSE [NewSave EXCEPT !.pc = "error"]]
                BY <2>2, <3>2 DEF SaveRequest
            <4>3. CASE ~empty /\ SchemeAccepted(form)
                <5>1. save'[s] = [NewSave EXCEPT !.pc = "setnx", !.key = SchemeStored(form),
                                                 !.version = form.v, !.views = ClampViews(views),
                                                 !.duration = ClampDuration(duration)]
                    BY <1>2, <4>2, <4>3
                <5> QED BY <4>1, <5>1 DEF NewSave
            <4>4. CASE empty \/ ~ SchemeAccepted(form)
                <5>1. save'[s] = [NewSave EXCEPT !.pc = "error"]
                    BY <1>2, <4>2, <4>4
                <5> QED BY <4>1, <5>1 DEF NewSave
            <4> QED BY <4>3, <4>4
        <3> QED BY <3>1, <3>2
    <2>3. ASSUME NEW t \in Saves, NEW id \in Ids, SaveCollision(t, id)
          PROVE  save'[s].id = save[s].id
        <3>1. PICK n, pc : save' = [save EXCEPT ![t].attempts = n, ![t].pc = pc]
            BY <2>3 DEF SaveCollision
        <3>2. save'[s] = save[s] \/ save'[s] = [save[s] EXCEPT !.attempts = n, !.pc = pc]
            BY <1>2, <3>1
        <3> QED BY <2>1, <3>2 DEF SaveRequests
    <2>4. ASSUME NEW t \in Saves, SaveAnswer(t) \/ SaveFailed(t)
          PROVE  save'[s].id = save[s].id
        <3>1. PICK pc : save' = [save EXCEPT ![t].pc = pc]
            BY <2>4 DEF SaveAnswer, SaveFailed
        <3>2. save'[s] = save[s] \/ save'[s] = [save[s] EXCEPT !.pc = pc]
            BY <1>2, <3>1
        <3> QED BY <2>1, <3>2 DEF SaveRequests
    <2>5. CASE ServerCrash
        <3>1. save'[s] = save[s] \/ save'[s] = [save[s] EXCEPT !.pc = "error"]
            BY <2>5 DEF ServerCrash
        <3> QED BY <2>1, <3>1 DEF SaveRequests
    <2>6. CASE \/ \E r \in Readers :
                     \/ ReadRequest(r) \/ ReadWatch(r) \/ ReadGet(r) \/ ReadPTTL(r)
                     \/ ReadRefused(r) \/ ReadAnswer(r) \/ ReadFailed(r)
               \/ StatusRequest \/ StatusFailed \/ \E t \in Saves : StatusExists(t)
        BY <2>6 DEF ReadRequest, ReadWatch, ReadGet, ReadPTTL, ReadRefused, ReadAnswer,
           ReadFailed, StatusRequest, StatusFailed, StatusExists
    <2> QED BY <2>2, <2>3, <2>4, <2>5, <2>6 DEF Elsewhere
<1> QED BY <1>1, <1>3

(* An id given to a save stays its id, and a step brings no record to life *)
(* but that of a save that had none: a key that can be read after the step *)
(* could be read before it and held the same secret.                       *)
LEMMA RecordSteps ==
    ASSUME IInv, Next
    PROVE  /\ \A s \in Saves : save[s].id # NoId => save'[s].id = save[s].id
           /\ \A id \in Ids : Live(id)' =>
                 \/ Live(id) /\ db'[id].save = db[id].save
                 \/ db'[id].save \in Saves /\ save[db'[id].save].id = NoId
<1>1. /\ save \in [Saves -> SaveRequests] /\ db \in [Ids -> Records \cup {NoRecord}]
      /\ now \in Nat
    BY DEF IInv, TypeOK
<1>2. CASE Elsewhere
    BY <1>2, RecordsLeftAlone DEF Live
<1>3. ASSUME NEW s \in Saves, NEW id \in Ids, SaveSetNX(s, id)
      PROVE  /\ \A t \in Saves : save[t].id # NoId => save'[t].id = save[t].id
             /\ \A i \in Ids : Live(i)' =>
                   \/ Live(i) /\ db'[i].save = db[i].save
                   \/ db'[i].save \in Saves /\ save[db'[i].save].id = NoId
    <2>1. save[s].id = NoId /\ now' = now
        BY <1>3 DEF SaveSetNX, IInv, SavePhases
    <2>2. \A t \in Saves \ {s} : save'[t] = save[t]
        BY <1>1, <1>3 DEF SaveSetNX
    <2>3. db'[id].save = s /\ \A i \in Ids \ {id} : db'[i] = db[i]
        BY <1>1, <1>3 DEF SaveSetNX
    <2> QED BY <2>1, <2>2, <2>3 DEF Live
<1>4. ASSUME NEW r \in Readers, ReadExecSet(r) \/ ReadExecDel(r)
      PROVE  /\ UNCHANGED <<save, now>>
             /\ \A i \in Ids : Live(i)' => Live(i) /\ db'[i].save = db[i].save
    <2>1. UNCHANGED <<save, now>> /\ reader[r].pc \in {"set", "del"} /\ ExecAllowed(r)
        BY <1>4 DEF ReadExecSet, ReadExecDel, TakeView
    <2>2. PICK id \in Ids : id = reader[r].id
        BY <2>1 DEF IInv, ReadPhases
    <2>3. db[id] = reader[r].cur /\ reader[r].cur \in Records /\ Live(id)
        BY <2>1, <2>2 DEF IInv, ReadPhases, SnapshotSound, ExecAllowed
    <2>4. \A i \in Ids \ {id} : db'[i] = db[i]
        BY <1>1, <1>4, <2>2 DEF ReadExecSet, ReadExecDel
    <2>5. db'[id] = NoRecord \/ db'[id].save = db[id].save
        <3>1. CASE ReadExecDel(r)
            BY <1>1, <2>2, <3>1 DEF ReadExecDel
        <3>2. CASE ReadExecSet(r)
            <4>1. db'[id] = [db[id] EXCEPT !.views = db[id].views - 1,
                                           !.deadline = Expiry(reader[r].ttl)]
                BY <1>1, <2>2, <2>3, <3>2 DEF ReadExecSet
            <4> QED BY <2>3, <4>1 DEF Records
        <3> QED BY <1>4, <3>1, <3>2
    <2>6. Live(id)' => db'[id].save = db[id].save
        BY <2>5 DEF Live
    <2>7. \A i \in Ids \ {id} : Live(i)' => Live(i) /\ db'[i].save = db[i].save
        BY <2>1, <2>4 DEF Live
    <2> QED BY <2>1, <2>3, <2>6, <2>7
<1>5. CASE Tick
    <2>1. \A id \in Ids : db[id] # NoRecord => db[id].deadline \in Nat
        BY <1>1 DEF Records
    <2> QED BY <1>1, <1>5, <2>1 DEF Tick, Live
<1> QED BY <1>2, <1>3, <1>4, <1>5, NextCases DEF Elsewhere

(* What an answer of secretStatus is made from: secrets that had been      *)
(* stored when they were asked for, and are past reading.                  *)
PollSound ==
    /\ poll.gone \subseteq poll.asked /\ poll.todo \subseteq poll.asked
    /\ \A s \in poll.asked : save[s].id \in Ids
    /\ GoneIsFinal

LEMMA PollStep ==
    ASSUME IInv, PollSound, Next
    PROVE  PollSound'
<1>1. /\ save \in [Saves -> SaveRequests]
      /\ poll \in [asked : SUBSET Saves, todo : SUBSET Saves, gone : SUBSET Saves]
    BY DEF IInv, TypeOK
<1>2. \A s \in Saves : save[s].id \in Ids => save[s].id # NoId
    BY NoIdAssumption
<1>3. \A s \in poll.asked : save'[s].id = save[s].id /\ save[s].id \in Ids
    BY <1>1, <1>2, RecordSteps DEF PollSound
<1>4. ASSUME NEW s \in poll.gone, NEW id \in Ids, db'[id].save = s
      PROVE  ~ Live(id)'
    <2>1. s \in Saves /\ save[s].id # NoId
        BY <1>1, <1>2 DEF PollSound
    <2>2. SUFFICES ASSUME Live(id)' PROVE FALSE
        OBVIOUS
    <2>3. Live(id) /\ db[id].save = s
        BY <1>4, <2>1, <2>2, RecordSteps
    <2> QED BY <2>3 DEF PollSound, GoneIsFinal
<1>5. CASE UNCHANGED poll
    BY <1>3, <1>4, <1>5 DEF PollSound, GoneIsFinal
<1>6. CASE StatusRequest
    <2>1. PICK asked \in SUBSET {s \in Saves : save[s].pc = "ok"} :
             poll' = [asked |-> asked, todo |-> asked, gone |-> {}]
        BY <1>6 DEF StatusRequest
    <2>2. UNCHANGED save /\ \A s \in asked : save[s].id \in Ids
        BY <1>6 DEF StatusRequest, IInv, SavePhases
    <2> QED BY <2>1, <2>2 DEF PollSound, GoneIsFinal
<1>7. ASSUME NEW s \in Saves, StatusExists(s)
      PROVE  PollSound'
    <2>1. s \in poll.todo /\ UNCHANGED <<db, now, save>>
        BY <1>7 DEF StatusExists
    <2>2. /\ poll'.asked = poll.asked /\ poll'.todo = poll.todo \ {s}
          /\ poll'.gone = IF Live(save[s].id) THEN poll.gone ELSE poll.gone \cup {s}
        BY <1>1, <1>7 DEF StatusExists
    <2>3. ASSUME ~ Live(save[s].id), NEW id \in Ids, db[id].save = s
          PROVE  ~ Live(id)
        <3>1. CASE db[id] = NoRecord
            BY <3>1 DEF Live
        <3>2. CASE db[id] # NoRecord
            BY <2>3, <3>2 DEF IInv, ViewsConserved
        <3> QED BY <3>1, <3>2
    <2>4. poll'.gone \subseteq poll'.asked /\ poll'.todo \subseteq poll'.asked
        BY <2>1, <2>2 DEF PollSound
    <2>5. \A t \in poll'.asked : save'[t].id \in Ids
        BY <2>2, <1>3
    <2>6. GoneIsFinal'
        <3> SUFFICES ASSUME NEW t \in poll'.gone, NEW id \in Ids, db'[id].save = t
                     PROVE  ~ Live(id)'
            BY DEF GoneIsFinal
        <3>1. CASE t \in poll.gone
            BY <1>4, <3>1
        <3>2. CASE t = s /\ ~ Live(save[s].id)
            BY <2>1, <2>3, <3>2 DEF Live
        <3> QED BY <2>2, <3>1, <3>2
    <2> QED BY <2>4, <2>5, <2>6 DEF PollSound
<1>8. CASE StatusFailed \/ ServerCrash
    <2>1. poll' = NoPoll \/ UNCHANGED poll
        BY <1>8 DEF StatusFailed, ServerCrash
    <2>2. CASE poll' = NoPoll
        BY <2>2 DEF NoPoll, PollSound, GoneIsFinal
    <2> QED BY <1>5, <2>1, <2>2
<1>9. CASE \/ \E s \in Saves : \/ SaveRequest(s) \/ SaveAnswer(s) \/ SaveFailed(s)
                               \/ \E id \in Ids : SaveSetNX(s, id) \/ SaveCollision(s, id)
           \/ \E r \in Readers :
                 \/ ReadRequest(r) \/ ReadWatch(r) \/ ReadGet(r) \/ ReadPTTL(r)
                 \/ ReadExecSet(r) \/ ReadExecDel(r) \/ ReadRefused(r)
                 \/ ReadAnswer(r) \/ ReadFailed(r)
           \/ Tick
    BY <1>5, <1>9 DEF SaveRequest, SaveAnswer, SaveFailed, SaveSetNX, SaveCollision, ReadRequest,
       ReadWatch, ReadGet, ReadPTTL, ReadExecSet, ReadExecDel, TakeView, ReadRefused, ReadAnswer,
       ReadFailed, Tick
<1> QED BY <1>6, <1>7, <1>8, <1>9, NextCases

(* A secret reported gone is never readable again, whatever was saved,     *)
(* read or lost since the report.                                          *)
THEOREM GoneIsForGood == Spec => []GoneIsFinal
<1> DEFINE Inv == IInv /\ PollSound
<1>1. Init => Inv
    <2>1. Init => PollSound
        BY DEF Init, NoPoll, PollSound, GoneIsFinal
    <2> QED BY <2>1, InitInv
<1>2. Inv /\ [Next]_vars => Inv'
    <2>1. Inv /\ UNCHANGED vars => PollSound'
        BY DEF PollSound, GoneIsFinal, Live, vars
    <2> QED BY <2>1, PollStep, StepInv
<1>3. Inv => GoneIsFinal
    BY DEF PollSound
<1> HIDE DEF Inv
<1> QED BY <1>1, <1>2, <1>3, PTL DEF Spec
-------------------------------------------------------------------------------
(* The state of the promise that a state of the store stands for.          *)
Readable(s) == save[s].id \in Ids /\ Live(save[s].id) /\ db[save[s].id].save = s

Left == [s \in Saves |-> IF Readable(s) THEN ViewsOf(db[save[s].id].views) ELSE 0]

Created == {s \in Saves : save[s].id # NoId}

Held(q) ==
    IF q.pc = "committed" THEN [secret |-> q.cur.save, view |-> q.view]
    ELSE [secret |-> NoSave, view |-> 0]

Holding == [r \in Readers |-> Held(reader[r])]

(* The refinement mapping of the store is made of these.                   *)
LEMMA MappedInit ==
    ASSUME Left = [s \in Saves |-> 0], Created = {}, delivered = [s \in Saves |-> {}],
           Holding = [r \in Readers |-> [secret |-> NoSave, view |-> 0]]
    PROVE  Abstract!Init
BY DEF Abstract!Init, Abstract!NoView, Left, Created, Holding, Held, Readable, RecordOf, NoSave

LEMMA MappedStutter ==
    ASSUME UNCHANGED <<Left, Created, Holding, delivered>>
    PROVE  UNCHANGED Abstract!vars
BY DEF Abstract!vars, Left, Created, Holding, Held, Readable, RecordOf

LEMMA MappedCreate ==
    ASSUME NEW s \in Saves, NEW n \in 1 .. MaxViews, s \notin Created,
           Left' = [Left EXCEPT ![s] = n], Created' = Created \cup {s},
           UNCHANGED <<Holding, delivered>>
    PROVE  Abstract!Next
BY DEF Abstract!Next, Abstract!Create, Left, Created, Holding, Held, Readable, RecordOf

LEMMA MappedTake ==
    ASSUME NEW r \in Readers, NEW s \in Saves, NEW v, v = Left[s] - 1 \/ v = 0,
           Left[s] > 0, Holding[r] = [secret |-> NoSave, view |-> 0],
           Left' = [Left EXCEPT ![s] = v],
           Holding' = [Holding EXCEPT ![r] = [secret |-> s, view |-> v]],
           UNCHANGED <<Created, delivered>>
    PROVE  Abstract!Next
<1>1. Abstract!Take(r, s)
    BY ZenonT(60) DEF Abstract!Take, Abstract!NoView, Abstract!View, Left, Created, Holding, Held, Readable,
       RecordOf, NoSave
<1> QED BY <1>1 DEF Abstract!Next

LEMMA MappedDeliver ==
    ASSUME NEW r \in Readers, NEW s \in Saves, NEW v,
           Holding[r] = [secret |-> s, view |-> v], v \notin delivered[s],
           delivered' = [delivered EXCEPT ![s] = @ \cup {v}],
           Holding' = [Holding EXCEPT ![r] = [secret |-> NoSave, view |-> 0]],
           UNCHANGED <<Left, Created>>
    PROVE  Abstract!Next
<1>1. Abstract!Deliver(r, s)
    BY NoSaveAssumption DEF Abstract!Deliver, Abstract!NoView, Abstract!View, Left, Created, Holding, Held, Readable,
       RecordOf, NoSave
<1> QED BY <1>1 DEF Abstract!Next

LEMMA MappedLose ==
    ASSUME NEW failed \in SUBSET Readers,
           Holding' = [r \in Readers |-> IF r \in failed THEN [secret |-> NoSave, view |-> 0]
                                         ELSE Holding[r]],
           UNCHANGED <<Left, Created, delivered>>
    PROVE  Abstract!Next
<1>1. Abstract!Lose
    BY DEF Abstract!Lose, Abstract!NoView, Abstract!View, Left, Created, Holding, Held, Readable,
       RecordOf, NoSave
<1> QED BY <1>1 DEF Abstract!Next

LEMMA MappedExpire ==
    ASSUME NEW over \in SUBSET Saves,
           Left' = [s \in Saves |-> IF s \in over THEN 0 ELSE Left[s]],
           UNCHANGED <<Created, Holding, delivered>>
    PROVE  Abstract!Next
<1>1. Abstract!Expire
    BY DEF Abstract!Expire, Left, Created, Holding, Held, Readable, RecordOf
<1> QED BY <1>1 DEF Abstract!Next
-------------------------------------------------------------------------------
(* What the mapped state is made of, one secret and one reader at a time.  *)
LEMMA LeftSame ==
    ASSUME \A s \in Saves : save'[s].id = save[s].id,
           \A id \in Ids : db'[id] = db[id] /\ (Live(id)' <=> Live(id))
    PROVE  Left' = Left /\ Created' = Created
<1>1. \A s \in Saves : Readable(s)' <=> Readable(s)
    BY DEF Readable, Live
<1> QED BY <1>1 DEF Left, Created, Readable

LEMMA RecordsLeftAloneMapped ==
    ASSUME IInv, Elsewhere
    PROVE  Left' = Left /\ Created' = Created
<1>1. UNCHANGED <<db, now>> /\ \A s \in Saves : save'[s].id = save[s].id
    BY RecordsLeftAlone
<1>2. \A id \in Ids : db'[id] = db[id] /\ (Live(id)' <=> Live(id))
    BY <1>1 DEF Live
<1> QED BY <1>1, <1>2, LeftSame

LEMMA StepCreate ==
    ASSUME IInv, NEW s \in Saves, NEW id \in Ids, SaveSetNX(s, id)
    PROVE  Abstract!Next
<1>1. /\ save[s].pc = "setnx" /\ ~ Live(id) /\ UNCHANGED <<now, reader, delivered>>
      /\ save[s] \in SaveRequests /\ db \in [Ids -> Records \cup {NoRecord}] /\ now \in Nat
      /\ save \in [Saves -> SaveRequests]
    BY DEF SaveSetNX, IInv, TypeOK
<1>2. save[s].id = NoId /\ save[s].views \in 1 .. MaxViews /\ save[s].duration \in Nat
      /\ Expiry(save[s].duration) = now + save[s].duration
    BY <1>1, LimitsAssumption DEF IInv, SavePhases, SaveRequests, Expiry
<1>3. /\ db'[id].save = s /\ db'[id].views = StoredViews(save[s].views)
      /\ db'[id].deadline = now + save[s].duration
      /\ db'[id] = [save |-> s, key |-> save[s].key, version |-> save[s].version,
                    views |-> StoredViews(save[s].views),
                    deadline |-> Expiry(save[s].duration)]
      /\ \A i \in Ids \ {id} : db'[i] = db[i]
    BY <1>1, <1>2 DEF SaveSetNX
<1>4. save'[s].id = id /\ \A t \in Saves \ {s} : save'[t] = save[t]
    <2>1. save'[s] = [save[s] EXCEPT !.pc = "stored", !.id = id, !.deadline = Expiry(save[s].duration)]
        BY <1>1 DEF SaveSetNX
    <2>2. save'[s].id = id
        BY <1>1, <2>1 DEF SaveRequests
    <2> QED BY <1>1, <2>2 DEF SaveSetNX
<1>5. Live(id)'
    <2>1. db'[id] # NoRecord
        BY <1>3, NoSaveAssumption DEF NoRecord
    <2>2. now <= now + save[s].duration
        BY <1>1, <1>2
    <2> QED BY <1>1, <1>3, <2>1, <2>2 DEF Live
<1>6. Readable(s)' /\ ViewsOf(db'[id].views) = save[s].views
    BY <1>2, <1>3, <1>4, <1>5, ClampTypes DEF Readable
<1>7. \A t \in Saves \ {s} : Readable(t)' <=> Readable(t)
    <2> TAKE t \in Saves \ {s}
    <2>1. CASE save[t].id = id
        BY <1>1, <1>3, <1>4, <2>1 DEF Readable
    <2>2. CASE save[t].id # id
        BY <1>1, <1>3, <1>4, <2>2 DEF Readable, Live
    <2> QED BY <2>1, <2>2
<1>8. \A t \in Saves \ {s} : Readable(t) => save[t].id # id
    BY <1>1 DEF Readable
<1>9. Left' = [Left EXCEPT ![s] = save[s].views]
    <2>1. Left'[s] = save[s].views
        BY <1>4, <1>6 DEF Left
    <2>2. ASSUME NEW t \in Saves \ {s}
          PROVE  Left'[t] = Left[t]
        <3>1. CASE ~ Readable(t)
            BY <1>7, <3>1 DEF Left
        <3>2. CASE Readable(t)
            <4>1. save[t].id \in Ids \ {id}
                BY <1>8, <3>2 DEF Readable
            <4> QED BY <1>3, <1>4, <1>7, <3>2, <4>1 DEF Left
        <3> QED BY <3>1, <3>2
    <2> QED BY <2>1, <2>2 DEF Left
<1>10. s \notin Created /\ Created' = Created \cup {s}
    BY <1>2, <1>4, NoIdAssumption DEF Created
<1>11. UNCHANGED <<Holding, delivered>>
    BY <1>1 DEF Holding, Held
<1> QED BY <1>2, <1>9, <1>10, <1>11, MappedCreate

(* A commit: the abstract request takes the view the reader commits.       *)
LEMMA StepTake ==
    ASSUME IInv, NEW r \in Readers, NEW view \in Nat, NEW new \in Records \cup {NoRecord},
           reader[r].pc \in {"set", "del"}, ExecAllowed(r),
           db' = [db EXCEPT ![reader[r].id] = new],
           TakeView(r, view),
           \/ new = NoRecord /\ view = 0
           \/ /\ new \in Records /\ new.save = reader[r].cur.save /\ now <= new.deadline
              /\ reader[r].cur.views > 1 /\ new.views = reader[r].cur.views - 1 /\ view = new.views
    PROVE  Abstract!Next
<1>1. /\ reader \in [Readers -> ReadRequests] /\ db \in [Ids -> Records \cup {NoRecord}]
      /\ save \in [Saves -> SaveRequests]
    BY DEF IInv, TypeOK
<1>2. PICK id \in Ids : id = reader[r].id
    BY DEF IInv, ReadPhases
<1>3. PICK s \in Saves : s = reader[r].cur.save
    BY NoRecordIsNone DEF IInv, ReadPhases
<1>4. /\ reader[r].cur \in Records /\ db[id] = reader[r].cur /\ Live(id)
      /\ db[id].views \in 0 .. MaxViews
    BY <1>2 DEF IInv, ReadPhases, SnapshotSound, ExecAllowed, Records
<1>5. save[s].id = id /\ \A t \in Saves \ {s} : Readable(t) => save[t].id # id
    BY <1>3, <1>4 DEF IInv, ViewsConserved, Live, Readable
<1>6. UNCHANGED <<now, save, delivered>>
    BY DEF TakeView
<1>7. Readable(s) /\ Left[s] = ViewsOf(db[id].views)
    BY <1>3, <1>4, <1>5 DEF Readable, Left
<1>8. Left[s] > 0 /\ Left[s] \in Nat
    BY <1>4, <1>7, LimitsAssumption DEF ViewsOf
<1>9. db'[id] = new /\ \A i \in Ids \ {id} : db'[i] = db[i]
    BY <1>1, <1>2
<1>10. Left'[s] = view /\ (view = 0 \/ view = Left[s] - 1)
    <2>1. CASE new = NoRecord /\ view = 0
        <3>1. ~ Readable(s)'
            BY <1>5, <1>6, <1>9, <2>1 DEF Readable, Live
        <3> QED BY <2>1, <3>1 DEF Left
    <2>2. CASE /\ new \in Records /\ new.save = reader[r].cur.save /\ now <= new.deadline
               /\ reader[r].cur.views > 1 /\ new.views = reader[r].cur.views - 1
               /\ view = new.views
        <3>1. Readable(s)'
            BY <1>3, <1>5, <1>6, <1>9, <2>2, NoRecordIsNone DEF Readable, Live
        <3>2. ViewsOf(new.views) = new.views /\ ViewsOf(db[id].views) = db[id].views
            BY <1>4, <2>2 DEF ViewsOf
        <3>3. Left'[s] = new.views
            BY <1>5, <1>6, <1>9, <3>1, <3>2 DEF Left
        <3> QED BY <1>4, <1>7, <2>2, <3>2, <3>3
    <2> QED BY <2>1, <2>2
<1>11. ASSUME NEW t \in Saves \ {s}
       PROVE  Left'[t] = Left[t]
    <2>1. CASE save[t].id # id
        BY <1>6, <1>9, <2>1 DEF Left, Readable, Live
    <2>2. CASE save[t].id = id
        <3>1. ~ Readable(t)
            BY <1>5, <2>2
        <3>2. ~ Readable(t)'
            BY <1>3, <1>6, <1>9, <2>2 DEF Readable, Live
        <3> QED BY <3>1, <3>2 DEF Left
    <2> QED BY <2>1, <2>2
<1>12. Left' = [Left EXCEPT ![s] = view]
    BY <1>10, <1>11 DEF Left
<1>13. Created' = Created
    BY <1>6 DEF Created
<1>14. Holding[r] = [secret |-> NoSave, view |-> 0]
    BY DEF Holding, Held
<1>15. Holding' = [Holding EXCEPT ![r] = [secret |-> s, view |-> view]]
    <2>1. reader' = [reader EXCEPT ![r].pc = "committed", ![r].view = view, ![r].took = @ + 1]
        BY DEF TakeView
    <2>2. reader'[r] = [reader[r] EXCEPT !.pc = "committed", !.view = view,
                                         !.took = reader[r].took + 1]
        BY <1>1, <2>1
    <2>3. reader'[r].pc = "committed" /\ reader'[r].view = view /\ reader'[r].cur = reader[r].cur
        BY <1>1, <2>2 DEF ReadRequests
    <2>4. \A q \in Readers \ {r} : reader'[q] = reader[q]
        BY <1>1, <2>1
    <2>5. Held(reader'[r]) = [secret |-> s, view |-> view]
        BY <1>3, <2>3 DEF Held
    <2> QED BY <2>4, <2>5 DEF Holding
<1> QED BY <1>6, <1>8, <1>10, <1>12, <1>13, <1>14, <1>15, MappedTake
LEMMA StepCommit ==
    ASSUME IInv, NEW r \in Readers, ReadExecSet(r) \/ ReadExecDel(r)
    PROVE  Abstract!Next
<1>1. CASE ReadExecDel(r)
    <2>1. /\ reader[r].pc = "del" /\ ExecAllowed(r) /\ TakeView(r, 0)
          /\ db' = [db EXCEPT ![reader[r].id] = NoRecord]
        BY <1>1 DEF ReadExecDel
    <2> QED BY <2>1, StepTake
<1>2. CASE ReadExecSet(r)
    <2> DEFINE new == [reader[r].cur EXCEPT !.views = reader[r].cur.views - 1,
                                            !.deadline = Expiry(reader[r].ttl)]
    <2>1. /\ reader[r].pc = "set" /\ ExecAllowed(r)
          /\ db' = [db EXCEPT ![reader[r].id] = new] /\ TakeView(r, new.views)
        BY <1>2 DEF ReadExecSet
    <2>2. reader[r].cur \in Records /\ reader[r].cur.views > 1
        BY <2>1 DEF IInv, ReadPhases
    <2>3. now \in Nat /\ reader[r].ttl \in Nat /\ reader[r].ttl > 0
        <3>1. now \in Nat /\ reader[r] \in ReadRequests /\ reader[r].ttl > 0
            BY <2>1 DEF IInv, TypeOK, ReadPhases
        <3>2. reader[r].ttl \in 0 .. MaxDuration
            BY <3>1 DEF ReadRequests
        <3> QED BY <3>1, <3>2, LifetimeIsNat
    <2>4. /\ now + reader[r].ttl \in Nat /\ now <= now + reader[r].ttl
          /\ Expiry(reader[r].ttl) = now + reader[r].ttl
        BY <2>3 DEF Expiry
    <2>5. new \in Records
        BY <2>2, <2>4, UpdatedType
    <2>6. /\ new.views = reader[r].cur.views - 1 /\ new.save = reader[r].cur.save
          /\ new.deadline = now + reader[r].ttl
        BY <2>2, <2>4 DEF Records
    <2> HIDE DEF new
    <2>7. new.views \in Nat
        BY <2>5, LimitsAssumption DEF Records
    <2> QED BY <2>1, <2>2, <2>4, <2>5, <2>6, <2>7, StepTake
<1> QED BY <1>1, <1>2

LEMMA StepDeliver ==
    ASSUME IInv, NEW r \in Readers, ReadAnswer(r)
    PROVE  Abstract!Next
<1>1. /\ reader[r].pc = "committed" /\ Answer(r, "ok")
      /\ delivered' = [delivered EXCEPT ![reader[r].cur.save] = @ \cup {reader[r].view}]
    BY DEF ReadAnswer
<1>2. Left' = Left /\ Created' = Created
    BY RecordsLeftAloneMapped DEF Elsewhere
<1>3. PICK s \in Saves : s = reader[r].cur.save
    BY <1>1, NoRecordIsNone DEF IInv, ReadPhases
<1>4. reader[r].view \notin delivered[s]
    BY <1>1, <1>3 DEF IInv, ViewsAnsweredOnce
<1>5. Holding[r] = [secret |-> s, view |-> reader[r].view]
    BY <1>1, <1>3 DEF Holding, Held
<1>6. reader'[r].pc = "idle" /\ \A q \in Readers \ {r} : reader'[q] = reader[q]
    BY <1>1, AnsweredFields DEF IInv
<1>7. Held(reader'[r]) = [secret |-> NoSave, view |-> 0]
    BY <1>6 DEF Held
<1>8. Holding' = [Holding EXCEPT ![r] = [secret |-> NoSave, view |-> 0]]
    BY <1>6, <1>7 DEF Holding
<1>9. delivered' = [delivered EXCEPT ![s] = @ \cup {reader[r].view}]
    BY <1>1, <1>3
<1> QED BY <1>2, <1>4, <1>5, <1>8, <1>9, MappedDeliver

LEMMA StepExpire ==
    ASSUME IInv, Tick
    PROVE  Abstract!Next
<1> DEFINE over == {s \in Saves : ~ Readable(s)'}
<1>1. UNCHANGED <<db, save, reader, delivered>> /\ now \in Nat /\ now' = now + 1
    BY DEF Tick, IInv, TypeOK
<1>2. \A id \in Ids : db[id] # NoRecord => db[id].deadline \in Nat
    <2>1. db \in [Ids -> Records \cup {NoRecord}]
        BY DEF IInv, TypeOK
    <2> QED BY <2>1 DEF Records
<1>3. \A s \in Saves : Readable(s)' => Readable(s)
    BY <1>1, <1>2 DEF Readable, Live
<1>4. Left' = [s \in Saves |-> IF s \in over THEN 0 ELSE Left[s]]
    BY <1>1, <1>3 DEF Left
<1>5. UNCHANGED <<Created, Holding, delivered>>
    BY <1>1 DEF Created, Holding, Held
<1> HIDE DEF over
<1>6. over \in SUBSET Saves
    BY DEF over
<1> QED BY <1>4, <1>5, <1>6, MappedExpire

(* Whatever else happens, a request loses the view it held or keeps it.    *)
LEMMA StepLose ==
    ASSUME IInv, TookOnce, Next, Elsewhere, UNCHANGED delivered,
           \A r \in Readers : ~ ReadExecSet(r) /\ ~ ReadExecDel(r)
    PROVE  Abstract!Next
<1> DEFINE failed == {r \in Readers : reader'[r].pc # "committed"}
<1>1. Left' = Left /\ Created' = Created
    BY RecordsLeftAloneMapped
<1>2. ASSUME NEW r \in Readers
      PROVE  Held(reader'[r]) = IF r \in failed THEN [secret |-> NoSave, view |-> 0]
                                ELSE Held(reader[r])
    <2>1. CASE r \in failed
        BY <2>1 DEF Held
    <2>2. CASE r \notin failed
        <3>1. reader'[r] = reader[r]
            BY <2>2, ReaderSteps
        <3> QED BY <2>2, <3>1
    <2> QED BY <2>1, <2>2
<1>3. Holding' = [r \in Readers |-> IF r \in failed THEN [secret |-> NoSave, view |-> 0]
                                    ELSE Holding[r]]
    BY <1>2 DEF Holding
<1> HIDE DEF failed
<1>4. failed \in SUBSET Readers
    BY DEF failed
<1> QED BY <1>1, <1>3, <1>4, MappedLose

(* Every step of the store is a step of the promise, or none.              *)
LEMMA StepMaps ==
    ASSUME IInv, TookOnce, Next
    PROVE  Abstract!Next
<1>1. CASE \E r \in Readers : ReadExecSet(r) \/ ReadExecDel(r)
    BY <1>1, StepCommit
<1>2. CASE \E r \in Readers : ReadAnswer(r)
    BY <1>2, StepDeliver
<1>3. CASE \E s \in Saves, id \in Ids : SaveSetNX(s, id)
    BY <1>3, StepCreate
<1>4. CASE Tick
    BY <1>4, StepExpire
<1>5. CASE /\ ~ (\E r \in Readers : ReadExecSet(r) \/ ReadExecDel(r) \/ ReadAnswer(r))
           /\ ~ (\E s \in Saves, id \in Ids : SaveSetNX(s, id)) /\ ~ Tick
    <2>1. Elsewhere
        BY <1>5, NextCases DEF Elsewhere
    <2>2. UNCHANGED delivered
        BY <1>5, <2>1 DEF Elsewhere, SaveRequest, SaveAnswer, SaveFailed, SaveCollision, ReadRequest,
           ReadWatch, ReadGet, ReadPTTL, ReadRefused, ReadFailed, StatusRequest,
           StatusFailed, StatusExists, ServerCrash
    <2> QED BY <1>5, <2>1, <2>2, StepLose
<1> QED BY <1>1, <1>2, <1>3, <1>4, <1>5

(* The store implements the promise, step by step: whatever interleaving   *)
(* of requests, retries, expiries and crashes, what readers get is what    *)
(* OneTimeSecret allows.                                                   *)
THEOREM StoreImplementsOneTimeSecret == Spec => ImplementsOneTimeSecret
<1> DEFINE Inv == IInv /\ TookOnce
<1>1. Init => Inv /\ Abstract!Init
    <2> SUFFICES ASSUME Init PROVE Inv /\ Abstract!Init
        OBVIOUS
    <2>1. /\ \A s \in Saves : save[s].id = NoId
          /\ \A r \in Readers : reader[r].pc = "idle" /\ reader[r].took = 0
          /\ delivered = [s \in Saves |-> {}]
        BY DEF Init, NewSave, NoRequest
    <2>2. Left = [s \in Saves |-> 0] /\ Created = {}
        BY <2>1, NoIdAssumption DEF Left, Created, Readable
    <2>3. Holding = [r \in Readers |-> [secret |-> NoSave, view |-> 0]]
        BY <2>1 DEF Holding, Held
    <2> QED BY <2>1, <2>2, <2>3, InitInv, MappedInit DEF TookOnce
<1>2. Inv /\ [Next]_vars => Inv'
    <2>1. Inv /\ Next => TookOnce'
        BY ReaderSteps DEF TookOnce
    <2>2. Inv /\ UNCHANGED vars => TookOnce'
        BY DEF TookOnce, vars
    <2> QED BY <2>1, <2>2, StepInv
<1>3. Inv /\ [Next]_vars => [Abstract!Next]_(Abstract!vars)
    <2>1. CASE UNCHANGED vars
        <3>1. UNCHANGED <<db, now, save, reader, delivered>>
            BY <2>1 DEF vars
        <3>2. UNCHANGED <<Left, Created, Holding, delivered>>
            BY <3>1 DEF Left, Created, Holding, Held, Readable, Live
        <3> QED BY <3>2, MappedStutter
    <2>2. CASE Inv /\ Next
        BY <2>2, StepMaps
    <2> QED BY <2>1, <2>2
<1> HIDE DEF Inv
<1> QED BY <1>1, <1>2, <1>3, PTL DEF Spec, ImplementsOneTimeSecret, Abstract!Spec
================================================================================

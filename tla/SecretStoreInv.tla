---------------------------- MODULE SecretStoreInv ----------------------------
(***************************************************************************)
(* The inductive invariant of SecretStore.  ViewsConserved and the other   *)
(* safety properties are not inductive: they hold because a reader whose   *)
(* watched key was not touched has a snapshot equal to the stored record,  *)
(* and that is what the parts below add.                                   *)
(***************************************************************************)
EXTENDS SecretStore

(* How far a save came and what that says of its secret.                   *)
SavePhases ==
    \A s \in Saves :
        /\ save[s].pc \in {"setnx", "stored", "ok"} =>
              save[s].key \in StoredKeys /\ save[s].views \in 1 .. MaxViews
        /\ save[s].pc = "setnx" => save[s].duration > 0
        /\ save[s].pc = "setnx" => save[s].attempts < MaxStorageIDAttempts
        /\ save[s].pc \in {"new", "setnx"} => save[s].id = NoId
        /\ save[s].pc \in {"stored", "ok"} => save[s].id \in Ids
        /\ save[s].id = NoId => taken[s] = {}

(* A key stored for s, under the scheme stored with it, is made from the   *)
(* token of s.                                                             *)
KeyOf(s, key, version) ==
    \/ version = LegacyScheme /\ key = Token(s)
    \/ version = SchemeV3 /\ key = Hash(Token(s))

KeysMatch ==
    /\ \A s \in Saves : save[s].pc = "setnx" => KeyOf(s, save[s].key, save[s].version)
    /\ \A id \in Ids : db[id] # NoRecord => KeyOf(db[id].save, db[id].key, db[id].version)

(* What a read has established by the phase it is in.                      *)
ReadPhases ==
    \A r \in Readers :
        /\ reader[r].pc # "idle" => reader[r].id \in Ids
        /\ reader[r].pc \in {"pttl", "set", "del", "committed"} =>
              /\ reader[r].cur \in Records
              /\ reader[r].key = Token(reader[r].cur.save)
        /\ reader[r].pc \in {"pttl", "set"} => reader[r].cur.views > 1
        /\ reader[r].pc = "set" => reader[r].ttl > 0

(* An untouched WATCH means the record is still the one that was read.     *)
SnapshotSound ==
    \A r \in Readers :
        reader[r].pc \in {"pttl", "set", "del"} /\ r \notin dirty
            => db[reader[r].id] = reader[r].cur

DeliveredWereTaken == \A s \in Saves : delivered[s] \subseteq taken[s]

(* A secret with views left stays stored at least until its own deadline,  *)
(* because no read writes back less time than was left.                    *)
LifetimeKept ==
    /\ \A s \in Saves :
          save[s].id # NoId /\ 0 \notin taken[s] /\ now <= save[s].deadline =>
              /\ db[save[s].id].save = s
              /\ save[s].deadline <= db[save[s].id].deadline
    /\ \A r \in Readers :
          reader[r].pc = "set" /\ r \notin dirty => reader[r].cur.deadline <= now + reader[r].ttl

IInv ==
    /\ TypeOK
    /\ SavePhases
    /\ KeysMatch
    /\ ReadPhases
    /\ SnapshotSound
    /\ ViewsConserved
    /\ ViewsAnsweredOnce
    /\ DeliveredWereTaken
    /\ LifetimeKept
===============================================================================

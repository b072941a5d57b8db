------------------------------- MODULE Profile -------------------------------
(***************************************************************************)
(* What the text pages of one browser profile share: the service, the two  *)
(* things they keep in localStorage, and the clock.                        *)
(*                                                                         *)
(* The service is what its promise (OneTimeSecret) leaves of it for a      *)
(* page: left counts the views of each secret and never grows again.  The  *)
(* synchronous blocks of a page are atomic, localStorage included.         *)
(***************************************************************************)
EXTENDS SecretKeys, Sequences, FiniteSets

CONSTANTS
    Secrets,    \* the secrets this profile may send
    MaxViews,   \* the largest number of views
    MaxEntries, \* MAX_ENTRIES of the list
    Lifetime,   \* ticks a secret lives
    KeepFor,    \* keptForMs in ticks
    MaxTime     \* bound on the clock

ASSUME ProfileAssumption ==
    /\ MaxViews \in Nat \ {0}
    /\ MaxEntries \in Nat \ {0}
    /\ Lifetime \in Nat \ {0}
    /\ KeepFor \in Nat \ {0}
    /\ MaxTime \in Nat

VARIABLES
    left,       \* views the service still hands out
    locked,     \* the secrets encrypted under a passphrase
    list,       \* 1time.secretsList.v1, newest last
    kept,       \* the 1time:kept: copies, with the time they were made
    now

profileVars == <<left, locked, list, kept, now>>

Entry == [id : Secrets, views : 1 .. MaxViews, expiresAt : 0 .. MaxTime + Lifetime]
KeptCopy == [id : Secrets, at : 0 .. MaxTime]

ProfileTypeOK ==
    /\ left \in [Secrets -> 0 .. MaxViews]
    /\ locked \subseteq Secrets
    /\ list \in Seq(Entry) /\ Len(list) <= MaxEntries
    /\ kept \subseteq KeptCopy
    /\ now \in 0 .. MaxTime

ProfileInit ==
    /\ left = [s \in Secrets |-> 0]
    /\ locked = {}
    /\ list = <<>>
    /\ kept = {}
    /\ now = 0

(* What the sender encrypted, and the hash the service has of its token.   *)
Encrypted(s) == encryptSecretMessage(s, fullSecretKey(s \in locked, s))

(* The service knows a reader by the hash of the token presented.          *)
RightKey(s, typed) ==
    hashReadToken(hashSecretKey(fullSecretKey(typed, s))) = Encrypted(s).readTokenHash

(* Array.filter: the entries at some places of the list, in their order.   *)
EntriesAt(entries, places) ==
    [n \in 1 .. Cardinality(places) |->
        entries[CHOOSE i \in places : Cardinality({j \in places : j <= i}) = n]]

(* The entries that have not expired, which loadSecrets also writes back.  *)
loadSecrets == EntriesAt(list, {i \in 1 .. Len(list) : list[i].expiresAt > now})

Without(entries, s) == EntriesAt(entries, {i \in 1 .. Len(entries) : entries[i].id # s})

(* Mutant: nothing makes room.                                             *)
recordSecretOnTop(s, views) ==
    Append(Without(loadSecrets, s), [id |-> s, views |-> views, expiresAt |-> now + Lifetime])

(* A new entry goes last; the oldest make room.                            *)
recordSecret(s, views) ==
    LET entry == [id |-> s, views |-> views, expiresAt |-> now + Lifetime]
        entries == Append(Without(loadSecrets, s), entry)
        excess == IF Len(entries) > MaxEntries THEN Len(entries) - MaxEntries ELSE 0
    IN SubSeq(entries, excess + 1, Len(entries))

Listed(s) == \E i \in 1 .. Len(list) : list[i].id = s

(* Someone with the link reads the secret elsewhere, or its life ends.     *)
SpentElsewhere(s) ==
    /\ left[s] > 0
    /\ \E v \in 0 .. left[s] - 1 : left' = [left EXCEPT ![s] = v]
    /\ UNCHANGED <<locked, list, kept, now>>

Tick ==
    /\ now < MaxTime
    /\ now' = now + 1
    /\ UNCHANGED <<left, locked, list, kept>>
==============================================================================

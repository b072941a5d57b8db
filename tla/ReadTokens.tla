----------------------------- MODULE ReadTokens -----------------------------
(***************************************************************************)
(* What a save stores to recognise its readers and how a read is matched   *)
(* against it: the part of backend/handlers.go and backend/storage.go that *)
(* the text store, the file store and the chunked upload share.            *)
(*                                                                         *)
(* Strings are abstract.  Every save has a client that made one random     *)
(* read token; a key on the wire is a token, the SHA-256 of a key, the     *)
(* empty string, or a string of another shape.                             *)
(***************************************************************************)
EXTENDS Integers

CONSTANTS
    Saves,              \* save requests, one client and one secret each
    MaxViews,           \* maxViews (text) and maxFileViews (files): 10
    MaxDuration,        \* maxDuration of main.go, in clock units
    DefaultDuration     \* defaultDuration of main.go, in clock units

ASSUME LimitsAssumption ==
    /\ MaxViews \in Nat /\ MaxViews >= 1
    /\ MaxDuration \in Nat
    /\ DefaultDuration \in 1 .. MaxDuration

NoSave == "none"

ASSUME NoSaveAssumption == NoSave \notin Saves

Token(s) == <<"token", s>>
Hash(key) == <<"sha256", key>>
Empty == <<"empty">>
Malformed == <<"malformed">>

LegacyScheme == 0       \* v2: the record holds the token itself
SchemeV3 == 3           \* secretSchemeV3: the record holds its SHA-256
FutureScheme == 9       \* any other number in the version field

StoredKeys == {Token(s) : s \in Saves} \cup {Hash(Token(s)) : s \in Saves}

(* What readers present: the token of a link, what is stored for a v3      *)
(* token, or a string of the wrong shape.                                  *)
PresentedKeys == StoredKeys \cup {Malformed}

(* 64 lower-case hex digits: a token has that shape and so has a SHA-256.  *)
IsValidHashedKey(key) == key \notin {Empty, Malformed}

(* The two key fields and the version field of a save request.  Both key   *)
(* fields are client input: the right one, the other one, both, none, or   *)
(* a string of the wrong shape.                                            *)
SaveForms(s) ==
    [legacy : {Empty, Malformed, Token(s)},
     hash   : {Empty, Malformed, Hash(Token(s))},
     v      : {LegacyScheme, SchemeV3, FutureScheme}]

SchemeAccepted(form) ==
    \/ /\ form.v = SchemeV3
       /\ form.legacy = Empty
       /\ IsValidHashedKey(form.hash)
    \/ /\ form.v = LegacyScheme
       /\ form.hash = Empty
       /\ IsValidHashedKey(form.legacy)

(* What an accepted form makes the server store: resolveSaveScheme.        *)
SchemeStored(form) == IF form.v = SchemeV3 THEN form.hash ELSE form.legacy

(* Mutant: the version field is not looked at.                             *)
TokenMatchesEither(stored, version, presented) ==
    stored = presented \/ stored = Hash(presented)

TokenMatchesStored(stored, version, presented) ==
    \/ version = LegacyScheme /\ stored = presented
    \/ version = SchemeV3 /\ stored = Hash(presented)

(* Mutant: only the lower bound is enforced.                               *)
ClampViewsBelow(n) == IF n < 1 THEN 1 ELSE n

(* Out-of-range requests are not refused: views are clamped to 1..MaxViews *)
(* and a bad lifetime becomes the default one.                             *)
ClampViews(n) == IF n < 1 THEN 1 ELSE IF n > MaxViews THEN MaxViews ELSE n

ClampDuration(d) == IF d < 1 \/ d > MaxDuration THEN DefaultDuration ELSE d

(* A single view is stored as 0, so that the field is left out.            *)
StoredViews(n) == IF n = 1 THEN 0 ELSE n

(* The reads a stored count stands for: 0 is a legacy or default record.   *)
ViewsOf(stored) == IF stored > 1 THEN stored ELSE 1
=============================================================================

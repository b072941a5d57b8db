------------------------------ MODULE SecretKeys ------------------------------
(***************************************************************************)
(* The key protocol (protocol.mjs, of which the web pages, the             *)
(* command-line client and the extension hold the same copy), with         *)
(* symbolic cryptography: two derived values are equal when they were      *)
(* derived in the same way, and a payload opens under its own key only.    *)
(*                                                                         *)
(* A payload is what it was made from, all of it (whole) or a part.        *)
(***************************************************************************)
EXTENDS Naturals

(* getRandomString: no two secrets have the same random key.               *)
randomKey(s) == [random |-> s]

(* The passphrase, if there is one, in front of the random key; whether    *)
(* the right one was typed is all that is told apart.                      *)
fullSecretKey(passphrase, s) == [passphrase |-> passphrase, key |-> randomKey(s)]

(* Two keys for two purposes come of one: HKDF with its info.              *)
deriveSecretKey(key) == [info |-> "encrypt", from |-> key]
deriveAuthToken(key) == [info |-> "auth", from |-> key]

(* What a reader presents, and what a sender uploads of it.                *)
hashSecretKey(key) == deriveAuthToken(key)
hashReadToken(token) == [sha256 |-> token]

encryptSecretBytes(s, whole, key) ==
    [bytes |-> [of |-> s, whole |-> whole, under |-> deriveSecretKey(key)],
     readTokenHash |-> hashReadToken(deriveAuthToken(key))]

(* Opening a payload throws unless it is authentic.                        *)
opens(bytes, key) == bytes.whole /\ bytes.under = deriveSecretKey(key)

encryptSecretMessage(s, key) == encryptSecretBytes(s, TRUE, key)
opensMessage(message, key) == opens(message, key)
==============================================================================

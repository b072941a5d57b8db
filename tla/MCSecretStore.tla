---------------------------- MODULE MCSecretStore ----------------------------
(* Small instances of SecretStore for TLC.                                  *)
EXTENDS SecretStoreInv, TLC

\* Out of range on both sides: views are clamped to one and to two, both
\* lifetimes become the default one.
MCRequestViews == {-1, 5}
MCRequestDurations == {0, 5}

\* When ids are scarce: one lifetime, a single view and two.
MCFewViews == {1, 2}
MCOneDuration == {1}

MCSymmetry == Permutations(Readers) \cup Permutations(Ids) \cup Permutations(Saves)
==============================================================================

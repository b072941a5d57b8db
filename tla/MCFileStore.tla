----------------------------- MODULE MCFileStore -----------------------------
(* Small instances of FileStore for TLC.                                    *)
EXTENDS FileStore, TLC

\* Two views: the first download decrements the record, the second deletes it.
MCTwoViews == {2}

\* A single view, asked for by a count below the range.
MCOneView == {0}

MCDurations == {1}

MCSymmetry == Permutations(Readers) \cup Permutations(Saves)
==============================================================================

---------------------------- MODULE MCChunkedUpload ----------------------------
(* Bounded instances of ChunkedUpload for TLC.                              *)
EXTENDS ChunkedUpload, TLC

MCSymmetry ==
    Permutations(Requests) \cup Permutations(Stores) \cup Permutations(Bytes) \cup Permutations(Chunks)
==============================================================================

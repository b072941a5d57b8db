---------------------------- MODULE MCFileExchange ----------------------------
(* A small instance of FileExchange for TLC.                                 *)
EXTENDS FileExchange, TLC

MCSymmetry == Permutations(Tabs)
==============================================================================

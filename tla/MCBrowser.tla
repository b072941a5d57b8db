------------------------------ MODULE MCBrowser ------------------------------
(* Small profiles for TLC.                                                   *)
EXTENDS Browser, TLC

\* Burn after reading, and two views; with them goes the choice of a duration.
MCSettings == {[views |-> 1], [views |-> 2]}

MCDefaultSetting == [views |-> 1]

MCOneSetting == {[views |-> 2]}

MCTheSetting == [views |-> 2]

MCSymmetry == Permutations(Tabs)
==============================================================================

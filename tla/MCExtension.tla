----------------------------- MODULE MCExtension -----------------------------
(* A small instance of Extension for TLC.                                    *)
EXTENDS Extension
==============================================================================

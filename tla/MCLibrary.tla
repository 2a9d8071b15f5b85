----------------------------- MODULE MCLibrary ------------------------------
(* FileLibrary for TLC: "A" is stored as "a" is.                           *)
EXTENDS FileLibrary

MCStored == [n \in Names |-> IF n = "A" THEN "a" ELSE n]
=============================================================================

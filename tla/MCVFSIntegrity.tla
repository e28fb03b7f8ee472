--------------------------- MODULE MCVFSIntegrity ---------------------------
(***************************************************************************)
(* Model-checking instance of VFSIntegrity: a test directory of two       *)
(* files, one at its top level and one in a subdirectory, each either     *)
(* empty or holding one of two contents.                                   *)
(***************************************************************************)
EXTENDS VFSIntegrity, TLC

CONSTANTS top, sub, d1, d2

MCNames == {top, sub}
MCNested == {sub}
MCData == {d1, d2}
MCNameIndex == (top :> 1) @@ (sub :> 2)
=============================================================================

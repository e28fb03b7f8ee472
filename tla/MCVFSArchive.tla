---------------------------- MODULE MCVFSArchive ----------------------------
(***************************************************************************)
(* Model-checking instance of VFSArchive.  Sizes are in abstract bytes:   *)
(* a block of 4, a record of 1, a header of 3 (firstEntry 4) and an AES  *)
(* block of 2, so a slot is one or two blocks and a payload of 3 plain    *)
(* bytes fills a block exactly.                                           *)
(***************************************************************************)
EXTENDS VFSArchive

CONSTANTS p1, p2, d1, d2, k1, k2

MCPaths == {p1, p2}
MCData == {d1, d2}
MCKeys == {k1, k2}

\* two paths with distinct non-zero name indices
MCNameIndex == (p1 :> 1) @@ (p2 :> 2)

\* d1: 1 byte, LZ4 output 2 bytes (does not shrink); d2: 3 bytes -> 2
MCSizeOf == (d1 :> 1) @@ (d2 :> 3)
MCLz4SizeOf == (d1 :> 2) @@ (d2 :> 2)
MCHashOf == (d1 :> 11) @@ (d2 :> 22)
=============================================================================

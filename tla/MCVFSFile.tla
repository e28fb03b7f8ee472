----------------------------- MODULE MCVFSFile -----------------------------
(* Model values for VFSFile: a two-value byte alphabet, an allocation      *)
(* granularity of 2 (so offset 1 and 3 are not aligned), files of up to 3  *)
(* bytes and a two-byte caller buffer.                                     *)
EXTENDS VFSFile

CONSTANT garbage

MCBytes == {0, 1}
MCOffsets == {0, 1, 3}
MCSizes == {0, 1, 2}
MCCallerBuf == <<1, 0>>
====

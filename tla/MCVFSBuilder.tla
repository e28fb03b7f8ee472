---------------------------- MODULE MCVFSBuilder ----------------------------
(* Three jobs.  j1 has a visual directory ending in '\', two rewrites   *)
(* (declared in key order) whose patterns hold a '\', an ignore "*a"     *)
(* that drops one file, and an empty file; j2 has a visual directory   *)
(* without a trailing separator; j3 has no visual directory and ignores *)
(* every one-character name.                                            *)
EXTENDS VFSBuilder

CONSTANTS j1, j2, j3, o1, o2, o3, d1, d2

S(str) == [i \in 1..Len(str) |-> SubSeq(str, i, i)]

MCJobs == {j1, j2, j3}
MCOutputs == {o1, o2, o3}
MCOutOf == (j1 :> o1) @@ (j2 :> o2) @@ (j3 :> o3)
MCOutOfShared == (j1 :> o1) @@ (j2 :> o1) @@ (j3 :> o3)
MCDir == (j1 :> S("a")) @@ (j2 :> S("b")) @@ (j3 :> S("b"))
MCVisual == (j1 :> S("b\\")) @@ (j2 :> S("a")) @@ (j3 :> <<>>)
MCPatches ==
  (j1 :> << [from |-> S("a\\a"), to |-> S("b")], [from |-> S("b\\"), to |-> S("a\\")] >>) @@
  (j2 :> <<>>) @@ (j3 :> <<>>)
\* j2 declares "b" -> "a" before "a" -> "b"; in key order "a" comes first.
MCPatchesUnsorted ==
  (j1 :> MCPatches[j1]) @@
  (j2 :> << [from |-> S("b"), to |-> S("a")], [from |-> S("a"), to |-> S("b")] >>) @@
  (j3 :> <<>>)
\* byte values of '/', '\\', 'a', 'b'
MCCharCode == ("/" :> 47) @@ ("\\" :> 92) @@ ("a" :> 97) @@ ("b" :> 98)
MCIgnores == (j1 :> << S("*a") >>) @@ (j2 :> <<>>) @@ (j3 :> << S("?") >>)
MCSources ==
  (j1 :> << [path |-> S("a\\b\\b"), data |-> d1],
            [path |-> S("a\\a\\a"), data |-> d2],
            [path |-> S("a\\b"),    data |-> Empty] >>) @@
  (j2 :> << [path |-> S("b\\a"), data |-> d2],
            [path |-> S("b\\b"), data |-> d1] >>) @@
  (j3 :> << [path |-> S("b\\a\\b"), data |-> d1],
            [path |-> S("b\\a"),    data |-> d2] >>)
MCData == {d1, d2}
=============================================================================

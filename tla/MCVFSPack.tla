----------------------------- MODULE MCVFSPack -----------------------------
(* Constants for checking VFSPack: archive a reachable by a relative name *)
(* ra and by its absolute path fa, archive b by its absolute path fb; a   *)
(* is written with key k1 and b with k2; both hold name index 1.          *)
EXTENDS VFSPack

CONSTANTS ra, fa, fb, k1, k2, d1, d2, star, sub

MCNames == {ra, fa, fb}
MCAbsPath == (ra :> fa) @@ (fa :> fa) @@ (fb :> fb)
MCLoadable == {fa, fb}
MCRegPaths == {star, sub}
MCKeys == {k1, k2}
MCBuildKey == (fa :> k1) @@ (fb :> k2)
MCData == {d1, d2}
MCContent == (fa :> (1 :> d1)) @@ (fb :> (1 :> d2))
=============================================================================

--------------------------- MODULE MC_Dependencies ---------------------------
(* Two roots whose lockfiles name two dependencies each, one of them      *)
(* shared; d2 and d3 are two versions of the same repo, so their entries  *)
(* share a name.  With three slots a root goroutine always leaves one for *)
(* a dependency; with two, both roots can hold one each and wait for a    *)
(* second.                                                                 *)
EXTENDS Dependencies, TLC

CONSTANTS r1, r2, d1, d2, d3, n1, n2, v1, v2

MC_DepsOf == (r1 :> {d1, d2}) @@ (r2 :> {d2, d3})
MC_DepName == (d1 :> n1) @@ (d2 :> n2) @@ (d3 :> n2)
MC_DepRev == (d1 :> v1) @@ (d2 :> v1) @@ (d3 :> v2)
=============================================================================

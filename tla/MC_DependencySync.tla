-------------------------- MODULE MC_DependencySync --------------------------
(* One upload that references an npm package and a Go package (whose     *)
(* scheme has no external service), indexed by lsif-tsc; the service of *)
(* SyncInterval is the npm package host.  Every store call may fail, and *)
(* the worker gives a job two attempts.                                   *)
EXTENDS DependencySync, TLC

CONSTANTS u1, npmPkg, goPkg, npm

MC_ZeroTime == -100
MC_SchemeKind == (npmPkg :> npm) @@ (goPkg :> NoKind)
MC_Refs == u1 :> <<npmPkg, goPkg>>
MC_Indexed == u1 :> TRUE
=============================================================================

---------------------------- MODULE MC_SyncerLazy ----------------------------
(* One handler and two site-owned services of one public code host: s1 is *)
(* its cloud-default service, which is never synced in full, and s2 a     *)
(* package host, which is.  Lazy calls find n1 on s1 and n2 on s2.  s1's  *)
(* source may report n1 public or private (a private repo is gone to the *)
(* lazy path); s2's pass and a lazy call of n2 may create n2 at once.     *)
(* The store starts with n1, owned by s1.                                 *)
EXTENDS SyncerLazy, TLC

CONSTANTS h1, s1, s2, n1, n2, p1, p2, m1, site, c1, c2

Cand(n, p, priv) == [name |-> n, spec |-> p, meta |-> m1, private |-> priv]
StoredRow(n, p, ss) ==
  [name |-> n, spec |-> p, meta |-> m1, private |-> FALSE, svcs |-> ss, deleted |-> FALSE]

MC_NamespaceOf == (s1 :> site) @@ (s2 :> site)
MC_Listing == (s1 :> {Cand(n1, p1, FALSE), Cand(n1, p1, TRUE)}) @@ (s2 :> {Cand(n2, p2, FALSE)})
MC_LazySvc == (n1 :> s1) @@ (n2 :> s2)
MC_InitRepos == << StoredRow(n1, p1, {s1}) >>

(* Only the cloud-default service: nothing is synced in full. *)
MC_NamespaceOfCloud == s1 :> site
MC_ListingN2 == s1 :> {Cand(n2, p2, FALSE)}
MC_ListingN1 == s1 :> {Cand(n1, p1, FALSE)}
MC_ListingNone == s1 :> {}
MC_LazySvcCloud == (n1 :> s1) @@ (n2 :> s1)
MC_InitReposEmpty == << >>

(* Only the package host, which is synced in full. *)
MC_NamespaceOfPkg == s2 :> site
MC_ListingPkg == s2 :> {Cand(n2, p2, FALSE)}
MC_LazySvcPkg == (n1 :> NoSvc) @@ (n2 :> s2)
=============================================================================

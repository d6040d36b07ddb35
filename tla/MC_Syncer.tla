------------------------------ MODULE MC_Syncer ------------------------------
(* Two handlers and two services of one code host: s1 owned by the site,  *)
(* s2 by user u1, who may not add private code.  Two names and two specs  *)
(* are enough for a rename: s1's source may report n2 with the spec of    *)
(* the row now named n1, which makes the lookup match two rows.  The      *)
(* store starts with n1/p1 owned by s1 and n2/p2 owned by s2; n3/p3 is    *)
(* new to both sources, and u1, who may own one repo, is at the limit.    *)
EXTENDS Syncer, TLC

CONSTANTS h1, h2, s1, s2, s3, n1, n2, n3, p1, p2, p3, m1, site, u1

Cand(n, p, priv) == [name |-> n, spec |-> p, meta |-> m1, private |-> priv]
StoredRow(n, p, ss) ==
  [name |-> n, spec |-> p, meta |-> m1, private |-> FALSE, svcs |-> ss, deleted |-> FALSE]

MC_NamespaceOf == (s1 :> site) @@ (s2 :> u1)
MC_Listing ==
  (s1 :> {Cand(n1, p1, FALSE), Cand(n2, p1, FALSE), Cand(n2, p2, FALSE), Cand(n3, p3, FALSE)})
  @@ (s2 :> {Cand(n2, p2, FALSE), Cand(n1, p1, TRUE), Cand(n3, p3, FALSE)})
MC_InitRepos == << StoredRow(n1, p1, {s1}), StoredRow(n2, p2, {s2}) >>

(* The repo limit under concurrency: two services s2 and s3 of the same  *)
(* user, who may own one repo, each report a different new repo to an    *)
(* empty store.                                                            *)
MC_NamespaceOfRace == (s2 :> u1) @@ (s3 :> u1)
MC_ListingRace == (s2 :> {Cand(n1, p1, FALSE)}) @@ (s3 :> {Cand(n2, p2, FALSE)})
MC_InitReposEmpty == << >>
=============================================================================

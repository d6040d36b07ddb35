------------------------------ MODULE SyncerProofs ------------------------------
(***************************************************************************)
(* Proof that the syncer model is well typed for every set of handlers,   *)
(* services, names and specs and every listing.  TypeOK is not inductive  *)
(* by itself: the write of a transaction indexes the repo table by the    *)
(* IDs its lookup found, and associates the handler's service with the    *)
(* row, so the invariant also records that a plan refers to rows that     *)
(* exist and that a busy handler holds a service.                          *)
(***************************************************************************)
EXTENDS Syncer, TLAPS

(* The rows a transaction's plan names exist: the store never shrinks.    *)
PlanInStore ==
  \A h \in Handlers :
    /\ plan[h].target \in {0} \cup Ids
    /\ plan[h].conflict \in {0} \cup Ids
    /\ plan[h].kind \in {"update", "unmodified"} => plan[h].target \in Ids
    /\ pc[h] = "apply" => plan[h].kind # "none"

(* A handler that is not idle holds the job of a service. *)
JobHeld == \A h \in Handlers : pc[h] # "idle" => job[h] \in Svcs

TypeInv == TypeOK /\ PlanInStore /\ JobHeld

-----------------------------------------------------------------------------
(* Lemmas on the values the actions build. *)

LEMMA NoPlanType == NoPlan \in Plan
<1>0. PICK n \in Names, sp \in Specs, x \in Metas : TRUE
  BY SyncerAssumption
<1>1. Candidate # {}
  <2>1. [name |-> n, spec |-> sp, meta |-> x, private |-> FALSE] \in Candidate
    BY DEF Candidate
  <2>2. QED
    BY <2>1
<1>2. (CHOOSE c \in Candidate : TRUE) \in Candidate
  BY <1>1
<1>3. QED
  BY <1>2 DEF NoPlan, Plan

LEMMA SoftDeletedType ==
  ASSUME NEW r \in Row PROVE SoftDeleted(r) \in Row
BY DEF SoftDeleted, Row

LEMMA SourcedType ==
  ASSUME NEW r \in Row, NEW c \in Candidate, NEW s \in Svcs
  PROVE  Sourced(r, c, s) \in Row
BY DEF Sourced, Row, Candidate

LEMMA NewRowType ==
  ASSUME NEW c \in Candidate, NEW s \in Svcs
  PROVE  NewRow(c, s) \in Row
BY DEF NewRow, Row, Candidate

LEMMA EmptyDiffType == EmptyDiff \in Diff
BY DEF EmptyDiff, Diff

(* Replacing a row keeps the table a sequence of rows with the same IDs. *)
LEMMA ExceptRow ==
  ASSUME NEW rs \in Seq(Row), NEW i \in DOMAIN rs, NEW r \in Row
  PROVE  [rs EXCEPT ![i] = r] \in Seq(Row) /\ DOMAIN [rs EXCEPT ![i] = r] = DOMAIN rs
OBVIOUS

(* Appending a row adds the next ID. *)
LEMMA AppendRow ==
  ASSUME NEW rs \in Seq(Row), NEW r \in Row
  PROVE  /\ Append(rs, r) \in Seq(Row)
         /\ DOMAIN Append(rs, r) = DOMAIN rs \cup {Len(rs) + 1}
         /\ Len(rs) + 1 \in Nat
OBVIOUS

(* A table rebuilt row by row over the same IDs is a sequence of rows. *)
LEMMA RebuiltTable ==
  ASSUME NEW rs \in Seq(Row), NEW f \in [DOMAIN rs -> Row]
  PROVE  f \in Seq(Row)
OBVIOUS

(* The plan sync() makes from its lookup is well formed and names rows  *)
(* of the table.                                                           *)
LEMMA SyncPlanType ==
  ASSUME repos \in Seq(Row), NEW s, NEW c \in Candidate
  PROVE  /\ SyncPlan(s, c) \in Plan
         /\ SyncPlan(s, c).kind # "none"
         /\ SyncPlan(s, c).target \in {0} \cup Ids
         /\ SyncPlan(s, c).conflict \in {0} \cup Ids
         /\ SyncPlan(s, c).kind \in {"update", "unmodified"} => SyncPlan(s, c).target \in Ids
<1> DEFINE m == Matches(c)
           target == IF \E i \in m : repos[i].spec = c.spec
                     THEN CHOOSE i \in m : repos[i].spec = c.spec
                     ELSE CHOOSE i \in m : TRUE
           conflicting == IF \E i \in m : i # target
                          THEN CHOOSE i \in m : i # target ELSE 0
           kind == IF m = {}
                   THEN IF ~IsSiteOwned(s) /\ (SiteAdded >= SiteLimit \/
                                               NamespaceAdded(NamespaceOf[s]) >= UserLimit)
                        THEN "limit" ELSE "create"
                   ELSE IF Differs(repos[target], c, s) THEN "update" ELSE "unmodified"
           new == [kind |-> kind, repo |-> c,
                   target |-> IF m = {} THEN 0 ELSE target,
                   conflict |-> conflicting]
<1>0. SyncPlan(s, c) = new
  BY DEF SyncPlan
<1>1. m \subseteq Ids /\ Ids \subseteq Nat
  BY DEF Matches, Ids
<1>2. m # {} => target \in m
  OBVIOUS
<1>3. conflicting \in {0} \cup m
  OBVIOUS
<1>4. /\ kind \in {"create", "update", "unmodified", "limit"}
      /\ kind \in {"update", "unmodified"} => m # {}
  OBVIOUS
<1>5. /\ new \in Plan /\ new.kind # "none"
      /\ new.target \in {0} \cup Ids /\ new.conflict \in {0} \cup Ids
      /\ new.kind \in {"update", "unmodified"} => new.target \in Ids
  BY <1>1, <1>2, <1>3, <1>4 DEF Plan
<1>6. QED
  BY <1>0, <1>5

(* A committed write leaves a table of rows that keeps every ID, and a    *)
(* well-formed Diff.                                                        *)
LEMMA WrittenType ==
  ASSUME repos \in Seq(Row), NEW s \in Svcs, NEW p \in Plan,
         p.kind \in {"create", "update", "unmodified"},
         p.kind \in {"update", "unmodified"} => p.target \in Ids,
         p.conflict \in {0} \cup Ids
  PROVE  /\ WrittenRepos(p, s) \in Seq(Row)
         /\ Ids \subseteq DOMAIN WrittenRepos(p, s)
         /\ WrittenDiff(p) \in Diff
<1> DEFINE DR == DropConflict(p)
<1>0. p.repo \in Candidate /\ Ids \subseteq Nat
  BY DEF Plan, Ids
<1>1. DR \in Seq(Row) /\ DOMAIN DR = Ids
  <2>1. CASE p.conflict = 0
    BY <2>1 DEF DropConflict, Ids
  <2>2. CASE p.conflict # 0
    <3>1. p.conflict \in DOMAIN repos /\ repos[p.conflict] \in Row
      BY <2>2 DEF Ids
    <3>2. SoftDeleted(repos[p.conflict]) \in Row
      BY <3>1, SoftDeletedType
    <3>3. QED
      BY <2>2, <3>1, <3>2, ExceptRow DEF DropConflict, Ids
  <2>3. QED
    BY <2>1, <2>2
<1>2. CASE p.kind = "unmodified"
  BY <1>0, <1>1, <1>2 DEF WrittenRepos, WrittenDiff, EmptyDiff, Diff
<1>3. CASE p.kind = "update"
  <2>1. p.target \in DOMAIN DR /\ DR[p.target] \in Row
    BY <1>1, <1>3
  <2>2. Sourced(DR[p.target], p.repo, s) \in Row
    BY <1>0, <2>1, SourcedType
  <2>3. QED
    BY <1>0, <1>1, <1>3, <2>1, <2>2, ExceptRow DEF WrittenRepos, WrittenDiff, EmptyDiff, Diff
<1>4. CASE p.kind = "create"
  <2>1. NewRow(p.repo, s) \in Row
    BY <1>0, NewRowType
  <2>2. QED
    BY <1>4, <2>1, AppendRow DEF WrittenRepos, WrittenDiff, EmptyDiff, Diff, Ids
<1>5. QED
  BY <1>2, <1>3, <1>4

-----------------------------------------------------------------------------
(* One lemma per action. *)

LEMMA InitTypeInv == Init => TypeInv
<1> SUFFICES ASSUME Init PROVE TypeInv
  OBVIOUS
<1>1. TypeOK
  BY NoPlanType, EmptyDiffType, SyncerAssumption DEF Init, TypeOK, Steps
<1>2. PlanInStore
  BY DEF Init, PlanInStore, NoPlan, Ids
<1>3. JobHeld
  BY DEF Init, JobHeld
<1>4. QED
  BY <1>1, <1>2, <1>3 DEF TypeInv

LEMMA InitialDiffTypeInv ==
  TypeInv /\ InitialUnmodifiedDiffFromStore => TypeInv'
<1> SUFFICES ASSUME TypeInv, InitialUnmodifiedDiffFromStore PROVE TypeInv'
  OBVIOUS
<1>1. view' \in SUBSET Nat
  BY DEF TypeInv, TypeOK, InitialUnmodifiedDiffFromStore, UpdateFromDiff,
         EmptyDiff, Live, Ids
<1>2. QED
  BY <1>1 DEF TypeInv, TypeOK, PlanInStore, JobHeld,
              InitialUnmodifiedDiffFromStore, Ids

LEMMA StartPassTypeInv ==
  ASSUME TypeInv, NEW h \in Handlers, NEW s \in Svcs, StartPass(h, s)
  PROVE  TypeInv'
<1>1. TypeOK'
  BY DEF TypeInv, TypeOK, StartPass, Steps
<1>2. PlanInStore'
  BY DEF TypeInv, PlanInStore, StartPass, Ids
<1>3. JobHeld'
  BY DEF TypeInv, TypeOK, JobHeld, StartPass
<1>4. QED
  BY <1>1, <1>2, <1>3 DEF TypeInv

LEMMA ReceiveErrorTypeInv ==
  ASSUME TypeInv, NEW h \in Handlers, NEW e \in SourceErrs, ReceiveError(h, e)
  PROVE  TypeInv'
<1>1. errs' \in [Handlers -> SUBSET ErrKinds] /\ streamErrs' \in [Handlers -> SUBSET SourceErrs]
  BY DEF TypeInv, TypeOK, ReceiveError, SourceErrs, ErrKinds
<1>2. items' \in [Handlers -> Nat]
  BY DEF TypeInv, TypeOK, ReceiveError
<1>3. seen' \in [Handlers -> SUBSET Nat] /\ pc' \in [Handlers -> Steps]
  <2>1. CASE e = "fatal"
    BY <2>1 DEF TypeInv, TypeOK, ReceiveError, Steps
  <2>2. CASE e # "fatal"
    BY <2>2 DEF TypeInv, TypeOK, ReceiveError
  <2>3. QED
    BY <2>1, <2>2
<1>4. TypeOK'
  BY <1>1, <1>2, <1>3 DEF TypeInv, TypeOK, ReceiveError
<1>5. PlanInStore'
  <2>1. pc' = [pc EXCEPT ![h] = "prune"] \/ pc' = pc
    BY DEF ReceiveError
  <2>2. QED
    BY <2>1 DEF TypeInv, TypeOK, PlanInStore, ReceiveError, Ids
<1>6. JobHeld'
  BY DEF TypeInv, TypeOK, JobHeld, ReceiveError
<1>7. QED
  BY <1>4, <1>5, <1>6 DEF TypeInv

LEMMA ReceiveRepoTypeInv ==
  ASSUME TypeInv, NEW h \in Handlers, job[h] \in Svcs,
         NEW c \in Listing[job[h]], ReceiveRepo(h, c)
  PROVE  TypeInv'
<1> DEFINE s == job[h]
           m == Matches(c)
           target == IF \E i \in m : repos[i].spec = c.spec
                     THEN CHOOSE i \in m : repos[i].spec = c.spec
                     ELSE CHOOSE i \in m : TRUE
           conflicting == IF \E i \in m : i # target
                          THEN CHOOSE i \in m : i # target ELSE 0
           kind == IF m = {}
                   THEN IF ~IsSiteOwned(s) /\ (SiteAdded >= SiteLimit \/
                                               NamespaceAdded(NamespaceOf[s]) >= UserLimit)
                        THEN "limit" ELSE "create"
                   ELSE IF Differs(repos[target], c, s) THEN "update" ELSE "unmodified"
           new == [kind |-> kind, repo |-> c,
                   target |-> IF m = {} THEN 0 ELSE target,
                   conflict |-> conflicting]
<1>0. SyncPlan(s, c) = new
  BY DEF SyncPlan
<1>1. c \in Candidate
  BY SyncerAssumption
<1>2. m \subseteq Ids
  BY DEF Matches
<1>3. m # {} => target \in m
  OBVIOUS
<1>4. conflicting \in {0} \cup m
  OBVIOUS
<1>5. Ids \subseteq Nat
  BY DEF TypeInv, TypeOK, Ids
<1>6. /\ kind \in {"create", "update", "unmodified", "limit"}
      /\ kind \in {"update", "unmodified"} => m # {}
  OBVIOUS
<1>7. /\ new \in Plan
      /\ new.target \in {0} \cup Ids
      /\ new.conflict \in {0} \cup Ids
      /\ new.kind \in {"update", "unmodified"} => new.target \in Ids
  BY <1>1, <1>2, <1>3, <1>4, <1>5, <1>6 DEF Plan
<1>8. CASE s \in PublicOnly /\ c.private
  BY <1>8 DEF TypeInv, TypeOK, PlanInStore, JobHeld, ReceiveRepo, Ids
<1>9. CASE ~(s \in PublicOnly /\ c.private)
  <2>1. plan' = [plan EXCEPT ![h] = new] /\ pc' = [pc EXCEPT ![h] = "apply"]
    BY <1>0, <1>9 DEF ReceiveRepo
  <2>0. /\ items' = [items EXCEPT ![h] = @ + 1]
        /\ UNCHANGED <<repos, job, seen, errs, pending, view, started, streamErrs>>
    BY DEF ReceiveRepo
  <2>2a. plan' \in [Handlers -> Plan] /\ pc' \in [Handlers -> Steps]
    BY <1>7, <2>1 DEF TypeInv, TypeOK, Steps
  <2>2b. items' \in [Handlers -> Nat]
    BY <2>0 DEF TypeInv, TypeOK
  <2>2. TypeOK'
    BY <2>0, <2>2a, <2>2b DEF TypeInv, TypeOK
  <2>3. PlanInStore'
    BY <1>6, <1>7, <2>0, <2>1 DEF TypeInv, TypeOK, PlanInStore, Ids
  <2>4. JobHeld'
    BY <2>0, <2>1 DEF TypeInv, TypeOK, JobHeld
  <2>5. QED
    BY <2>2, <2>3, <2>4 DEF TypeInv
<1>10. QED
  BY <1>8, <1>9

LEMMA ApplyCommitTypeInv ==
  ASSUME TypeInv, NEW h \in Handlers, ApplyCommit(h)
  PROVE  TypeInv'
<1> DEFINE p == plan[h]
           s == job[h]
           c == p.repo
           DR == IF p.conflict = 0 THEN repos
                 ELSE [repos EXCEPT ![p.conflict] = SoftDeleted(@)]
           \* what every outcome of the write leaves behind
           Effects ==
             /\ repos' \in Seq(Row) /\ DOMAIN repos \subseteq DOMAIN repos'
             /\ pending' \in [Handlers -> Diff]
             /\ seen' \in [Handlers -> SUBSET Nat]
             /\ errs' \in [Handlers -> SUBSET ErrKinds]
             /\ pc' \in [Handlers -> Steps] /\ pc'[h] \notin {"idle", "apply"}
             /\ \A g \in Handlers \ {h} : pc'[g] = pc[g]
<1>1. /\ p \in Plan /\ s \in Svcs /\ c \in Candidate
      /\ p.kind \in {"create", "update", "unmodified", "limit"}
      /\ p.conflict \in {0} \cup Ids
      /\ p.kind \in {"update", "unmodified"} => p.target \in Ids
      /\ Ids \subseteq Nat
  BY DEF ApplyCommit, TypeInv, TypeOK, PlanInStore, JobHeld, Plan, Ids
<1>2. DR \in Seq(Row) /\ DOMAIN DR = DOMAIN repos
  <2>1. CASE p.conflict = 0
    BY <2>1 DEF TypeInv, TypeOK
  <2>2. CASE p.conflict # 0
    <3>1. p.conflict \in DOMAIN repos /\ repos[p.conflict] \in Row
      BY <1>1, <2>2 DEF TypeInv, TypeOK, Ids
    <3>2. SoftDeleted(repos[p.conflict]) \in Row
      BY <3>1, SoftDeletedType
    <3>3. QED
      BY <2>2, <3>1, <3>2, ExceptRow DEF TypeInv, TypeOK
  <2>3. QED
    BY <2>1, <2>2
<1>2a. plan' = [plan EXCEPT ![h] = NoPlan]
       /\ UNCHANGED <<job, items, view, started, streamErrs>>
  BY DEF ApplyCommit
<1>5. ASSUME p.kind = "limit" PROVE Effects
  <2>1. /\ errs' = [errs EXCEPT ![h] = @ \cup {"limit"}]
        /\ pc' = [pc EXCEPT ![h] = "prune"]
        /\ UNCHANGED <<repos, pending, seen>>
    BY <1>5 DEF ApplyCommit
  <2>2. QED
    BY <2>1 DEF TypeInv, TypeOK, Steps, ErrKinds
<1>6. ASSUME p.kind = "unmodified" PROVE Effects
  <2>1. [EmptyDiff EXCEPT !.unmodified = {p.target}] \in Diff
        /\ DiffRepos([EmptyDiff EXCEPT !.unmodified = {p.target}]) \subseteq Nat
    BY <1>1, <1>6 DEF EmptyDiff, Diff, DiffRepos
  <2>2. /\ repos' = DR
        /\ pending' = [pending EXCEPT ![h] = [EmptyDiff EXCEPT !.unmodified = {p.target}]]
        /\ seen' = [seen EXCEPT ![h] = @ \cup DiffRepos([EmptyDiff EXCEPT !.unmodified = {p.target}])]
        /\ pc' = [pc EXCEPT ![h] = "publish"] /\ UNCHANGED errs
    BY <1>6 DEF ApplyCommit, Commits, WrittenRepos, WrittenDiff, DropConflict
  <2>3. QED
    BY <1>2, <2>1, <2>2 DEF TypeInv, TypeOK, Steps, ErrKinds
<1>7. ASSUME p.kind = "update" PROVE Effects
  <2>1. CASE Unique(c, p.target, p.conflict)
    <3> DEFINE rs == [DR EXCEPT ![p.target] = Sourced(DR[p.target], c, s)]
               d == [EmptyDiff EXCEPT !.modified = {p.target}]
    <3>1. p.target \in DOMAIN DR /\ DR[p.target] \in Row
      BY <1>1, <1>2, <1>7 DEF Ids
    <3>2. Sourced(DR[p.target], c, s) \in Row
      BY <1>1, <3>1, SourcedType
    <3>3. rs \in Seq(Row) /\ DOMAIN rs = DOMAIN repos
      BY <1>2, <3>1, <3>2, ExceptRow
    <3>4. d \in Diff /\ DiffRepos(d) \subseteq Nat
      BY <1>1, <1>7 DEF EmptyDiff, Diff, DiffRepos
    <3>5. /\ repos' = rs /\ pending' = [pending EXCEPT ![h] = d]
          /\ seen' = [seen EXCEPT ![h] = @ \cup DiffRepos(d)]
          /\ pc' = [pc EXCEPT ![h] = "publish"] /\ UNCHANGED errs
      BY <1>7, <2>1 DEF ApplyCommit, Commits, WrittenRepos, WrittenDiff, DropConflict
    <3>6. QED
      BY <3>3, <3>4, <3>5 DEF TypeInv, TypeOK, Steps, ErrKinds
  <2>2. CASE ~Unique(c, p.target, p.conflict)
    <3>1. /\ errs' = [errs EXCEPT ![h] = @ \cup {"store"}]
          /\ pc' = [pc EXCEPT ![h] = "stream"]
          /\ UNCHANGED <<repos, pending, seen>>
      BY <1>7, <2>2 DEF ApplyCommit, Commits, WrittenRepos, WrittenDiff, DropConflict
    <3>2. QED
      BY <3>1 DEF TypeInv, TypeOK, Steps, ErrKinds
  <2>3. QED
    BY <2>1, <2>2
<1>8. ASSUME p.kind = "create" PROVE Effects
  <2>1. CASE Unique(c, 0, 0)
    <3> DEFINE rs == Append(repos, NewRow(c, s))
               d == [EmptyDiff EXCEPT !.added = {Len(repos) + 1}]
    <3>1. NewRow(c, s) \in Row
      BY <1>1, NewRowType
    <3>2. rs \in Seq(Row) /\ DOMAIN repos \subseteq DOMAIN rs /\ Len(repos) + 1 \in Nat
      BY <3>1, AppendRow DEF TypeInv, TypeOK
    <3>3. d \in Diff /\ DiffRepos(d) \subseteq Nat
      BY <3>2 DEF EmptyDiff, Diff, DiffRepos
    <3>4. /\ repos' = rs /\ pending' = [pending EXCEPT ![h] = d]
          /\ seen' = [seen EXCEPT ![h] = @ \cup DiffRepos(d)]
          /\ pc' = [pc EXCEPT ![h] = "publish"] /\ UNCHANGED errs
      BY <1>8, <2>1 DEF ApplyCommit, Commits, WrittenRepos, WrittenDiff, DropConflict
    <3>5. QED
      BY <3>2, <3>3, <3>4 DEF TypeInv, TypeOK, Steps, ErrKinds
  <2>2. CASE ~Unique(c, 0, 0)
    <3>1. /\ errs' = [errs EXCEPT ![h] = @ \cup {"store"}]
          /\ pc' = [pc EXCEPT ![h] = "stream"]
          /\ UNCHANGED <<repos, pending, seen>>
      BY <1>8, <2>2 DEF ApplyCommit, Commits, WrittenRepos, WrittenDiff, DropConflict
    <3>2. QED
      BY <3>1 DEF TypeInv, TypeOK, Steps, ErrKinds
  <2>3. QED
    BY <2>1, <2>2
<1>8a. Effects
  BY <1>1, <1>5, <1>6, <1>7, <1>8
<1>9. TypeOK'
  BY <1>8a, <1>2a, NoPlanType DEF TypeInv, TypeOK
<1>10. PlanInStore'
  BY <1>8a, <1>2a DEF TypeInv, TypeOK, PlanInStore, NoPlan, Ids
<1>11. JobHeld'
  BY <1>1, <1>8a, <1>2a DEF TypeInv, TypeOK, JobHeld
<1>12. QED
  BY <1>9, <1>10, <1>11 DEF TypeInv

LEMMA ApplyFailTypeInv ==
  ASSUME TypeInv, NEW h \in Handlers, ApplyFail(h)
  PROVE  TypeInv'
<1>1. TypeOK'
  BY NoPlanType DEF TypeInv, TypeOK, ApplyFail, Steps, ErrKinds
<1>2. PlanInStore'
  BY DEF TypeInv, TypeOK, PlanInStore, ApplyFail, NoPlan, Ids
<1>3. JobHeld'
  BY DEF TypeInv, TypeOK, JobHeld, ApplyFail
<1>4. QED
  BY <1>1, <1>2, <1>3 DEF TypeInv

LEMMA CloseStreamTypeInv ==
  ASSUME TypeInv, NEW h \in Handlers, CloseStream(h)
  PROVE  TypeInv'
<1>1. TypeOK'
  BY DEF TypeInv, TypeOK, CloseStream, Steps
<1>2. PlanInStore'
  BY DEF TypeInv, TypeOK, PlanInStore, CloseStream, Ids
<1>3. JobHeld'
  BY DEF TypeInv, TypeOK, JobHeld, CloseStream
<1>4. QED
  BY <1>1, <1>2, <1>3 DEF TypeInv

LEMMA PruneTypeInv ==
  ASSUME TypeInv, NEW h \in Handlers, Prune(h)
  PROVE  TypeInv'
<1> DEFINE s == job[h]
           unseen == {i \in Live : s \in repos[i].svcs /\ i \notin seen[h]}
           gone == {i \in unseen : repos[i].svcs = {s}}
           shrink(i) == IF i \in gone THEN SoftDeleted(repos[i])
                        ELSE [repos[i] EXCEPT !.svcs = @ \ {s}]
           rebuilt == [i \in Ids |-> IF i \in unseen THEN shrink(i) ELSE repos[i]]
<1>1. \A i \in Ids : repos[i] \in Row
  BY DEF TypeInv, TypeOK, Ids
<1>2. \A i \in Ids : shrink(i) \in Row
  <2> TAKE i \in Ids
  <2>1. SoftDeleted(repos[i]) \in Row
    BY <1>1, SoftDeletedType
  <2>2. [repos[i] EXCEPT !.svcs = @ \ {s}] \in Row
    BY <1>1 DEF Row
  <2>3. QED
    BY <2>1, <2>2
<1>3. rebuilt \in Seq(Row) /\ DOMAIN rebuilt = DOMAIN repos
  <2>1. rebuilt \in [DOMAIN repos -> Row]
    BY <1>1, <1>2 DEF Ids
  <2>2. QED
    BY <2>1, RebuiltTable DEF TypeInv, TypeOK
<1>4. gone \subseteq Nat /\ [EmptyDiff EXCEPT !.deleted = gone] \in Diff
  <2>1. Ids \subseteq Nat
    BY DEF TypeInv, TypeOK, Ids
  <2>2. QED
    BY <2>1 DEF Live, EmptyDiff, Diff
<1>5. /\ repos' \in Seq(Row) /\ DOMAIN repos' = DOMAIN repos
      /\ pending' \in [Handlers -> Diff]
      /\ \/ pc' = [pc EXCEPT ![h] = "idle"] /\ job' = [job EXCEPT ![h] = NoSvc]
         \/ pc' = [pc EXCEPT ![h] = "notify"] /\ job' = job
  BY <1>3, <1>4 DEF Prune, TypeInv, TypeOK
<1>6. TypeOK'
  BY <1>5 DEF TypeInv, TypeOK, Prune, Steps
<1>7. PlanInStore'
  BY <1>5 DEF TypeInv, TypeOK, PlanInStore, Prune, Ids
<1>8. JobHeld'
  BY <1>5 DEF TypeInv, TypeOK, JobHeld, Prune
<1>9. QED
  BY <1>6, <1>7, <1>8 DEF TypeInv

LEMMA ConsumeSyncedTypeInv ==
  ASSUME TypeInv, NEW h \in Handlers, ConsumeSynced(h)
  PROVE  TypeInv'
<1>1. view' \in SUBSET Nat /\ pending' \in [Handlers -> Diff]
  BY EmptyDiffType DEF TypeInv, TypeOK, ConsumeSynced, UpdateFromDiff, Diff
<1>2. \/ pc' = [pc EXCEPT ![h] = "stream"] /\ job' = job
      \/ pc' = [pc EXCEPT ![h] = "idle"] /\ job' = [job EXCEPT ![h] = NoSvc]
  BY DEF ConsumeSynced
<1>3. TypeOK'
  BY <1>1, <1>2 DEF TypeInv, TypeOK, ConsumeSynced, Steps
<1>4. PlanInStore'
  BY <1>2 DEF TypeInv, TypeOK, PlanInStore, ConsumeSynced, Ids
<1>5. JobHeld'
  BY <1>2 DEF TypeInv, TypeOK, JobHeld, ConsumeSynced
<1>6. QED
  BY <1>3, <1>4, <1>5 DEF TypeInv

LEMMA NextTypeInv == TypeInv /\ [Next]_vars => TypeInv'
<1> SUFFICES ASSUME TypeInv, [Next]_vars PROVE TypeInv'
  OBVIOUS
<1>1. CASE InitialUnmodifiedDiffFromStore
  BY <1>1, InitialDiffTypeInv
<1>2. ASSUME NEW h \in Handlers,
             \/ \E s \in Svcs : StartPass(h, s)
             \/ \E e \in SourceErrs : ReceiveError(h, e)
             \/ job[h] \in Svcs /\ \E c \in Listing[job[h]] : ReceiveRepo(h, c)
             \/ ApplyCommit(h)
             \/ ApplyFail(h)
             \/ CloseStream(h)
             \/ Prune(h)
             \/ ConsumeSynced(h)
      PROVE  TypeInv'
  BY <1>2, StartPassTypeInv, ReceiveErrorTypeInv, ReceiveRepoTypeInv,
     ApplyCommitTypeInv, ApplyFailTypeInv, CloseStreamTypeInv, PruneTypeInv,
     ConsumeSyncedTypeInv
<1>3. CASE UNCHANGED vars
  BY <1>3 DEF vars, TypeInv, TypeOK, PlanInStore, JobHeld, Ids
<1>4. QED
  BY <1>1, <1>2, <1>3 DEF Next

(* No step of the passes removes an ID from the repo table. *)
LEMMA NextIdsGrow ==
  ASSUME TypeInv, [Next]_vars
  PROVE  Ids \subseteq DOMAIN repos'
<1>1. ASSUME NEW h \in Handlers, ApplyCommit(h)
      PROVE  Ids \subseteq DOMAIN repos'
  <2> DEFINE p == plan[h]
  <2>1. CASE p.kind # "limit" /\ Commits(p)
    <3>1. /\ p \in Plan /\ job[h] \in Svcs /\ repos \in Seq(Row)
          /\ p.kind \in {"create", "update", "unmodified"}
          /\ p.kind \in {"update", "unmodified"} => p.target \in Ids
          /\ p.conflict \in {0} \cup Ids
      BY <1>1, <2>1 DEF ApplyCommit, TypeInv, TypeOK, PlanInStore, JobHeld, Commits
    <3>2. QED
      BY <1>1, <2>1, <3>1, WrittenType DEF ApplyCommit
  <2>2. CASE ~(p.kind # "limit" /\ Commits(p))
    BY <1>1, <2>2 DEF ApplyCommit, Ids
  <2>3. QED
    BY <2>1, <2>2
<1>2. ASSUME NEW h \in Handlers, Prune(h)
      PROVE  Ids \subseteq DOMAIN repos'
  BY <1>2 DEF Prune, Ids
<1>3. CASE UNCHANGED repos
  BY <1>3 DEF Ids
<1>4. QED
  BY <1>1, <1>2, <1>3 DEF Next, vars, InitialUnmodifiedDiffFromStore, StartPass,
     ReceiveError, ReceiveRepo, ApplyFail, CloseStream, ConsumeSynced

(* Every state the syncer reaches is well typed: the repo table is a      *)
(* sequence of rows whose services are external services, every plan and *)
(* every pending Diff is well formed, whatever the handlers, services,   *)
(* listings and limits (SyncExternalService, sync, delete, watchSyncer).  *)
THEOREM TypeCorrect == Spec => []TypeOK
<1>1. Init => TypeInv
  BY InitTypeInv
<1>2. TypeInv /\ [Next]_vars => TypeInv'
  BY NextTypeInv
<1>3. TypeInv => TypeOK
  BY DEF TypeInv
<1>4. QED
  BY <1>1, <1>2, <1>3, PTL DEF Spec

-----------------------------------------------------------------------------
(* Deletion safety *)

(* The source errors of a pass are in errs exactly when they are in       *)
(* streamErrs: ReceiveError adds a source error to both, the store errors *)
(* of ApplyCommit and ApplyFail ("limit", "store") go to errs only, and   *)
(* StartPass clears both.  Prune decides on errs, PruneSafety speaks of    *)
(* streamErrs, and this is the link between the two.                      *)
ErrsRecorded ==
  \A h \in Handlers : errs[h] \cap SourceErrs = streamErrs[h]

(* The part of the type invariant the deletion-safety argument needs:    *)
(* the steps of the handlers and their error sets are functions on the    *)
(* handlers.  The lazy syncs leave all three alone.                        *)
Shape ==
  /\ pc \in [Handlers -> Steps]
  /\ errs \in [Handlers -> SUBSET ErrKinds]
  /\ streamErrs \in [Handlers -> SUBSET SourceErrs]

ErrsInv == Shape /\ ErrsRecorded

LEMMA InitErrsRecorded == Init => ErrsRecorded
  BY DEF Init, ErrsRecorded

LEMMA InitShape == Init => Shape
  BY DEF Init, Shape, Steps

LEMMA NextShape ==
  ASSUME Shape, [Next]_vars
  PROVE  Shape'
<1>1. CASE InitialUnmodifiedDiffFromStore \/ UNCHANGED vars
  BY <1>1 DEF InitialUnmodifiedDiffFromStore, vars, Shape
<1>2. ASSUME NEW h \in Handlers, NEW s \in Svcs, StartPass(h, s)
      PROVE  Shape'
  BY <1>2 DEF StartPass, Shape, Steps
<1>3. ASSUME NEW h \in Handlers, NEW e \in SourceErrs, ReceiveError(h, e)
      PROVE  Shape'
  BY <1>3 DEF ReceiveError, Shape, Steps, SourceErrs, ErrKinds
<1>4. ASSUME NEW h \in Handlers, NEW c, ReceiveRepo(h, c)
      PROVE  Shape'
  BY <1>4 DEF ReceiveRepo, Shape, Steps
<1>5. ASSUME NEW h \in Handlers, ApplyCommit(h)
      PROVE  Shape'
  <2>1. \/ errs' = errs
        \/ \E e \in {"limit", "store"} : errs' = [errs EXCEPT ![h] = @ \cup {e}]
    BY <1>5 DEF ApplyCommit
  <2>2. \E st \in {"prune", "stream", "publish"} : pc' = [pc EXCEPT ![h] = st]
    BY <1>5 DEF ApplyCommit
  <2>3. streamErrs' = streamErrs
    BY <1>5 DEF ApplyCommit
  <2>4. QED
    BY <2>1, <2>2, <2>3 DEF Shape, Steps, ErrKinds
<1>6. ASSUME NEW h \in Handlers, ApplyFail(h) \/ CloseStream(h)
      PROVE  Shape'
  BY <1>6 DEF ApplyFail, CloseStream, Shape, Steps, ErrKinds
<1>7. ASSUME NEW h \in Handlers, Prune(h) \/ ConsumeSynced(h)
      PROVE  Shape'
  <2>1. \E st \in {"idle", "notify", "stream"} : pc' = [pc EXCEPT ![h] = st]
    BY <1>7 DEF Prune, ConsumeSynced
  <2>2. QED
    BY <1>7, <2>1 DEF Prune, ConsumeSynced, Shape, Steps
<1>8. QED
  BY <1>1, <1>2, <1>3, <1>4, <1>5, <1>6, <1>7 DEF Next

LEMMA NextErrsRecorded ==
  ASSUME Shape, ErrsRecorded, [Next]_vars
  PROVE  ErrsRecorded'
<1>1. CASE InitialUnmodifiedDiffFromStore
  BY <1>1 DEF InitialUnmodifiedDiffFromStore, ErrsRecorded
<1>2. CASE UNCHANGED vars
  BY <1>2 DEF vars, ErrsRecorded
<1>3. ASSUME NEW h \in Handlers, NEW s \in Svcs, StartPass(h, s)
      PROVE  ErrsRecorded'
  BY <1>3 DEF StartPass, Shape, ErrsRecorded
<1>4. ASSUME NEW h \in Handlers, NEW e \in SourceErrs, ReceiveError(h, e)
      PROVE  ErrsRecorded'
  BY <1>4 DEF ReceiveError, Shape, ErrsRecorded
<1>5. ASSUME NEW h \in Handlers, NEW c, ReceiveRepo(h, c)
      PROVE  ErrsRecorded'
  BY <1>5 DEF ReceiveRepo, ErrsRecorded
<1>6. ASSUME NEW h \in Handlers, ApplyCommit(h)
      PROVE  ErrsRecorded'
  <2>1. \/ errs' = errs
        \/ \E e \in {"limit", "store"} : errs' = [errs EXCEPT ![h] = @ \cup {e}]
    BY <1>6 DEF ApplyCommit
  <2>2. streamErrs' = streamErrs
    BY <1>6 DEF ApplyCommit
  <2>3. QED
    BY <2>1, <2>2 DEF Shape, ErrsRecorded, SourceErrs
<1>7. ASSUME NEW h \in Handlers, ApplyFail(h)
      PROVE  ErrsRecorded'
  BY <1>7 DEF ApplyFail, Shape, ErrsRecorded, SourceErrs
<1>8. ASSUME NEW h \in Handlers, CloseStream(h) \/ Prune(h) \/ ConsumeSynced(h)
      PROVE  ErrsRecorded'
  BY <1>8 DEF CloseStream, Prune, ConsumeSynced, ErrsRecorded
<1>9. QED
  BY <1>1, <1>2, <1>3, <1>4, <1>5, <1>6, <1>7, <1>8 DEF Next

(* In a step where handler h leaves its "prune" step, the step is h's     *)
(* Prune: every other action of h starts from another step, and the      *)
(* actions of the other handlers leave pc[h] alone.                        *)
LEMMA LeavesPrune ==
  ASSUME Shape, [Next]_vars, NEW h \in Handlers,
         pc[h] = "prune", pc'[h] # "prune"
  PROVE  Prune(h)
<1> SUFFICES ASSUME NEW g \in Handlers,
                    \/ \E s \in Svcs : StartPass(g, s)
                    \/ \E e \in SourceErrs : ReceiveError(g, e)
                    \/ job[g] \in Svcs /\ \E c \in Listing[job[g]] : ReceiveRepo(g, c)
                    \/ ApplyCommit(g)
                    \/ ApplyFail(g)
                    \/ CloseStream(g)
                    \/ Prune(g)
                    \/ ConsumeSynced(g)
             PROVE  Prune(h)
  BY DEF Next, vars, InitialUnmodifiedDiffFromStore
<1>1. CASE g # h
  <2>1. pc'[h] = pc[h]
    BY <1>1 DEF Shape, StartPass, ReceiveError, ReceiveRepo, ApplyCommit,
               ApplyFail, CloseStream, Prune, ConsumeSynced
  <2>2. QED
    BY <2>1
<1>2. CASE g = h
  BY <1>2 DEF StartPass, ReceiveError, ReceiveRepo, ApplyCommit, ApplyFail,
              CloseStream, ConsumeSynced
<1>3. QED
  BY <1>1, <1>2

(* Every step of the passes keeps to deletion safety. *)
LEMMA PruneStepSafe == ErrsInv /\ [Next]_vars => PruneSafe
<1> SUFFICES ASSUME ErrsInv, [Next]_vars, NEW h \in Handlers,
                    pc[h] = "prune", pc'[h] # "prune",
                    streamErrs[h] # {},
                    IsSiteOwned(job[h]) \/ "fatal" \notin streamErrs[h]
             PROVE  repos' = repos
  BY DEF PruneSafe
<1>1. Prune(h)
  BY LeavesPrune DEF ErrsInv
<1>2. ~(errs[h] = {} \/ (~IsSiteOwned(job[h]) /\ "fatal" \in errs[h]))
  BY DEF ErrsInv, ErrsRecorded, SourceErrs
<1>3. QED
  BY <1>1, <1>2 DEF Prune

(* Deletion safety of SyncExternalService: a pass whose source reported  *)
(* an error removes no repo from its service at its end, unless the error *)
(* was fatal and the service belongs to a user or an org, for any number  *)
(* of handlers, services and repos.                                        *)
THEOREM PruneSafetyHolds == Spec => PruneSafety
<1>1. Init => ErrsInv
  BY InitShape, InitErrsRecorded DEF ErrsInv
<1>2. ErrsInv /\ [Next]_vars => ErrsInv'
  BY NextShape, NextErrsRecorded DEF ErrsInv
<1>3. ErrsInv /\ [Next]_vars => PruneSafe
  BY PruneStepSafe
<1>4. QED
  BY <1>1, <1>2, <1>3, PTL DEF Spec, PruneSafety


=============================================================================

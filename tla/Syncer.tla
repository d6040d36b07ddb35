------------------------------- MODULE Syncer -------------------------------
(***************************************************************************)
(* The reconciliation passes of the repo syncer (internal/repos/syncer.go) *)
(* run by a pool of worker handlers, the repo store they share, and the    *)
(* Synced channel read by the clone scheduler (watchSyncer in              *)
(* cmd/repo-updater/shared/main.go).                                       *)
(*                                                                         *)
(* A handler dequeues the job of one external service and runs            *)
(* SyncExternalService: it drains the stream of the service's source; for *)
(* every sourced repo it runs sync(), one transaction that looks the repo *)
(* up by name OR external spec and then creates, updates or leaves the    *)
(* stored row, and publishes the one-repo Diff on Synced after the commit;*)
(* at the end it removes the service from every repo it did not see,      *)
(* unless errors forbid it, and publishes the deleted repos.              *)
(*                                                                         *)
(* The lookup and the write of a transaction are separate steps: the      *)
(* store runs at READ COMMITTED, so another handler's transaction can     *)
(* commit in between; the unique constraints on the name and the external *)
(* spec of a row are checked when the write commits.  Repos are deleted   *)
(* softly: the row keeps its spec, frees its name and loses every         *)
(* service, and it can be matched again by spec and revived.              *)
(***************************************************************************)
EXTENDS Integers, Sequences, FiniteSets

CONSTANTS
  Handlers,       \* the worker's handler goroutines (NumHandlers)
  Svcs,           \* external services
  Names,          \* repo names
  Specs,          \* external repo specs (service type, service id, external id)
  Metas,          \* the other fields of a repo that Repo.Update compares
  Namespaces,     \* users and orgs, and the site
  NamespaceOf,    \* [Svcs -> Namespaces]: who owns a service
  SiteNamespace,  \* the namespace of site-owned services
  CloudDefault,   \* the cloud-default services, never synced in full
  PublicOnly,     \* user services whose user may not add private code
  Listing,        \* [Svcs -> SUBSET Candidate]: what each source may report
  InitRepos,      \* the rows of the store when the syncer starts
  IsCloud,        \* RunOptions.IsCloud
  SiteLimit,      \* userReposMaxPerSite
  UserLimit,      \* userReposMaxPerUser
  NoName,         \* the name a soft-deleted row is left with
  NoSvc,          \* the job of an idle handler
  MaxItems        \* bound: items one pass takes from its stream

(* A repo as a source reports it. *)
Candidate == [name : Names, spec : Specs, meta : Metas, private : BOOLEAN]

(* A stored row; svcs is the set of services the repo is associated with. *)
Row == [name : Names \cup {NoName}, spec : Specs, meta : Metas,
        private : BOOLEAN, svcs : SUBSET Svcs, deleted : BOOLEAN]

(* The error kinds a pass records: from the source, of the repo limit, of *)
(* the store.  Unauthorized, forbidden and account-suspended are "fatal". *)
ErrKinds == {"transient", "fatal", "limit", "store"}
SourceErrs == {"transient", "fatal"}

ASSUME SyncerAssumption ==
  /\ Names # {} /\ Specs # {} /\ Metas # {}
  /\ SiteNamespace \in Namespaces /\ NamespaceOf \in [Svcs -> Namespaces]
  /\ CloudDefault \subseteq Svcs /\ PublicOnly \subseteq Svcs
  /\ Listing \in [Svcs -> SUBSET Candidate]
  /\ InitRepos \in Seq(Row)
  /\ IsCloud \in BOOLEAN
  /\ SiteLimit \in Nat /\ UserLimit \in Nat
  /\ NoName \notin Names /\ NoSvc \notin Svcs
  /\ MaxItems \in Nat

IsSiteOwned(s) == NamespaceOf[s] = SiteNamespace

(* The Diff of syncer.go, holding repo IDs. *)
Diff == [added : SUBSET Nat, modified : SUBSET Nat,
         deleted : SUBSET Nat, unmodified : SUBSET Nat]
EmptyDiff == [added |-> {}, modified |-> {}, deleted |-> {}, unmodified |-> {}]
DiffRepos(d) == d.added \cup d.modified \cup d.deleted \cup d.unmodified

(* The write a transaction decided on when it looked the repo up. *)
NoPlan == [kind |-> "none", repo |-> CHOOSE c \in Candidate : TRUE,
           target |-> 0, conflict |-> 0]
Plan == [kind : {"none", "create", "update", "unmodified", "limit"},
         repo : Candidate, target : Nat, conflict : Nat]

VARIABLES
  repos,      \* the repo table: a sequence of rows, indexed by repo ID
  pc,         \* [Handlers -> step] where each handler is in its job
  job,        \* [Handlers -> Svcs \cup {NoSvc}]: the service being synced
  seen,       \* [Handlers -> SUBSET Nat]: IDs touched by this pass
  errs,       \* [Handlers -> SUBSET ErrKinds]: the errors of this pass
  items,      \* [Handlers -> Nat]: items taken from the stream so far
  plan,       \* [Handlers -> Plan]: the transaction in flight
  pending,    \* [Handlers -> Diff]: the Diff waiting to be sent on Synced
  view,       \* the repo IDs the clone scheduler knows of
  started,    \* the initial Diff has been sent and the worker started
  streamErrs  \* [Handlers -> SUBSET SourceErrs]: history, errors the
              \* source reported in this pass

vars == <<repos, pc, job, seen, errs, items, plan, pending, view, started,
          streamErrs>>

Ids == DOMAIN repos
Live == {i \in Ids : ~repos[i].deleted}

Steps == {"idle", "stream", "apply", "publish", "prune", "notify"}

TypeOK ==
  /\ repos \in Seq(Row)
  /\ pc \in [Handlers -> Steps]
  /\ job \in [Handlers -> Svcs \cup {NoSvc}]
  /\ seen \in [Handlers -> SUBSET Nat]
  /\ errs \in [Handlers -> SUBSET ErrKinds]
  /\ items \in [Handlers -> Nat]
  /\ plan \in [Handlers -> Plan]
  /\ pending \in [Handlers -> Diff]
  /\ view \in SUBSET Nat
  /\ started \in BOOLEAN
  /\ streamErrs \in [Handlers -> SUBSET SourceErrs]

Init ==
  /\ repos = InitRepos
  /\ pc = [h \in Handlers |-> "idle"]
  /\ job = [h \in Handlers |-> NoSvc]
  /\ seen = [h \in Handlers |-> {}]
  /\ errs = [h \in Handlers |-> {}]
  /\ items = [h \in Handlers |-> 0]
  /\ plan = [h \in Handlers |-> NoPlan]
  /\ pending = [h \in Handlers |-> EmptyDiff]
  /\ view = {}
  /\ started = FALSE
  /\ streamErrs = [h \in Handlers |-> {}]

-----------------------------------------------------------------------------
(* Store helpers *)

(* tx.RepoStore.List with Names, ExternalRepos, IncludeDeleted and UseOr. *)
Matches(c) == {i \in Ids : repos[i].name = c.name \/ repos[i].spec = c.spec}

(* Repo.Update: whether the stored row differs from the sourced repo for   *)
(* service s (a field, the association with s, or the deleted mark).      *)
Differs(r, c, s) ==
  \/ r.name # c.name \/ r.spec # c.spec \/ r.meta # c.meta
  \/ r.private # c.private \/ s \notin r.svcs \/ r.deleted

(* CountNamespacedRepos(0, 0) and CountNamespacedRepos(user, org). *)
SiteAdded == Cardinality({i \in Live : \E t \in repos[i].svcs : ~IsSiteOwned(t)})
NamespaceAdded(ns) == Cardinality({i \in Live : \E t \in repos[i].svcs : NamespaceOf[t] = ns})

(* The two unique constraints of the repo table hold of table rs: no two *)
(* rows share an external spec, and no two rows with a name share it      *)
(* (soft-deleted rows have given up their name).                          *)
KeysUnique(rs) ==
  \A i, j \in DOMAIN rs :
    i # j => /\ rs[i].spec # rs[j].spec
             /\ (rs[i].name # NoName => rs[i].name # rs[j].name)

(* The table the syncer starts from was written under the constraints. *)
ASSUME InitReposUnique == KeysUnique(InitRepos)

(* A soft-deleted copy of a row: RepoStore.Delete. *)
SoftDeleted(r) == [r EXCEPT !.name = NoName, !.svcs = {}, !.deleted = TRUE]

(* The row a sourced repo becomes for service s: UpdateExternalServiceRepo *)
(* and CreateExternalServiceRepo.                                          *)
Sourced(r, c, s) ==
  [name |-> c.name, spec |-> c.spec, meta |-> c.meta, private |-> c.private,
   svcs |-> r.svcs \cup {s}, deleted |-> FALSE]
NewRow(c, s) ==
  [name |-> c.name, spec |-> c.spec, meta |-> c.meta, private |-> c.private,
   svcs |-> {s}, deleted |-> FALSE]

(* The unique constraints, for a row written at ID i (0 for a new row)    *)
(* while the row at ID x (0 if none) is deleted in the same transaction:  *)
(* the delete frees x's name, but the soft-deleted row keeps its external *)
(* spec, which the constraint on specs still sees.                        *)
Unique(c, i, x) ==
  \A j \in Ids \ {i} : repos[j].spec # c.spec /\ (j # x => repos[j].name # c.name)

(* The clone scheduler applying a Diff (UpdateFromDiff).                   *)
UpdateFromDiff(v, d) == (v \ d.deleted) \cup d.added \cup d.modified \cup d.unmodified

(* The transaction of sync() for sourced repo c of service s, as the     *)
(* lookup leaves it: the row matched by spec if any (existing), else the   *)
(* only match; the row matched by name only when there are two            *)
(* (conflicting); and the write, which for a new repo of a user or org    *)
(* service is refused when the counts reach a limit.                       *)
SyncPlan(s, c) ==
  LET m == Matches(c)
      target == IF \E i \in m : repos[i].spec = c.spec
                THEN CHOOSE i \in m : repos[i].spec = c.spec
                ELSE CHOOSE i \in m : TRUE
      conflicting == IF \E i \in m : i # target THEN CHOOSE i \in m : i # target ELSE 0
      kind ==
        IF m = {}
        THEN IF ~IsSiteOwned(s) /\ (SiteAdded >= SiteLimit \/
                                    NamespaceAdded(NamespaceOf[s]) >= UserLimit)
             THEN "limit" ELSE "create"
        ELSE IF Differs(repos[target], c, s) THEN "update" ELSE "unmodified"
  IN  [kind |-> kind, repo |-> c,
       target |-> IF m = {} THEN 0 ELSE target, conflict |-> conflicting]

(* The repo table with the conflicting row of plan p deleted. *)
DropConflict(p) ==
  IF p.conflict = 0 THEN repos ELSE [repos EXCEPT ![p.conflict] = SoftDeleted(@)]

(* Mutant: the insert of a new repo is not checked against the unique    *)
(* constraints (a table without them).                                     *)
CommitsNoUnique(p) ==
  \/ p.kind = "unmodified"
  \/ p.kind = "update" /\ Unique(p.repo, p.target, p.conflict)
  \/ p.kind = "create"

(* Whether the write of plan p commits: an update or a create violating   *)
(* a unique constraint fails.                                              *)
Commits(p) ==
  \/ p.kind = "unmodified"
  \/ p.kind = "update" /\ Unique(p.repo, p.target, p.conflict)
  \/ p.kind = "create" /\ Unique(p.repo, 0, 0)

(* The repo table and the Diff a committed write of plan p for service s  *)
(* leaves.                                                                  *)
WrittenRepos(p, s) ==
  CASE p.kind = "unmodified" -> DropConflict(p)
    [] p.kind = "update" -> [DropConflict(p) EXCEPT ![p.target] = Sourced(@, p.repo, s)]
    [] p.kind = "create" -> Append(repos, NewRow(p.repo, s))
WrittenDiff(p) ==
  CASE p.kind = "unmodified" -> [EmptyDiff EXCEPT !.unmodified = {p.target}]
    [] p.kind = "update" -> [EmptyDiff EXCEPT !.modified = {p.target}]
    [] p.kind = "create" -> [EmptyDiff EXCEPT !.added = {Len(repos) + 1}]

-----------------------------------------------------------------------------
(* Actions *)

(* Syncer.Run, before the worker starts: initialUnmodifiedDiffFromStore   *)
(* sends every stored repo as Unmodified (not on Cloud).  When the store's *)
(* List fails (listed = FALSE) it logs the error and sends nothing.        *)
InitialUnmodifiedDiffFromStore ==
  /\ ~started
  /\ started' = TRUE
  /\ \E listed \in BOOLEAN :
       view' = IF IsCloud \/ ~listed THEN view
               ELSE UpdateFromDiff(view, [EmptyDiff EXCEPT !.unmodified = Live])
  /\ UNCHANGED <<repos, pc, job, seen, errs, items, plan, pending, streamErrs>>

(* A handler dequeues the job of service s, which no other handler holds, *)
(* and SyncExternalService starts the source stream.  A cloud-default     *)
(* service returns ErrCloudDefaultSync at once, and so do the failures to *)
(* fetch the service, the user's mode or the source: those jobs change    *)
(* nothing modelled here and are stuttering steps.                        *)
StartPass(h, s) ==
  /\ started
  /\ pc[h] = "idle"
  /\ \A g \in Handlers : job[g] # s
  /\ s \notin CloudDefault
  /\ pc' = [pc EXCEPT ![h] = "stream"]
  /\ job' = [job EXCEPT ![h] = s]
  /\ seen' = [seen EXCEPT ![h] = {}]
  /\ errs' = [errs EXCEPT ![h] = {}]
  /\ items' = [items EXCEPT ![h] = 0]
  /\ streamErrs' = [streamErrs EXCEPT ![h] = {}]
  /\ UNCHANGED <<repos, plan, pending, view, started>>

(* Mutant: a transient source error is logged but not added to errs. *)
ReceiveErrorUnrecorded(h, e) ==
  /\ pc[h] = "stream"
  /\ items[h] < MaxItems
  /\ items' = [items EXCEPT ![h] = @ + 1]
  /\ errs' = IF e = "fatal" THEN [errs EXCEPT ![h] = @ \cup {e}] ELSE errs
  /\ streamErrs' = [streamErrs EXCEPT ![h] = @ \cup {e}]
  /\ IF e = "fatal"
     THEN /\ seen' = [seen EXCEPT ![h] = {}]
          /\ pc' = [pc EXCEPT ![h] = "prune"]
     ELSE UNCHANGED <<seen, pc>>
  /\ UNCHANGED <<repos, job, plan, pending, view, started>>

(* The source reports an error.  A fatal one clears seen and ends the loop. *)
ReceiveError(h, e) ==
  /\ pc[h] = "stream"
  /\ items[h] < MaxItems
  /\ items' = [items EXCEPT ![h] = @ + 1]
  /\ errs' = [errs EXCEPT ![h] = @ \cup {e}]
  /\ streamErrs' = [streamErrs EXCEPT ![h] = @ \cup {e}]
  /\ IF e = "fatal"
     THEN /\ seen' = [seen EXCEPT ![h] = {}]
          /\ pc' = [pc EXCEPT ![h] = "prune"]
     ELSE UNCHANGED <<seen, pc>>
  /\ UNCHANGED <<repos, job, plan, pending, view, started>>

(* The source reports repo c.  If the service may not see it, it is       *)
(* skipped; otherwise sync() opens a transaction, looks c up by name or   *)
(* spec and, for a new repo of a user or org service, counts the repos    *)
(* against the limits, and decides its write.                              *)
ReceiveRepo(h, c) ==
  /\ pc[h] = "stream"
  /\ items[h] < MaxItems
  /\ items' = [items EXCEPT ![h] = @ + 1]
  /\ IF job[h] \in PublicOnly /\ c.private
     THEN UNCHANGED <<pc, plan>>
     ELSE /\ Cardinality(Matches(c)) <= 2
          /\ pc' = [pc EXCEPT ![h] = "apply"]
          /\ plan' = [plan EXCEPT ![h] = SyncPlan(job[h], c)]
  /\ UNCHANGED <<repos, job, seen, errs, pending, view, started, streamErrs>>

(* The write of sync() and its commit.  A repo limit error ends the loop. *)
(* A unique-constraint violation is an error of this repo, and the pass   *)
(* goes on.  After the commit the one-repo Diff waits to be sent.          *)
ApplyCommit(h) ==
  LET p == plan[h]
      fail(e, step) ==
        /\ errs' = [errs EXCEPT ![h] = @ \cup {e}]
        /\ pc' = [pc EXCEPT ![h] = step]
        /\ UNCHANGED <<repos, pending, seen>>
  IN
  /\ pc[h] = "apply"
  /\ plan' = [plan EXCEPT ![h] = NoPlan]
  /\ IF p.kind = "limit" THEN fail("limit", "prune")
     ELSE IF ~Commits(p) THEN fail("store", "stream")
     ELSE /\ repos' = WrittenRepos(p, job[h])
          /\ pending' = [pending EXCEPT ![h] = WrittenDiff(p)]
          /\ seen' = [seen EXCEPT ![h] = @ \cup DiffRepos(WrittenDiff(p))]
          /\ pc' = [pc EXCEPT ![h] = "publish"]
          /\ UNCHANGED errs
  /\ UNCHANGED <<job, items, view, started, streamErrs>>

(* A statement or the commit of sync() fails: the transaction rolls back, *)
(* the error is recorded and the pass goes on with the next repo.          *)
ApplyFail(h) ==
  /\ pc[h] = "apply"
  /\ plan[h].kind # "limit"
  /\ plan' = [plan EXCEPT ![h] = NoPlan]
  /\ errs' = [errs EXCEPT ![h] = @ \cup {"store"}]
  /\ pc' = [pc EXCEPT ![h] = "stream"]
  /\ UNCHANGED <<repos, job, seen, items, pending, view, started, streamErrs>>

(* The source is exhausted and closes the results channel. *)
CloseStream(h) ==
  /\ pc[h] = "stream"
  /\ pc' = [pc EXCEPT ![h] = "prune"]
  /\ UNCHANGED <<repos, job, seen, errs, items, plan, pending, view, started, streamErrs>>

(* The end of SyncExternalService.  With no error, or with a fatal error  *)
(* for a user or org service, the service is removed from every repo it  *)
(* did not see, and repos left with no service are deleted               *)
(* (DeleteExternalServiceReposNotIn); their Diff waits to be sent.  Then *)
(* the next sync time is computed and the service saved (SyncInterval).   *)
Prune(h) ==
  LET s == job[h]
      unseen == {i \in Live : s \in repos[i].svcs /\ i \notin seen[h]}
      gone == {i \in unseen : repos[i].svcs = {s}}
      shrink(i) == IF i \in gone THEN SoftDeleted(repos[i])
                   ELSE [repos[i] EXCEPT !.svcs = @ \ {s}]
  IN
  /\ pc[h] = "prune"
  /\ IF errs[h] = {} \/ (~IsSiteOwned(s) /\ "fatal" \in errs[h])
     THEN /\ repos' = [i \in Ids |-> IF i \in unseen THEN shrink(i) ELSE repos[i]]
          /\ IF gone = {}
             THEN /\ pc' = [pc EXCEPT ![h] = "idle"]
                  /\ job' = [job EXCEPT ![h] = NoSvc]
                  /\ UNCHANGED pending
             ELSE /\ pc' = [pc EXCEPT ![h] = "notify"]
                  /\ pending' = [pending EXCEPT ![h] = [EmptyDiff EXCEPT !.deleted = gone]]
                  /\ UNCHANGED job
     ELSE /\ pc' = [pc EXCEPT ![h] = "idle"]
          /\ job' = [job EXCEPT ![h] = NoSvc]
          /\ UNCHANGED <<repos, pending>>
  /\ UNCHANGED <<seen, errs, items, plan, view, started, streamErrs>>

(* watchSyncer receives the Diff a handler sends on the unbuffered Synced *)
(* channel and hands it to the clone scheduler.  The handler resumes its  *)
(* stream, or, after the deleted repos of the pass, returns to the pool.  *)
ConsumeSynced(h) ==
  /\ pc[h] \in {"publish", "notify"}
  /\ view' = UpdateFromDiff(view, pending[h])
  /\ pending' = [pending EXCEPT ![h] = EmptyDiff]
  /\ IF pc[h] = "publish"
     THEN /\ pc' = [pc EXCEPT ![h] = "stream"]
          /\ UNCHANGED job
     ELSE /\ pc' = [pc EXCEPT ![h] = "idle"]
          /\ job' = [job EXCEPT ![h] = NoSvc]
  /\ UNCHANGED <<repos, seen, errs, items, plan, started, streamErrs>>

Next ==
  \/ InitialUnmodifiedDiffFromStore
  \/ \E h \in Handlers :
       \/ \E s \in Svcs : StartPass(h, s)
       \/ \E e \in SourceErrs : ReceiveError(h, e)
       \/ job[h] \in Svcs /\ \E c \in Listing[job[h]] : ReceiveRepo(h, c)
       \/ ApplyCommit(h)
       \/ ApplyFail(h)
       \/ CloseStream(h)
       \/ Prune(h)
       \/ ConsumeSynced(h)

Spec == Init /\ [][Next]_vars

-----------------------------------------------------------------------------
(* Properties *)

(* The end of a pass of service s, when it removed s from the repos it    *)
(* did not see (a Prune step that deleted).                                *)
PrunedBy(h) ==
  /\ pc[h] = "prune" /\ pc'[h] # "prune"
  /\ (errs[h] = {} \/ (~IsSiteOwned(job[h]) /\ "fatal" \in errs[h]))

(* Deletion safety (SyncExternalService): when the source of a service    *)
(* reported an error during a pass, the end of the pass removes no repo   *)
(* from that service, unless the error was fatal and the service belongs *)
(* to a user or an org.  Transient errors of a site-owned service never   *)
(* cause mass deletion.                                                    *)
PruneSafe ==
  \A h \in Handlers :
    ( /\ pc[h] = "prune" /\ pc'[h] # "prune"
      /\ streamErrs[h] # {}
      /\ (IsSiteOwned(job[h]) \/ "fatal" \notin streamErrs[h]) )
    => \A i \in Ids : job[h] \in repos[i].svcs => job[h] \in repos'[i].svcs

(* Deletion safety holds of every step of SyncExternalService's passes. *)
PruneSafety == [][PruneSafe]_vars

(* The clone scheduler knows of no repo that is gone from the store, but  *)
(* for those whose deletion is on its way on Synced (sync, delete and     *)
(* notifyDeleted publish every committed change).                          *)
ViewSound ==
  \A i \in view :
    i \in Live \/ \E h \in Handlers : pc[h] = "notify" /\ i \in pending[h].deleted

(* The repo limits (sync, case 0): the repos of user and org services     *)
(* stay within the site limit, and those of each user or org within the  *)
(* per-user limit.                                                         *)
QuotaRespected ==
  /\ SiteAdded <= SiteLimit
  /\ \A ns \in Namespaces \ {SiteNamespace} : NamespaceAdded(ns) <= UserLimit
=============================================================================

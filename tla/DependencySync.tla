--------------------------- MODULE DependencySync ---------------------------
(***************************************************************************)
(* The dependency sync scheduler (dependencySyncSchedulerHandler.Handle,  *)
(* enterprise/cmd/worker/internal/codeintel/indexing/                      *)
(* dependency_sync_scheduler.go) composed with the schedule of the one    *)
(* package-host external service of SyncInterval.                         *)
(*                                                                         *)
(* A dbworker with one handler dequeues dependency syncing jobs, one per  *)
(* upload.  Handle walks the package references of the upload: it        *)
(* collects the external service kind of each scheme, and inserts a      *)
(* dependency repo (lsif_dependency_repos) for every reference whose     *)
(* scheme has a kind.  When some kind was seen it lists the external     *)
(* services of those kinds and upserts each with NextSyncAt = the time   *)
(* taken before the list; then, if the upload's indexer is one of the    *)
(* indexed ones, it inserts a dependency indexing job per kind.  Errors  *)
(* of the inserts and upserts are collected and returned at the end;     *)
(* errors of the scan, the list and the upload lookup return at once.    *)
(* The worker marks a job completed on nil and errored otherwise, and    *)
(* retries an errored job until it has failed MaxAttempts times.         *)
(*                                                                         *)
(* The passes of the service run as in SyncInterval, split in two: the   *)
(* start, when a repo syncer handler takes the job, and the end, which is *)
(* SyncInterval's SyncExternalService.  The upsert writes the whole row  *)
(* it listed (ExternalServiceStore.Upsert stores every field of the      *)
(* service it is given, as TestExternalServicesStore_Upsert checks), so  *)
(* it also writes back the LastSyncAt it read.                           *)
(***************************************************************************)
EXTENDS SyncInterval, Sequences, FiniteSets

CONSTANTS
  Uploads,      \* the uploads with a dependency syncing job
  Pkgs,         \* packages named by package references
  Kinds,        \* external service kinds of package hosts
  NoKind,       \* the empty kind of a scheme with no external service
  SchemeKind,   \* [Pkgs -> Kinds \cup {NoKind}]: schemeToExternalService
  Refs,         \* [Uploads -> Seq(Pkgs)]: ReferencesForUpload, in order
  Indexed,      \* [Uploads -> BOOLEAN]: the upload's indexer is lsif-go,
                \* lsif-java or lsif-tsc
  SvcKind,      \* the kind of the external service of SyncInterval
  MaxAttempts   \* the worker store's limit on the failures of a job

ASSUME DependencySyncAssumption ==
  /\ Uploads # {}
  /\ NoKind \notin Kinds
  /\ SchemeKind \in [Pkgs -> Kinds \cup {NoKind}]
  /\ Refs \in [Uploads -> Seq(Pkgs)]
  /\ Indexed \in [Uploads -> BOOLEAN]
  /\ SvcKind \in Kinds
  /\ MaxAttempts \in Nat \ {0}

AllKinds == Kinds \cup {NoKind}

VARIABLES
  jobState,   \* [Uploads -> state] of the dependency syncing jobs
  attempts,   \* [Uploads -> Nat]: num_failures of each job
  hpc,        \* where the handler is in Handle
  cur,        \* the upload of the job in hand
  pos,        \* the next reference the scanner returns
  kinds,      \* the kinds seen so far
  errs,       \* an insert or upsert error has been collected
  at,         \* nextSync: the time taken before ExternalServiceStore.List
  snap,       \* the service row List returned: [lastSync, found]
  idxLeft,    \* the kinds whose indexing job is still to be inserted
  depRepos,   \* lsif_dependency_repos
  indexJobs,  \* [Uploads \X AllKinds -> Nat]: dependency indexing jobs
  running,    \* a pass of the service is running
  passLast    \* the LastSyncAt of the row the running pass read (GetByID)

schedVars == <<jobState, attempts, hpc, cur, pos, kinds, errs, at, snap,
               idxLeft, depRepos, indexJobs, running, passLast>>
depVars == <<vars, schedVars>>

JobStates == {"queued", "processing", "completed", "errored", "failed"}
HandlerSteps == {"idle", "scan", "list", "upsert", "should", "index"}

DepTypeOK ==
  /\ TypeOK
  /\ jobState \in [Uploads -> JobStates]
  /\ attempts \in [Uploads -> 0..MaxAttempts]
  /\ hpc \in HandlerSteps
  /\ cur \in Uploads
  /\ pos \in Nat
  /\ kinds \in SUBSET AllKinds
  /\ errs \in BOOLEAN
  /\ at \in 0..MaxTime
  /\ snap \in [lastSync : {ZeroTime} \cup 0..MaxTime, found : BOOLEAN]
  /\ idxLeft \in SUBSET AllKinds
  /\ depRepos \in SUBSET Pkgs
  /\ indexJobs \in [Uploads \X AllKinds -> Nat]
  /\ running \in BOOLEAN
  /\ passLast \in {ZeroTime} \cup 0..MaxTime

DepInit ==
  /\ Init
  /\ jobState = [u \in Uploads |-> "queued"]
  /\ attempts = [u \in Uploads |-> 0]
  /\ hpc = "idle"
  /\ cur = CHOOSE u \in Uploads : TRUE
  /\ pos = 1
  /\ kinds = {}
  /\ errs = FALSE
  /\ at = 0
  /\ snap = [lastSync |-> ZeroTime, found |-> FALSE]
  /\ idxLeft = {}
  /\ depRepos = {}
  /\ indexJobs = [j \in Uploads \X AllKinds |-> 0]
  /\ running = FALSE
  /\ passLast = ZeroTime

-----------------------------------------------------------------------------
(* The worker *)

(* The worker store's MarkErrored: the job is retried until it has failed *)
(* MaxAttempts times, then it has failed for good.                        *)
MarkErrored(u) ==
  /\ attempts' = [attempts EXCEPT ![u] = @ + 1]
  /\ jobState' = [jobState EXCEPT ![u] = IF attempts[u] + 1 < MaxAttempts
                                         THEN "errored" ELSE "failed"]

(* The locals of Handle. *)
locals == <<pos, kinds, errs, at, snap, idxLeft>>
NoSnap == [lastSync |-> ZeroTime, found |-> FALSE]

(* Handle returns: nil marks the job completed, an error marks it errored,*)
(* and its locals are gone.  The deferred scanner.Close assigns its error *)
(* to a local variable that is not the result, so a failing Close changes *)
(* nothing.                                                               *)
Return(failed) ==
  /\ hpc' = "idle"
  /\ IF failed THEN MarkErrored(cur)
     ELSE /\ jobState' = [jobState EXCEPT ![cur] = "completed"]
          /\ UNCHANGED attempts
  /\ pos' = 1 /\ kinds' = {} /\ errs' = FALSE /\ at' = 0 /\ snap' = NoSnap
  /\ idxLeft' = {}

(* The worker dequeues a queued job, or an errored one to retry it, and  *)
(* Handle opens the scanner of the upload's references (ok is whether    *)
(* ReferencesForUpload succeeded).  Auto-indexing is taken as enabled:   *)
(* with it disabled Handle returns nil at once and the job completes.    *)
Dequeue(u, ok) ==
  /\ hpc = "idle"
  /\ jobState[u] \in {"queued", "errored"}
  /\ cur' = u
  /\ IF ok
     THEN /\ hpc' = "scan"
          /\ jobState' = [jobState EXCEPT ![u] = "processing"]
          /\ UNCHANGED <<attempts, locals>>
     ELSE /\ hpc' = "idle"
          /\ MarkErrored(u)
          /\ UNCHANGED locals
  /\ UNCHANGED <<vars, depRepos, indexJobs, running, passLast>>

-----------------------------------------------------------------------------
(* Handle *)

(* The loop over scanner.Next, one reference a step: r is "ok", "next"   *)
(* (Next fails and Handle returns) or "insert" (the insert of a          *)
(* reference of a known scheme fails, and the error is collected, by     *)
(* collect; the mutant drops it).  At the end of the references Handle   *)
(* goes on to the services if a kind other than the empty one was seen.  *)
ScanWith(r, collect) ==
  LET refs == Refs[cur]
      p == refs[pos]
      k == SchemeKind[p]
  IN
  /\ hpc = "scan"
  /\ IF r = "next"
     THEN Return(TRUE) /\ UNCHANGED depRepos
     ELSE IF pos > Len(refs)
     THEN /\ r = "ok"
          /\ hpc' = IF kinds \ {NoKind} # {} THEN "list" ELSE "should"
          /\ UNCHANGED <<jobState, attempts, locals, depRepos>>
     ELSE /\ kinds' = kinds \cup {k}
          /\ pos' = pos + 1
          /\ IF k = NoKind \/ r = "insert"
             THEN /\ errs' = (errs \/ (collect /\ k # NoKind /\ r = "insert"))
                  /\ UNCHANGED depRepos
             ELSE /\ depRepos' = depRepos \cup {p}
                  /\ UNCHANGED errs
          /\ UNCHANGED <<hpc, jobState, attempts, at, snap, idxLeft>>
  /\ UNCHANGED <<vars, cur, indexJobs, running, passLast>>

(* Mutant: an insert error is dropped instead of collected. *)
ScanDropErr(r) == ScanWith(r, FALSE)

Scan(r) == ScanWith(r, TRUE)

(* nextSync = time.Now(), then ExternalServiceStore.List of the services *)
(* of the kinds seen; a List error returns.                               *)
List(ok) ==
  /\ hpc = "list"
  /\ IF ok
     THEN /\ at' = now
          /\ snap' = [lastSync |-> lastSync, found |-> SvcKind \in kinds]
          /\ hpc' = IF SvcKind \in kinds THEN "upsert" ELSE "should"
          /\ UNCHANGED <<jobState, attempts, pos, kinds, errs, idxLeft>>
     ELSE Return(TRUE)
  /\ UNCHANGED <<vars, cur, depRepos, indexJobs, running, passLast>>

(* externalService.NextSyncAt = nextSync and Upsert of the row List       *)
(* returned: NextSyncAt becomes the time taken, LastSyncAt the value      *)
(* read.  An error is collected.                                          *)
Upsert(ok) ==
  /\ hpc = "upsert"
  /\ hpc' = "should"
  /\ IF ok
     THEN /\ nextSync' = at
          /\ lastSync' = snap.lastSync
          /\ UNCHANGED errs
     ELSE /\ errs' = TRUE
          /\ UNCHANGED <<nextSync, lastSync>>
  /\ UNCHANGED <<now, queued, interval, outcome, jobState, attempts, cur, pos,
                 kinds, at, snap, idxLeft, depRepos, indexJobs, running, passLast>>

(* shouldIndexDependencies: GetUploadByID (an error returns) and the     *)
(* indexer check.  Without indexing Handle returns the collected errors.  *)
Should(ok) ==
  /\ hpc = "should"
  /\ IF ok /\ Indexed[cur]
     THEN /\ hpc' = "index"
          /\ idxLeft' = kinds
          /\ UNCHANGED <<jobState, attempts, pos, kinds, errs, at, snap>>
     ELSE Return(~ok \/ errs)
  /\ UNCHANGED <<vars, cur, depRepos, indexJobs, running, passLast>>

(* InsertDependencyIndexingJob for one kind seen, the empty one included, *)
(* in the order of the map; an error is collected.                        *)
Index(k, ok) ==
  /\ hpc = "index"
  /\ k \in idxLeft
  /\ idxLeft' = idxLeft \ {k}
  /\ indexJobs' = IF ok THEN [indexJobs EXCEPT ![<<cur, k>>] = @ + 1] ELSE indexJobs
  /\ errs' = (errs \/ ~ok)
  /\ UNCHANGED <<vars, cur, pos, kinds, at, snap, depRepos, running,
                 passLast, hpc, jobState, attempts>>

(* After the last kind Handle returns the collected errors. *)
IndexDone ==
  /\ hpc = "index"
  /\ idxLeft = {}
  /\ Return(errs)
  /\ UNCHANGED <<vars, cur, depRepos, indexJobs, running, passLast>>

-----------------------------------------------------------------------------
(* The passes of the service *)

(* A handler of the repo syncer takes the queued job of the service; the *)
(* package host's source streams the dependency repos stored now.         *)
PassStart ==
  /\ queued /\ ~running
  /\ running' = TRUE
  /\ passLast' = lastSync
  /\ UNCHANGED <<vars, jobState, attempts, hpc, cur, locals, depRepos, indexJobs>>

PassEnd(modified, err, upserted) ==
  /\ running
  /\ SyncExternalServiceFrom(passLast, modified, err, upserted)
  /\ running' = FALSE
  /\ passLast' = ZeroTime
  /\ UNCHANGED <<jobState, attempts, hpc, cur, locals, depRepos, indexJobs>>

(* The clock, the enqueuer and the manual trigger of SyncInterval. *)
ScheduleStep ==
  /\ Tick \/ EnqueueSyncJobs \/ TriggerExternalServiceSync
  /\ UNCHANGED schedVars

HandlerStep ==
  \/ \E u \in Uploads, ok \in BOOLEAN : Dequeue(u, ok)
  \/ \E r \in {"ok", "next", "insert"} : Scan(r)
  \/ \E ok \in BOOLEAN : List(ok) \/ Upsert(ok) \/ Should(ok)
  \/ \E k \in AllKinds, ok \in BOOLEAN : Index(k, ok)
  \/ IndexDone

DepNext ==
  \/ ScheduleStep
  \/ PassStart
  \/ \E modified, err, upserted \in BOOLEAN : PassEnd(modified, err, upserted)
  \/ HandlerStep

DepSpec == DepInit /\ [][DepNext]_depVars

-----------------------------------------------------------------------------
(* Properties *)

(* The packages of upload u whose scheme has an external service kind,   *)
(* and the kinds of all its references.                                   *)
KnownPkgs(u) == {Refs[u][i] : i \in {j \in 1..Len(Refs[u]) : SchemeKind[Refs[u][j]] # NoKind}}
KindsOf(u) == {SchemeKind[Refs[u][i]] : i \in 1..Len(Refs[u])}

(* A job the worker marked completed has done its work, over all of its  *)
(* attempts: every package of a known scheme is a dependency repo, and   *)
(* for an indexed upload there is an indexing job for every kind seen.   *)
(* Handle must turn every failed insert into an error so that the job is *)
(* retried.                                                               *)
CompletedJobDidItsWork ==
  \A u \in Uploads :
    jobState[u] = "completed" =>
      /\ KnownPkgs(u) \subseteq depRepos
      /\ Indexed[u] => \A k \in KindsOf(u) : indexJobs[<<u, k>>] >= 1

(* A pass that ends no sooner after the pass before it than the interval *)
(* that pass handed out, and takes the backoff branch, never hands out a  *)
(* shorter interval: stable services are polled less and less often      *)
(* (calcSyncInterval, from the LastSyncAt the pass read).  Passes forced  *)
(* early by a trigger or by the dependency scheduler are excluded.        *)
PassBackoffNeverShrinks ==
  [][ \A modified, err, upserted \in BOOLEAN :
        ( /\ PassEnd(modified, err, upserted)
          /\ passLast # ZeroTime
          /\ now - passLast >= interval
          /\ (err \/ ~modified) )
        => interval' >= interval ]_depVars

(* A pass that read a never-synced row is followed by the minimum         *)
(* interval, whatever its outcome: errors included, where calcSyncInterval*)
(* reaches the minimum only through the saturated, wrapped product.       *)
PassFirstGetsMinimum ==
  [][ \A modified, err, upserted \in BOOLEAN :
        PassEnd(modified, err, upserted) /\ passLast = ZeroTime => interval' = MinSyncInterval ]_depVars

(* LastSyncAt of the service only moves forward: it records when the     *)
(* last pass ended, from which calcSyncInterval computes the backoff.     *)
LastSyncNeverRegresses == [][lastSync' >= lastSync]_depVars
=============================================================================

---------------------------- MODULE Dependencies ----------------------------
(***************************************************************************)
(* DependenciesService.Dependencies (internal/codeintel/dependencies.go):  *)
(* the resolution of the dependencies of a set of repository revisions.   *)
(*                                                                         *)
(* One errgroup goroutine per (repo, rev) root takes a slot of a weighted *)
(* semaphore and lists the root's lockfile dependencies; for every        *)
(* dependency it takes one more slot and starts a second goroutine, which *)
(* upserts the dependency repo, lazily syncs it, records its name and tag *)
(* in the shared result under a mutex and gives the slot back.  The root  *)
(* goroutine gives its own slot back when it has started them all.  The   *)
(* errgroup cancels the shared context on the first error; Wait returns   *)
(* once every goroutine has returned.                                      *)
(*                                                                         *)
(* A goroutine blocked in sem.Acquire is waiting for a slot or for the    *)
(* context to be cancelled, by the errgroup or by the caller.             *)
(***************************************************************************)
EXTENDS Naturals, FiniteSets

CONSTANTS
  Roots,     \* the (repo, rev) pairs of repoRevs
  Packages,  \* the dependencies lockfiles may name
  DepsOf,    \* [Roots -> SUBSET Packages]: what ListDependencies returns
  DepName,   \* [Packages -> RepoNames]: dep.RepoName()
  DepRev,    \* [Packages -> Revs]: dep.GitTagFromVersion()
  SemSize    \* the weight of the semaphore (32)

ASSUME DependenciesAssumption ==
  /\ IsFiniteSet(Roots) /\ IsFiniteSet(Packages)
  /\ DepsOf \in [Roots -> SUBSET Packages]
  /\ SemSize \in Nat \ {0}

(* The dependency goroutines: one per root and dependency listed for it. *)
Tasks == UNION {{<<o, d>> : d \in DepsOf[o]} : o \in Roots}

(* The entry of dependencyRevs a dependency contributes. *)
Entry(d) == <<DepName[d], DepRev[d]>>

(* The entries the lockfiles of the roots name. *)
Wanted == {Entry(d) : d \in UNION {DepsOf[o] : o \in Roots}}

VARIABLES
  opc,        \* [Roots -> step] of each root goroutine
  todo,       \* [Roots -> SUBSET Packages]: dependencies not yet started
  tpc,        \* [Tasks -> step] of each dependency goroutine
  free,       \* the free weight of the semaphore
  failed,     \* the errgroup holds an error
  cancelled,  \* the errgroup's context is done
  result,     \* dependencyRevs, as a set of <<name, rev>> entries
  mpc         \* the calling goroutine: in g.Wait, or returned

vars == <<opc, todo, tpc, free, failed, cancelled, result, mpc>>

RootSteps == {"acquire", "list", "deps", "done"}
TaskSteps == {"none", "upsert", "sync", "record", "done"}

(* The goroutines that hold a slot of the semaphore. *)
RootHolders == {o \in Roots : opc[o] \in {"list", "deps"}}
TaskHolders == {t \in Tasks : tpc[t] \in {"upsert", "sync", "record"}}

TypeOK ==
  /\ opc \in [Roots -> RootSteps]
  /\ todo \in [Roots -> SUBSET Packages]
  /\ tpc \in [Tasks -> TaskSteps]
  /\ free \in 0..SemSize
  /\ failed \in BOOLEAN
  /\ cancelled \in BOOLEAN
  /\ result \in SUBSET {Entry(d) : d \in Packages}
  /\ mpc \in {"wait", "returned"}

(* The loop over repoRevs starts every root goroutine; none holds a slot. *)
Init ==
  /\ opc = [o \in Roots |-> "acquire"]
  /\ todo = [o \in Roots |-> {}]
  /\ tpc = [t \in Tasks |-> "none"]
  /\ free = SemSize
  /\ failed = FALSE
  /\ cancelled = FALSE
  /\ result = {}
  /\ mpc = "wait"

(* A goroutine returns an error: the errgroup keeps the first one and     *)
(* cancels its context.                                                    *)
Fail == failed' = TRUE /\ cancelled' = TRUE

-----------------------------------------------------------------------------
(* The root goroutine of o *)

(* sem.Acquire(ctx, 1) succeeds. *)
RootAcquire(o) ==
  /\ opc[o] = "acquire"
  /\ free > 0
  /\ free' = free - 1
  /\ opc' = [opc EXCEPT ![o] = "list"]
  /\ UNCHANGED <<todo, tpc, failed, cancelled, result, mpc>>

(* sem.Acquire returns the error of the cancelled context. *)
RootAcquireFail(o) ==
  /\ opc[o] = "acquire"
  /\ cancelled
  /\ opc' = [opc EXCEPT ![o] = "done"]
  /\ Fail
  /\ UNCHANGED <<todo, tpc, free, result, mpc>>

(* lockfileService.ListDependencies, which may fail; on failure the       *)
(* deferred Release gives the slot back.                                   *)
ListDependencies(o, ok) ==
  /\ opc[o] = "list"
  /\ IF ok
     THEN /\ opc' = [opc EXCEPT ![o] = "deps"]
          /\ todo' = [todo EXCEPT ![o] = DepsOf[o]]
          /\ UNCHANGED <<free, failed, cancelled>>
     ELSE /\ opc' = [opc EXCEPT ![o] = "done"]
          /\ free' = free + 1
          /\ Fail
          /\ UNCHANGED todo
  /\ UNCHANGED <<tpc, result, mpc>>

(* The loop over deps: sem.Acquire for dependency d succeeds and g.Go     *)
(* starts its goroutine, which holds the new slot.                         *)
StartDependency(o, d) ==
  /\ opc[o] = "deps"
  /\ d \in todo[o]
  /\ free > 0
  /\ free' = free - 1
  /\ todo' = [todo EXCEPT ![o] = @ \ {d}]
  /\ tpc' = [tpc EXCEPT ![<<o, d>>] = "upsert"]
  /\ UNCHANGED <<opc, failed, cancelled, result, mpc>>

(* sem.Acquire in the loop returns the context's error: the root          *)
(* goroutine returns it and its deferred Release gives its slot back.     *)
StartDependencyFail(o) ==
  /\ opc[o] = "deps"
  /\ todo[o] # {}
  /\ cancelled
  /\ opc' = [opc EXCEPT ![o] = "done"]
  /\ free' = free + 1
  /\ Fail
  /\ UNCHANGED <<todo, tpc, result, mpc>>

(* Mutant: the root goroutine returns without giving its slot back. *)
RootReturnLeaky(o) ==
  /\ opc[o] = "deps"
  /\ todo[o] = {}
  /\ opc' = [opc EXCEPT ![o] = "done"]
  /\ UNCHANGED <<todo, tpc, free, failed, cancelled, result, mpc>>

(* Every dependency has its goroutine: the deferred Release runs. *)
RootReturn(o) ==
  /\ opc[o] = "deps"
  /\ todo[o] = {}
  /\ opc' = [opc EXCEPT ![o] = "done"]
  /\ free' = free + 1
  /\ UNCHANGED <<todo, tpc, failed, cancelled, result, mpc>>

-----------------------------------------------------------------------------
(* The goroutine of dependency t = <<o, d>> *)

(* depsStore.UpsertDependencyRepo, then syncer.Sync: each may fail, and   *)
(* the deferred Release gives the slot back.                               *)
Upsert(t, ok) ==
  /\ tpc[t] = "upsert"
  /\ IF ok
     THEN /\ tpc' = [tpc EXCEPT ![t] = "sync"]
          /\ UNCHANGED <<free, failed, cancelled>>
     ELSE /\ tpc' = [tpc EXCEPT ![t] = "done"]
          /\ free' = free + 1
          /\ Fail
  /\ UNCHANGED <<opc, todo, result, mpc>>

LazySync(t, ok) ==
  /\ tpc[t] = "sync"
  /\ IF ok
     THEN /\ tpc' = [tpc EXCEPT ![t] = "record"]
          /\ UNCHANGED <<free, failed, cancelled>>
     ELSE /\ tpc' = [tpc EXCEPT ![t] = "done"]
          /\ free' = free + 1
          /\ Fail
  /\ UNCHANGED <<opc, todo, result, mpc>>

(* Under mu, dependencyRevs[depName][depRev] is set; the deferred         *)
(* Release gives the slot back.                                            *)
Record(t) ==
  /\ tpc[t] = "record"
  /\ result' = result \cup {Entry(t[2])}
  /\ tpc' = [tpc EXCEPT ![t] = "done"]
  /\ free' = free + 1
  /\ UNCHANGED <<opc, todo, failed, cancelled, mpc>>

-----------------------------------------------------------------------------
(* The caller *)

(* The caller's context is cancelled (a request deadline, a shutdown). *)
CallerCancel ==
  /\ ~cancelled
  /\ cancelled' = TRUE
  /\ UNCHANGED <<opc, todo, tpc, free, failed, result, mpc>>

(* Mutant: Wait does not wait for the dependency goroutines (started with *)
(* go instead of g.Go).                                                    *)
WaitReturnEarly ==
  /\ mpc = "wait"
  /\ \A o \in Roots : opc[o] = "done"
  /\ mpc' = "returned"
  /\ UNCHANGED <<opc, todo, tpc, free, failed, cancelled, result>>

(* Mutant: Wait counts a goroutine for every listed dependency up front, *)
(* also for those a failure kept from being started.                      *)
WaitReturnCounted ==
  /\ mpc = "wait"
  /\ \A o \in Roots : opc[o] = "done"
  /\ \A t \in Tasks : tpc[t] = "done"
  /\ mpc' = "returned"
  /\ UNCHANGED <<opc, todo, tpc, free, failed, cancelled, result>>

(* g.Wait returns once no goroutine of the group runs; Dependencies then  *)
(* returns the error or dependencyRevs.                                    *)
WaitReturn ==
  /\ mpc = "wait"
  /\ \A o \in Roots : opc[o] = "done"
  /\ \A t \in Tasks : tpc[t] \in {"none", "done"}
  /\ mpc' = "returned"
  /\ UNCHANGED <<opc, todo, tpc, free, failed, cancelled, result>>

Next ==
  \/ \E o \in Roots :
       \/ RootAcquire(o) \/ RootAcquireFail(o)
       \/ \E ok \in BOOLEAN : ListDependencies(o, ok)
       \/ \E d \in Packages : StartDependency(o, d)
       \/ StartDependencyFail(o)
       \/ RootReturn(o)
  \/ \E t \in Tasks :
       \/ \E ok \in BOOLEAN : Upsert(t, ok) \/ LazySync(t, ok)
       \/ Record(t)
  \/ CallerCancel
  \/ WaitReturn

Spec == Init /\ [][Next]_vars

(* Every goroutine that can run eventually runs (the Go scheduler), and a *)
(* goroutine blocked in sem.Acquire obtains a slot if slots keep becoming *)
(* free: the semaphore serves its waiters in FIFO order.  The caller's    *)
(* cancellation is not assumed to happen.                                  *)
Fairness ==
  /\ \A o \in Roots :
       /\ SF_vars(RootAcquire(o)) /\ WF_vars(RootAcquireFail(o))
       /\ WF_vars(\E ok \in BOOLEAN : ListDependencies(o, ok))
       /\ SF_vars(\E d \in Packages : StartDependency(o, d))
       /\ WF_vars(StartDependencyFail(o)) /\ WF_vars(RootReturn(o))
  /\ \A t \in Tasks :
       WF_vars(\E ok \in BOOLEAN : Upsert(t, ok) \/ LazySync(t, ok)) /\ WF_vars(Record(t))
  /\ WF_vars(WaitReturn)

FairSpec == Spec /\ Fairness

-----------------------------------------------------------------------------
(* Properties *)

(* The slot accounting of the semaphore: every slot taken is held by one  *)
(* running goroutine until that goroutine gives it back, on every path   *)
(* of the root and dependency goroutines, failures included.              *)
PermitsAccounted ==
  free + Cardinality(RootHolders) + Cardinality(TaskHolders) = SemSize

(* When Dependencies returns without an error, dependencyRevs holds the   *)
(* name and tag of every dependency of every root: g.Wait waited for the *)
(* goroutines the root goroutines started.                                *)
ResultComplete ==
  (mpc = "returned" /\ ~failed) =>
    result = Wanted

(* Dependencies returns: no goroutine waits forever for a slot. *)
Termination == <>(mpc = "returned")
=============================================================================

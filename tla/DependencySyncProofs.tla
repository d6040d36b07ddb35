------------------------ MODULE DependencySyncProofs ------------------------
(***************************************************************************)
(* Proofs about the dependency sync scheduler composed with the schedule  *)
(* of its package host: that a job the worker marks completed has done    *)
(* its work over all of its attempts, and that the intervals handed out   *)
(* stay in bounds although Handle writes back a stale LastSyncAt.         *)
(*                                                                         *)
(* CompletedJobDidItsWork is not inductive: a step of Handle that returns *)
(* nil completes the job, and what the job did is in the locals of the    *)
(* call.  The strengthening Progress says what a call that has collected  *)
(* no error has done so far: every reference before the cursor of a known *)
(* scheme is a dependency repo, the kinds seen are those of the           *)
(* references before the cursor, the scan is over once Handle has left    *)
(* it, and every kind no longer left has its indexing job.  Idle says the *)
(* locals are reset between calls, which Dequeue relies on.               *)
(*                                                                         *)
(* The bounds and the two properties of the passes rest on Clocks: every  *)
(* time the scheduler holds between steps is a clock reading or the zero  *)
(* time, so a pass end computes its interval from integers in range.      *)
(***************************************************************************)
EXTENDS DependencySync, SyncIntervalProofs, TLAPS

(* The types the proofs need. *)
DTypes ==
  /\ jobState \in [Uploads -> JobStates]
  /\ attempts \in [Uploads -> Nat]
  /\ hpc \in HandlerSteps
  /\ cur \in Uploads
  /\ pos \in Nat /\ pos >= 1
  /\ kinds \in SUBSET AllKinds
  /\ errs \in BOOLEAN
  /\ idxLeft \in SUBSET AllKinds
  /\ depRepos \in SUBSET Pkgs
  /\ indexJobs \in [Uploads \X AllKinds -> Nat]

(* What job u must have done when it is completed. *)
Done(u) ==
  /\ KnownPkgs(u) \subseteq depRepos
  /\ Indexed[u] => \A k \in KindsOf(u) : indexJobs[<<u, k>>] >= 1

(* The references of the upload in hand before position n. *)
Before(n) == {i \in 1..Len(Refs[cur]) : i < n}

Idle ==
  hpc = "idle" => pos = 1 /\ kinds = {} /\ ~errs /\ idxLeft = {}

Progress ==
  hpc # "idle" /\ ~errs =>
    /\ pos \in 1..(Len(Refs[cur]) + 1)
    /\ \A i \in Before(pos) : SchemeKind[Refs[cur][i]] # NoKind => Refs[cur][i] \in depRepos
    /\ kinds = {SchemeKind[Refs[cur][i]] : i \in Before(pos)}
    /\ hpc # "scan" => pos = Len(Refs[cur]) + 1
    /\ hpc = "index" =>
         /\ idxLeft \subseteq kinds
         /\ \A k \in kinds \ idxLeft : indexJobs[<<cur, k>>] >= 1

JInv ==
  /\ DTypes
  /\ Idle
  /\ Progress
  /\ \A u \in Uploads : jobState[u] = "completed" => Done(u)

-----------------------------------------------------------------------------
(* Lemmas *)

(* The references of an upload form a sequence of packages. *)
LEMMA RefsSeq ==
  ASSUME NEW u \in Uploads
  PROVE  /\ Len(Refs[u]) \in Nat
         /\ \A i \in 1..Len(Refs[u]) : Refs[u][i] \in Pkgs
BY DependencySyncAssumption

(* Done only grows with the dependency repos and the indexing jobs. *)
LEMMA DoneStable ==
  ASSUME NEW u \in Uploads, Done(u),
         depRepos \subseteq depRepos',
         indexJobs \in [Uploads \X AllKinds -> Nat],
         indexJobs' \in [Uploads \X AllKinds -> Nat],
         \A j \in Uploads \X AllKinds : indexJobs'[j] >= indexJobs[j]
  PROVE  Done(u)'
<1>1. \A k \in KindsOf(u) : <<u, k>> \in Uploads \X AllKinds
  BY RefsSeq, DependencySyncAssumption DEF KindsOf, AllKinds
<1>2. QED
  BY <1>1 DEF Done, KnownPkgs, KindsOf

(* When the scan is over, Progress gives what Done asks of the upload in  *)
(* hand: the dependency repos, and the kinds of all its references.       *)
LEMMA ScanOver ==
  ASSUME DTypes, Progress, hpc # "idle", ~errs, hpc # "scan"
  PROVE  /\ KnownPkgs(cur) \subseteq depRepos
         /\ kinds = KindsOf(cur)
<1>1. Before(pos) = 1..Len(Refs[cur])
  BY RefsSeq DEF Progress, Before, DTypes
<1>2. QED
  BY <1>1 DEF Progress, KnownPkgs, KindsOf

-----------------------------------------------------------------------------
(* The invariant *)

LEMMA InitJInv == DepInit => JInv
<1> SUFFICES ASSUME DepInit PROVE JInv
  OBVIOUS
<1>1. DTypes
  <2>1. cur \in Uploads
    BY DependencySyncAssumption DEF DepInit
  <2>2. indexJobs \in [Uploads \X AllKinds -> Nat]
    BY DEF DepInit
  <2>3. pos \in Nat /\ pos >= 1
    BY DEF DepInit
  <2>4. QED
    BY <2>1, <2>2, <2>3 DEF DepInit, DTypes, JobStates, HandlerSteps, AllKinds
<1>2. Idle /\ Progress
  BY DEF DepInit, Idle, Progress
<1>3. \A u \in Uploads : jobState[u] # "completed"
  BY DEF DepInit
<1>4. QED
  BY <1>1, <1>2, <1>3 DEF JInv

(* Handle returns: a nil result needs the job in hand to be done, and     *)
(* then every completed job is still done; an error marks it errored or   *)
(* failed; either way the locals are reset.                               *)
LEMMA ReturnJInv ==
  ASSUME JInv, NEW failed \in BOOLEAN, Return(failed),
         ~failed => Done(cur),
         cur' = cur, depRepos' = depRepos, indexJobs' = indexJobs
  PROVE  JInv'
<1>1. DTypes'
  <2>1. jobState' \in [Uploads -> JobStates]
    BY DEF JInv, DTypes, Return, MarkErrored, JobStates
  <2>2. attempts' \in [Uploads -> Nat]
    BY DEF JInv, DTypes, Return, MarkErrored
  <2>3. pos' \in Nat /\ pos' >= 1
    BY DEF Return
  <2>4. QED
    BY <2>1, <2>2, <2>3 DEF JInv, DTypes, Return, HandlerSteps
<1>2. Idle' /\ Progress'
  BY DEF Return, Idle, Progress
<1>3. ASSUME NEW u \in Uploads, jobState'[u] = "completed"
      PROVE  Done(u)'
  <2>1. Done(u)' = Done(u)
    BY DEF Done, KnownPkgs, KindsOf
  <2>2. CASE u = cur
    <3>1. ~failed
      BY <2>2, <1>3 DEF JInv, DTypes, Return, MarkErrored
    <3>2. QED
      BY <3>1, <2>1, <2>2
  <2>3. CASE u # cur
    <3>1. jobState'[u] = jobState[u]
      BY <2>3 DEF JInv, DTypes, Return, MarkErrored
    <3>2. QED
      BY <3>1, <2>1, <1>3 DEF JInv
  <2>4. QED
    BY <2>2, <2>3
<1>4. QED
  BY <1>1, <1>2, <1>3 DEF JInv

(* A step that leaves the job, the locals and the stores alone. *)
LEMMA QuietJInv ==
  ASSUME JInv,
         UNCHANGED <<jobState, attempts, hpc, cur, pos, kinds, errs, idxLeft,
                     depRepos, indexJobs>>
  PROVE  JInv'
BY DEF JInv, DTypes, Idle, Progress, Before, Done, KnownPkgs, KindsOf

(* Dequeue starts a call with the reset locals, or marks the job errored. *)
LEMMA DequeueJInv ==
  ASSUME JInv, NEW u \in Uploads, NEW ok \in BOOLEAN, Dequeue(u, ok)
  PROVE  JInv'
<1>1. DTypes'
  BY DEF JInv, DTypes, Dequeue, MarkErrored, JobStates, HandlerSteps, locals
<1>2. Idle'
  BY DEF JInv, Idle, Dequeue, locals
<1>3. Progress'
  <2>1. Before(pos)' = {}
    BY DEF JInv, Idle, Dequeue, locals, Before
  <2>2. pos' = 1 /\ kinds' = {} /\ hpc' \in {"idle", "scan"}
    BY DEF JInv, Idle, Dequeue, locals
  <2>3. Len(Refs[u]) \in Nat
    BY RefsSeq
  <2>4. QED
    BY <2>1, <2>2, <2>3 DEF Progress, Dequeue
<1>4. ASSUME NEW v \in Uploads, jobState'[v] = "completed"
      PROVE  Done(v)'
  <2>1. jobState'[v] = jobState[v]
    BY <1>4 DEF JInv, DTypes, Dequeue, MarkErrored
  <2>2. QED
    BY <2>1, <1>4 DEF JInv, Dequeue, Done, KnownPkgs, KindsOf
<1>5. QED
  BY <1>1, <1>2, <1>3, <1>4 DEF JInv

(* One step of the loop over the references: the reference at the cursor *)
(* joins the kinds seen and, when its scheme is known and no error was    *)
(* collected, the dependency repos.                                       *)
LEMMA ScanJInv ==
  ASSUME JInv, NEW r \in {"ok", "next", "insert"}, Scan(r)
  PROVE  JInv'
<1> DEFINE refs == Refs[cur]
           p == refs[pos]
           k == SchemeKind[p]
<1>0. /\ hpc = "scan"
      /\ UNCHANGED <<cur, indexJobs>>
  BY DEF Scan, ScanWith
<1>1. CASE r = "next"
  <2>1. Return(TRUE) /\ UNCHANGED depRepos
    BY <1>1 DEF Scan, ScanWith
  <2>2. QED
    BY <2>1, <1>0, ReturnJInv
<1>2. CASE r # "next" /\ pos > Len(refs)
  <2>1. /\ hpc' \in {"list", "should"}
        /\ UNCHANGED <<jobState, attempts, pos, kinds, errs, idxLeft, depRepos>>
    BY <1>2 DEF Scan, ScanWith, locals
  <2>2. ~errs => pos = Len(refs) + 1
    BY <1>0, <1>2, RefsSeq DEF JInv, Progress, DTypes
  <2>3. QED
    BY <1>0, <2>1, <2>2 DEF JInv, DTypes, HandlerSteps, Idle, Progress, Before,
                         Done, KnownPkgs, KindsOf
<1>3. CASE r # "next" /\ pos <= Len(refs)
  <2>0. ~(pos > Len(refs))
    BY <1>3, RefsSeq DEF JInv, DTypes
  <2>1. /\ kinds' = kinds \cup {k}
        /\ pos' = pos + 1
        /\ UNCHANGED <<hpc, jobState, attempts, idxLeft>>
        /\ \/ /\ k = NoKind \/ r = "insert"
              /\ errs' = (errs \/ (k # NoKind /\ r = "insert"))
              /\ depRepos' = depRepos
           \/ /\ depRepos' = depRepos \cup {p}
              /\ errs' = errs
    BY <1>3, <2>0, Zenon DEF Scan, ScanWith
  <2>2. pos \in 1..Len(refs) /\ Len(refs) \in Nat
    BY <1>3, RefsSeq DEF JInv, DTypes
  <2>3. p \in Pkgs /\ k \in AllKinds
    BY <2>2, RefsSeq, DependencySyncAssumption DEF AllKinds, JInv, DTypes
  <2>4. depRepos \subseteq depRepos' /\ depRepos' \subseteq Pkgs
    BY <2>1, <2>3 DEF JInv, DTypes
  <2>5. DTypes'
    <3>1. pos' \in Nat /\ pos' >= 1
      BY <2>1, <2>2
    <3>2. errs' \in BOOLEAN
      BY <2>1 DEF JInv, DTypes
    <3>3. QED
      BY <3>1, <3>2, <2>1, <2>3, <2>4, <1>0 DEF JInv, DTypes
  <2>6. Idle'
    BY <2>1, <1>0 DEF Idle
  <2>7. Progress'
    <3> SUFFICES ASSUME ~errs'
                 PROVE  /\ pos' \in 1..(Len(refs) + 1)
                        /\ \A i \in Before(pos') : SchemeKind[refs[i]] # NoKind => refs[i] \in depRepos'
                        /\ kinds' = {SchemeKind[refs[i]] : i \in Before(pos')}
      BY <2>1, <1>0 DEF Progress, Before
    <3>1. ~errs /\ (k # NoKind => p \in depRepos')
      BY <2>1, Zenon DEF JInv, DTypes
    <3>2. Before(pos') = Before(pos) \cup {pos}
      BY <2>1, <2>2, <1>0 DEF Before
    <3>3. /\ \A i \in Before(pos) : SchemeKind[refs[i]] # NoKind => refs[i] \in depRepos
          /\ kinds = {SchemeKind[refs[i]] : i \in Before(pos)}
      BY <3>1, <1>0 DEF JInv, Progress
    <3>4. QED
      BY <3>1, <3>2, <3>3, <2>1, <2>2, <2>4
  <2>8. ASSUME NEW u \in Uploads, jobState'[u] = "completed"
        PROVE  Done(u)'
    BY <2>1, <2>4, <2>8, <1>0, DoneStable DEF JInv, DTypes
  <2>9. QED
    BY <2>5, <2>6, <2>7, <2>8 DEF JInv
<1>4. QED
  BY <1>1, <1>2, <1>3, RefsSeq DEF JInv, DTypes

(* List and Upsert move on past the scan, or return an error. *)
LEMMA ListJInv ==
  ASSUME JInv, NEW ok \in BOOLEAN, List(ok)
  PROVE  JInv'
<1>1. CASE ok
  <2>1. /\ hpc = "list" /\ hpc' \in {"upsert", "should"}
        /\ UNCHANGED <<jobState, attempts, cur, pos, kinds, errs, idxLeft,
                       depRepos, indexJobs>>
    BY <1>1 DEF List
  <2>2. QED
    BY <2>1 DEF JInv, DTypes, HandlerSteps, Idle, Progress, Before, Done,
                KnownPkgs, KindsOf
<1>2. CASE ~ok
  BY <1>2, ReturnJInv DEF List
<1>3. QED
  BY <1>1, <1>2

LEMMA UpsertJInv ==
  ASSUME JInv, NEW ok \in BOOLEAN, Upsert(ok)
  PROVE  JInv'
<1>1. /\ hpc = "upsert" /\ hpc' = "should"
      /\ UNCHANGED <<jobState, attempts, cur, pos, kinds, idxLeft, depRepos,
                     indexJobs>>
      /\ errs' \in BOOLEAN /\ (~errs' => ~errs)
  BY DEF Upsert, JInv, DTypes
<1>2. QED
  BY <1>1 DEF JInv, DTypes, HandlerSteps, Idle, Progress, Before, Done,
              KnownPkgs, KindsOf

(* shouldIndexDependencies: with indexing every kind seen is left to do; *)
(* without it the call returns, and a nil result finds the scan done.    *)
LEMMA ShouldJInv ==
  ASSUME JInv, NEW ok \in BOOLEAN, Should(ok)
  PROVE  JInv'
<1>0. hpc = "should"
  BY DEF Should
<1>1. CASE ok /\ Indexed[cur]
  <2>1. /\ hpc' = "index" /\ idxLeft' = kinds
        /\ UNCHANGED <<jobState, attempts, cur, pos, kinds, errs, depRepos,
                       indexJobs>>
    BY <1>1 DEF Should
  <2>2. QED
    BY <2>1, <1>0 DEF JInv, DTypes, HandlerSteps, Idle, Progress, Before,
                      Done, KnownPkgs, KindsOf
<1>2. CASE ~(ok /\ Indexed[cur])
  <2>1. Return(~ok \/ errs) /\ UNCHANGED <<cur, depRepos, indexJobs>>
    BY <1>2 DEF Should
  <2>2. ~(~ok \/ errs) => Done(cur)
    <3> SUFFICES ASSUME ok, ~errs PROVE Done(cur)
      OBVIOUS
    <3>1. ~Indexed[cur]
      BY <1>2
    <3>2. KnownPkgs(cur) \subseteq depRepos
      BY <1>0, ScanOver DEF JInv
    <3>3. QED
      BY <3>1, <3>2 DEF Done
  <2>3. (~ok \/ errs) \in BOOLEAN
    BY DEF JInv, DTypes
  <2>4. QED
    BY <2>1, <2>2, <2>3, ReturnJInv
<1>3. QED
  BY <1>1, <1>2

(* One indexing job: a kind no longer left has its job unless an error   *)
(* was collected.                                                        *)
LEMMA IndexJInv ==
  ASSUME JInv, NEW k \in AllKinds, NEW ok \in BOOLEAN, Index(k, ok)
  PROVE  JInv'
<1>1. /\ hpc = "index" /\ k \in idxLeft
      /\ idxLeft' = idxLeft \ {k}
      /\ indexJobs' = IF ok THEN [indexJobs EXCEPT ![<<cur, k>>] = @ + 1] ELSE indexJobs
      /\ errs' = (errs \/ ~ok)
      /\ UNCHANGED <<hpc, jobState, attempts, cur, pos, kinds, depRepos>>
  BY DEF Index
<1>2. <<cur, k>> \in Uploads \X AllKinds
  BY DEF JInv, DTypes
<1>3. /\ indexJobs' \in [Uploads \X AllKinds -> Nat]
      /\ \A j \in Uploads \X AllKinds : indexJobs'[j] >= indexJobs[j]
      /\ ok => indexJobs'[<<cur, k>>] >= 1
  <2>1. CASE ok
    BY <2>1, <1>1, <1>2 DEF JInv, DTypes
  <2>2. CASE ~ok
    BY <2>2, <1>1 DEF JInv, DTypes
  <2>3. QED
    BY <2>1, <2>2
<1>4. DTypes'
  BY <1>1, <1>3 DEF JInv, DTypes
<1>5. Idle'
  BY <1>1 DEF Idle
<1>6. Progress'
  <2>1. ~errs' => ok /\ ~errs
    BY <1>1 DEF JInv, DTypes
  <2>2. ASSUME ~errs'
        PROVE  /\ idxLeft' \subseteq kinds
               /\ \A j \in kinds \ idxLeft' : indexJobs'[<<cur, j>>] >= 1
    <3>1. /\ idxLeft \subseteq kinds
          /\ \A j \in kinds \ idxLeft : indexJobs[<<cur, j>>] >= 1
      BY <1>1, <2>1, <2>2 DEF JInv, Progress
    <3>2. \A j \in kinds : <<cur, j>> \in Uploads \X AllKinds
      BY DEF JInv, DTypes
    <3>3. QED
      BY <1>1, <1>3, <2>1, <2>2, <3>1, <3>2
  <2>3. QED
    BY <1>1, <2>1, <2>2 DEF JInv, Progress, Before
<1>7. ASSUME NEW u \in Uploads, jobState'[u] = "completed"
      PROVE  Done(u)'
  <2>1. Done(u)
    BY <1>1, <1>7 DEF JInv
  <2>2. QED
    BY <2>1, <1>1, <1>3, DoneStable DEF JInv, DTypes
<1>8. QED
  BY <1>4, <1>5, <1>6, <1>7 DEF JInv

(* After the last kind the call returns what it collected; a nil result *)
(* finds every kind of the upload with its indexing job.                *)
LEMMA IndexDoneJInv ==
  ASSUME JInv, IndexDone
  PROVE  JInv'
<1>1. /\ hpc = "index" /\ idxLeft = {}
      /\ Return(errs) /\ UNCHANGED <<cur, depRepos, indexJobs>>
  BY DEF IndexDone
<1>2. ~errs => Done(cur)
  <2> SUFFICES ASSUME ~errs PROVE Done(cur)
    OBVIOUS
  <2>1. KnownPkgs(cur) \subseteq depRepos /\ kinds = KindsOf(cur)
    BY <1>1, ScanOver DEF JInv
  <2>2. \A j \in kinds : indexJobs[<<cur, j>>] >= 1
    BY <1>1 DEF JInv, Progress
  <2>3. QED
    BY <2>1, <2>2 DEF Done
<1>3. QED
  BY <1>1, <1>2, ReturnJInv DEF JInv, DTypes

LEMMA NextJInv == JInv /\ [DepNext]_depVars => JInv'
<1> SUFFICES ASSUME JInv, [DepNext]_depVars PROVE JInv'
  OBVIOUS
<1>1. CASE ScheduleStep
  BY <1>1, QuietJInv DEF ScheduleStep, schedVars
<1>2. CASE PassStart
  BY <1>2, QuietJInv DEF PassStart, locals
<1>3. CASE \E modified, err, upserted \in BOOLEAN : PassEnd(modified, err, upserted)
  BY <1>3, QuietJInv DEF PassEnd, locals
<1>4. CASE \E u \in Uploads, ok \in BOOLEAN : Dequeue(u, ok)
  BY <1>4, DequeueJInv
<1>5. CASE \E r \in {"ok", "next", "insert"} : Scan(r)
  BY <1>5, ScanJInv
<1>6. CASE \E ok \in BOOLEAN : List(ok) \/ Upsert(ok) \/ Should(ok)
  BY <1>6, ListJInv, UpsertJInv, ShouldJInv
<1>7. CASE \E k \in AllKinds, ok \in BOOLEAN : Index(k, ok)
  BY <1>7, IndexJInv
<1>8. CASE IndexDone
  BY <1>8, IndexDoneJInv
<1>9. CASE UNCHANGED depVars
  BY <1>9, QuietJInv DEF depVars, schedVars
<1>10. QED
  BY <1>1, <1>2, <1>3, <1>4, <1>5, <1>6, <1>7, <1>8, <1>9
  DEF DepNext, HandlerStep

-----------------------------------------------------------------------------
(* Theorems *)

(* The strengthening holds in every state of the scheduler. *)
THEOREM JInvHolds == DepSpec => []JInv
BY InitJInv, NextJInv, PTL DEF DepSpec

(* A job the worker marks completed has inserted every dependency repo of *)
(* a known scheme and, for an indexed upload, an indexing job for every   *)
(* kind seen (dependencySyncSchedulerHandler.Handle with the worker's     *)
(* MarkComplete), for every set of uploads, references and kinds.         *)
THEOREM CompletedJobDidItsWorkHolds == DepSpec => []CompletedJobDidItsWork
<1>1. JInv => CompletedJobDidItsWork
  BY DEF JInv, Done, CompletedJobDidItsWork
<1>2. QED
  BY <1>1, JInvHolds, PTL
-----------------------------------------------------------------------------
(* The schedule of the package host.  Handle's Upsert writes NextSyncAt   *)
(* and the LastSyncAt List read, and a pass computes its interval from   *)
(* the LastSyncAt it read when it began; Clocks says that every time the *)
(* scheduler holds between two steps is a clock reading or the zero      *)
(* time, which is what makes those writes and reads harmless to the      *)
(* bounds.                                                                *)

Clocks ==
  /\ TypeOK
  /\ at \in 0..MaxTime
  /\ snap \in [lastSync : {ZeroTime} \cup 0..MaxTime, found : BOOLEAN]
  /\ running \in BOOLEAN
  /\ passLast \in {ZeroTime} \cup 0..MaxTime

ClockInv == Clocks /\ IntervalBounds


(* A Duration is its own wrap-around: a product that fits does not wrap. *)
LEMMA WrapId ==
  ASSUME NEW x \in Duration
  PROVE  Wrap(x) = x
<1>1. x + MaxDuration + 1 \in 0..(2 * (MaxDuration + 1) - 1)
  BY DurationAssumption DEF Duration
<1>2. (x + MaxDuration + 1) % (2 * (MaxDuration + 1)) = x + MaxDuration + 1
  BY <1>1, DurationAssumption
<1>3. QED
  BY <1>2, DurationAssumption DEF Wrap, Duration

(* Doubling the saturated difference wraps around to -2. *)
LEMMA WrapDoubleMax == Wrap(MaxDuration * 2) = -2
<1> DEFINE m == MaxDuration
<1>1. m * 2 + m + 1 = (2 * (m + 1)) + (m - 1)
  BY DurationAssumption
<1>2. m - 1 \in 0..(2 * (m + 1) - 1)
  BY DurationAssumption
<1>3. (m * 2 + m + 1) % (2 * (m + 1)) = m - 1
  BY <1>1, <1>2, DurationAssumption
<1>4. QED
  BY <1>3, DurationAssumption DEF Wrap

LEMMA InitClocks == DepInit => Clocks
<1> SUFFICES ASSUME DepInit PROVE Clocks
  OBVIOUS
<1>1. TypeOK
  BY InitTypeOK DEF DepInit
<1>0. at = 0 /\ running = FALSE /\ passLast = ZeroTime
      /\ snap = [lastSync |-> ZeroTime, found |-> FALSE]
  BY DEF DepInit
<1>1a. 0 \in 0..MaxTime
  BY TimeAssumption
<1>2. at \in 0..MaxTime /\ running \in BOOLEAN
  BY <1>0, <1>1a, Zenon
<1>3. snap \in [lastSync : {ZeroTime} \cup 0..MaxTime, found : BOOLEAN]
  BY <1>0
<1>4. passLast \in {ZeroTime} \cup 0..MaxTime
  BY <1>0
<1>5. QED
  BY <1>1, <1>2, <1>3, <1>4 DEF Clocks

(* The steps of Handle leave the schedule alone, but for Upsert, and     *)
(* keep the times they hold clock readings.                               *)
LEMMA HandlerClocks ==
  ASSUME Clocks, HandlerStep
  PROVE  Clocks'
<1>1. ASSUME NEW failed, Return(failed), UNCHANGED <<vars, running, passLast>>
      PROVE  Clocks'
  BY <1>1, TimeAssumption DEF Return, NoSnap, Clocks, TypeOK, vars
<1>2. CASE \E u \in Uploads, ok \in BOOLEAN : Dequeue(u, ok)
  BY <1>2 DEF Dequeue, locals, Clocks, TypeOK, vars
<1>3. CASE \E r \in {"ok", "next", "insert"} : Scan(r)
  <2>1. PICK r \in {"ok", "next", "insert"} : ScanWith(r, TRUE)
    BY <1>3 DEF Scan
  <2>2. CASE r = "next"
    BY <2>1, <2>2, <1>1 DEF ScanWith
  <2>3. CASE r # "next"
    BY <2>1, <2>3 DEF ScanWith, locals, Clocks, TypeOK, vars
  <2>4. QED
    BY <2>2, <2>3
<1>4. ASSUME NEW ok \in BOOLEAN, List(ok) PROVE Clocks'
  <2>1. CASE ok
    <3>1. at' = now /\ now \in 0..MaxTime
      BY <1>4, <2>1 DEF List, Clocks, TypeOK
    <3>2. snap' \in [lastSync : {ZeroTime} \cup 0..MaxTime, found : BOOLEAN]
      <4>1. snap' = [lastSync |-> lastSync, found |-> SvcKind \in kinds]
        BY <1>4, <2>1 DEF List
      <4>2. lastSync \in {ZeroTime} \cup 0..MaxTime
        BY DEF Clocks, TypeOK
      <4>3. (SvcKind \in kinds) \in BOOLEAN
        OBVIOUS
      <4>4. QED
        BY <4>1, <4>2, <4>3
    <3>3. UNCHANGED <<vars, running, passLast>>
      BY <1>4 DEF List, vars
    <3>4. at' \in 0..MaxTime
      BY <3>1, Zenon
    <3>5. QED
      BY <3>4, <3>2, <3>3 DEF Clocks, TypeOK, vars
  <2>2. CASE ~ok
    BY <1>4, <2>2, <1>1 DEF List
  <2>3. QED
    BY <2>1, <2>2
<1>5. ASSUME NEW ok \in BOOLEAN, Upsert(ok) PROVE Clocks'
  BY <1>5 DEF Upsert, Clocks, TypeOK
<1>6. ASSUME NEW ok \in BOOLEAN, Should(ok) PROVE Clocks'
  <2>1. CASE ok /\ Indexed[cur]
    BY <1>6, <2>1 DEF Should, Clocks, TypeOK, vars
  <2>2. CASE ~(ok /\ Indexed[cur])
    BY <1>6, <2>2, <1>1 DEF Should
  <2>3. QED
    BY <2>1, <2>2
<1>7. CASE \E k \in AllKinds, ok \in BOOLEAN : Index(k, ok)
  BY <1>7 DEF Index, Clocks, TypeOK, vars
<1>8. CASE IndexDone
  BY <1>8, <1>1 DEF IndexDone
<1>9. QED
  BY <1>2, <1>3, <1>4, <1>5, <1>6, <1>7, <1>8 DEF HandlerStep

LEMMA NextClocks == Clocks /\ [DepNext]_depVars => Clocks'
<1> SUFFICES ASSUME Clocks, [DepNext]_depVars PROVE Clocks'
  OBVIOUS
<1>1. CASE ScheduleStep
  <2>1. [Next]_vars
    BY <1>1 DEF ScheduleStep, Next
  <2>2. TypeOK'
    BY <2>1, NextTypeOK DEF Clocks
  <2>3. QED
    BY <1>1, <2>2 DEF ScheduleStep, schedVars, Clocks
<1>2. CASE PassStart
  BY <1>2 DEF PassStart, locals, Clocks, TypeOK, vars
<1>3. ASSUME NEW modified \in BOOLEAN, NEW err \in BOOLEAN, NEW upserted \in BOOLEAN,
             PassEnd(modified, err, upserted)
      PROVE  Clocks'
  <2>1. CalcSyncInterval(now, passLast, MinSyncInterval, modified, err)
          \in Duration \ {0}
    BY CalcSyncIntervalType, TimeAssumption DEF Clocks, TypeOK
  <2>2. nextSync' \in Int /\ interval' \in {0} \cup Duration
    BY <1>3, <2>1, TimeAssumption, DurationAssumption
    DEF PassEnd, SyncExternalServiceFrom, Clocks, TypeOK, Duration
  <2>3. QED
    BY <1>3, <2>2, TimeAssumption
    DEF PassEnd, SyncExternalServiceFrom, locals, Clocks, TypeOK
<1>4. CASE HandlerStep
  BY <1>4, HandlerClocks
<1>5. CASE UNCHANGED depVars
  BY <1>5 DEF depVars, vars, schedVars, Clocks, TypeOK
<1>6. QED
  BY <1>1, <1>2, <1>3, <1>4, <1>5 DEF DepNext

(* Only the end of a pass writes the interval, and it computes it from a *)
(* clock reading and the LastSyncAt the pass read.                        *)
LEMMA NextDepIntervalBounds ==
  ASSUME MinSyncInterval <= MaxSyncInterval
  PROVE  Clocks /\ IntervalBounds /\ [DepNext]_depVars => IntervalBounds'
<1> SUFFICES ASSUME Clocks, IntervalBounds, [DepNext]_depVars
             PROVE  IntervalBounds'
  OBVIOUS
<1>1. ASSUME NEW modified \in BOOLEAN, NEW err \in BOOLEAN, NEW upserted \in BOOLEAN,
             PassEnd(modified, err, upserted)
      PROVE  IntervalBounds'
  <2>0. now \in Int /\ passLast \in Int
    BY TimeAssumption DEF Clocks, TypeOK
  <2>1. CalcSyncInterval(now, passLast, MinSyncInterval, modified, err)
          \in MinSyncInterval..MaxSyncInterval
    BY <2>0, CalcSyncIntervalRange
  <2>2. QED
    BY <1>1, <2>1 DEF PassEnd, SyncExternalServiceFrom, IntervalBounds
<1>2. CASE ~\E modified, err, upserted \in BOOLEAN : PassEnd(modified, err, upserted)
  <2>1. UNCHANGED interval
    BY <1>2 DEF DepNext, ScheduleStep, Tick, EnqueueSyncJobs,
                TriggerExternalServiceSync, PassStart, HandlerStep, Dequeue,
                Scan, ScanWith, List, Upsert, Should, Index, IndexDone,
                depVars, vars
  <2>2. QED
    BY <2>1 DEF IntervalBounds
<1>3. QED
  BY <1>1, <1>2

(* The end of a pass that read the zero time hands out the minimum: with *)
(* no error calcSyncInterval says so, and with one the difference from    *)
(* the zero time saturates and its double wraps around below the minimum. *)
LEMMA FirstPassStep ==
  ASSUME ZeroTime + MaxDuration < 0, Clocks,
         NEW modified \in BOOLEAN, NEW err \in BOOLEAN, NEW upserted \in BOOLEAN,
         PassEnd(modified, err, upserted), passLast = ZeroTime
  PROVE  interval' = MinSyncInterval
<1>1. interval' = CalcSyncInterval(now, ZeroTime, MinSyncInterval, modified, err)
  BY DEF PassEnd, SyncExternalServiceFrom
<1>2. Sub(now, ZeroTime) = MaxDuration
  BY TimeAssumption, DurationAssumption DEF Sub, Clocks, TypeOK
<1>3. Wrap(Sub(now, ZeroTime) * 2) = -2
  BY <1>2, WrapDoubleMax
<1>4. QED
  BY <1>1, <1>3, IntervalAssumption DEF CalcSyncInterval

(* The end of a pass on the backoff branch, no sooner after the pass      *)
(* before it than the interval that pass handed out, doubles a difference *)
(* that neither saturates nor wraps, so the interval does not shrink.     *)
LEMMA BackoffStep ==
  ASSUME MinSyncInterval <= MaxSyncInterval, 2 * MaxTime <= MaxDuration,
         Clocks, IntervalBounds,
         NEW modified \in BOOLEAN, NEW err \in BOOLEAN, NEW upserted \in BOOLEAN,
         PassEnd(modified, err, upserted), passLast # ZeroTime,
         now - passLast >= interval, err \/ ~modified
  PROVE  interval' >= interval
<1> DEFINE d == now - passLast
<1>1. interval \in {0} \cup MinSyncInterval..MaxSyncInterval
  BY IntervalAssumption DEF IntervalBounds, Clocks, TypeOK, Duration
<1>2. d \in 0..MaxTime
  BY <1>1, TimeAssumption, IntervalAssumption DEF Clocks, TypeOK
<1>3. Sub(now, passLast) = d
  BY <1>2, TimeAssumption, DurationAssumption DEF Sub, Clocks, TypeOK
<1>4. Wrap(d * 2) = d * 2
  BY <1>2, WrapId, TimeAssumption, DurationAssumption DEF Duration
<1>5. interval' = CalcSyncInterval(now, passLast, MinSyncInterval, modified, err)
  BY DEF PassEnd, SyncExternalServiceFrom
<1>6. interval' = IF d * 2 < MinSyncInterval THEN MinSyncInterval
                  ELSE IF d * 2 > MaxSyncInterval THEN MaxSyncInterval
                  ELSE d * 2
  BY <1>3, <1>4, <1>5 DEF CalcSyncInterval
<1>7. QED
  BY <1>1, <1>2, <1>6, IntervalAssumption

-----------------------------------------------------------------------------
(* Theorems about the schedule *)

(* Every time the scheduler holds is a clock reading or the zero time. *)
THEOREM ClocksHold == DepSpec => []Clocks
BY InitClocks, NextClocks, PTL DEF DepSpec

(* Every interval handed out lies in [MinSyncInterval, MaxSyncInterval]   *)
(* although Handle's Upsert writes back the LastSyncAt it listed and a    *)
(* pass computes from the LastSyncAt it read when it began, provided the  *)
(* configured minimum does not exceed the 8-hour ceiling.                 *)
LEMMA DepIntervalBoundsHold ==
  ASSUME MinSyncInterval <= MaxSyncInterval
  PROVE  DepSpec => []IntervalBounds
<1>1. DepInit => IntervalBounds
  BY DEF DepInit, Init, IntervalBounds
<1>2. Clocks /\ IntervalBounds /\ [DepNext]_depVars => IntervalBounds'
  BY NextDepIntervalBounds
<1>3. QED
  BY <1>1, <1>2, ClocksHold, PTL DEF DepSpec

(* A pass of the package host that read a never-synced row hands out the *)
(* minimum interval, error or not (calcSyncInterval from a zero          *)
(* LastSyncAt), given that the zero time lies further in the past of     *)
(* every clock reading than the largest Duration: time.Time{} is year 1, *)
(* and a Duration spans 292 years.                                       *)
THEOREM PassFirstGetsMinimumHolds ==
  ASSUME ZeroTime + MaxDuration < 0
  PROVE  DepSpec => PassFirstGetsMinimum
<1>1. ASSUME Clocks
      PROVE  \A modified, err, upserted \in BOOLEAN :
               PassEnd(modified, err, upserted) /\ passLast = ZeroTime
                 => interval' = MinSyncInterval
  <2> SUFFICES ASSUME NEW modified \in BOOLEAN, NEW err \in BOOLEAN, NEW upserted \in BOOLEAN,
                      PassEnd(modified, err, upserted), passLast = ZeroTime
               PROVE  interval' = MinSyncInterval
    OBVIOUS
  <2> QED
    BY <1>1, FirstPassStep
<1>2. Clocks /\ [DepNext]_depVars
        => [\A modified, err, upserted \in BOOLEAN :
              PassEnd(modified, err, upserted) /\ passLast = ZeroTime
                => interval' = MinSyncInterval]_depVars
  BY <1>1
<1>3. QED
  BY <1>2, ClocksHold, PTL DEF DepSpec, PassFirstGetsMinimum

(* A pass on the backoff branch that ends no sooner after the pass before *)
(* it than that pass's interval never hands out a shorter one             *)
(* (calcSyncInterval from the LastSyncAt the pass read), given a minimum  *)
(* below the ceiling and clock readings less than half a Duration's span  *)
(* (146 years) apart, so that the doubled difference does not wrap.       *)
THEOREM PassBackoffNeverShrinksHolds ==
  ASSUME MinSyncInterval <= MaxSyncInterval, 2 * MaxTime <= MaxDuration
  PROVE  DepSpec => PassBackoffNeverShrinks
<1>1. ASSUME Clocks, IntervalBounds
      PROVE  \A modified, err, upserted \in BOOLEAN :
               ( /\ PassEnd(modified, err, upserted)
                 /\ passLast # ZeroTime
                 /\ now - passLast >= interval
                 /\ (err \/ ~modified) )
               => interval' >= interval
  <2> SUFFICES ASSUME NEW modified \in BOOLEAN, NEW err \in BOOLEAN, NEW upserted \in BOOLEAN,
                      PassEnd(modified, err, upserted), passLast # ZeroTime,
                      now - passLast >= interval, err \/ ~modified
               PROVE  interval' >= interval
    OBVIOUS
  <2> QED
    BY <1>1, BackoffStep
<1>2. Clocks /\ IntervalBounds /\ [DepNext]_depVars
        => [\A modified, err, upserted \in BOOLEAN :
              ( /\ PassEnd(modified, err, upserted)
                /\ passLast # ZeroTime
                /\ now - passLast >= interval
                /\ (err \/ ~modified) )
              => interval' >= interval]_depVars
  BY <1>1
<1>3. QED
  BY <1>2, ClocksHold, DepIntervalBoundsHold, PTL
  DEF DepSpec, PassBackoffNeverShrinks
=============================================================================

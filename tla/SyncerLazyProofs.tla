--------------------------- MODULE SyncerLazyProofs ---------------------------
(***************************************************************************)
(* Proofs about the passes of the syncer composed with the lazy syncs of  *)
(* SyncRepo.  A lazy sync writes the repo table, but never the steps or    *)
(* the error sets of a pass, so the argument for deletion safety of the   *)
(* passes alone (SyncerProofs) carries over to the composition.            *)
(***************************************************************************)
EXTENDS SyncerLazy, SyncerProofs

(* The rows a lazy transaction's plan names exist, as for the handlers,   *)
(* and so does the row the lookup of a call found.                         *)
LazyInStore ==
  \A c \in Callers :
    /\ lstored[c] \in {0} \cup Ids
    /\ lplan[c].target \in {0} \cup Ids
    /\ lplan[c].conflict \in {0} \cup Ids
    /\ lplan[c].kind \in {"update", "unmodified"} => lplan[c].target \in Ids

(* A call that got past the lookup has a name, and one that got past the  *)
(* listing of services has the service of its host.                        *)
LazyNamed ==
  \A c \in Callers :
    /\ lpc[c] # "idle" => lname[c] \in Names
    /\ lpc[c] \in {"fetch", "tx", "apply", "publish", "delete", "notify"} => SvcOf(c) \in Svcs

LazyInv == TypeInv /\ LazyTypeOK /\ LazyInStore /\ LazyNamed

-----------------------------------------------------------------------------
(* Typing of the composition: one lemma per step. *)

LEMMA LazyInitInv == LazyInit => LazyInv
<1> SUFFICES ASSUME LazyInit PROVE LazyInv
  OBVIOUS
<1>1. TypeInv
  BY InitTypeInv DEF LazyInit
<1>2. NoPlan \in Plan /\ NoPlan.repo \in Candidate /\ EmptyDiff \in Diff
  BY NoPlanType, EmptyDiffType DEF Plan
<1>3. LazyTypeOK
  BY <1>2 DEF LazyInit, LazyTypeOK, LazySteps
<1>4. LazyInStore /\ LazyNamed
  BY DEF LazyInit, LazyInStore, LazyNamed, NoPlan
<1>5. QED
  BY <1>1, <1>3, <1>4 DEF LazyInv

(* A step of the handlers keeps the calls' state, and grows the table. *)
LEMMA PassStepInv ==
  ASSUME LazyInv, PassStep
  PROVE  LazyInv'
<1>1. [Next]_vars
  BY DEF PassStep
<1>2. TypeInv'
  BY <1>1, NextTypeInv DEF LazyInv
<1>3. Ids \subseteq Ids'
  BY <1>1, NextIdsGrow DEF LazyInv, Ids
<1>4. LazyTypeOK'
  BY DEF LazyInv, LazyTypeOK, PassStep
<1>5. LazyInStore' /\ LazyNamed'
  BY <1>3 DEF LazyInv, LazyInStore, LazyNamed, PassStep, SvcOf
<1>6. QED
  BY <1>2, <1>4, <1>5 DEF LazyInv

(* A step of a call that leaves the handlers' state and the table alone  *)
(* keeps the handlers' invariant.                                          *)
LEMMA CallKeepsTypeInv ==
  ASSUME TypeInv, UNCHANGED vars
  PROVE  TypeInv'
BY DEF TypeInv, TypeOK, PlanInStore, JobHeld, vars, Ids

LEMMA SameTable ==
  ASSUME UNCHANGED vars
  PROVE  repos' = repos /\ Ids' = Ids /\ pc' = pc
BY DEF vars, Ids

(* The end of syncRepo's function keeps the calls' state well formed. *)
(* The handlers' invariant survives a step that only grows the table with *)
(* rows and adds row IDs to the scheduler's view.                          *)
LEMMA TableGrowsTypeInv ==
  ASSUME TypeInv, repos' \in Seq(Row), Ids \subseteq Ids', view' \in SUBSET Nat,
         UNCHANGED <<pc, job, seen, errs, items, plan, pending, started, streamErrs>>
  PROVE  TypeInv'
BY DEF TypeInv, TypeOK, PlanInStore, JobHeld, Ids

(* The end of syncRepo's function (Finish), in a step whose effect on the *)
(* table and the view keeps the handlers' invariant, keeps the calls'     *)
(* state well formed; the step may drop the call's plan.                   *)
LEMMA FinishCore ==
  ASSUME LazyInv, NEW c \in Callers, lpc[c] # "idle", Finish(c),
         TypeInv', Ids \subseteq Ids',
         UNCHANGED <<lname, lstored, llead, lrepo, ldone, racing>>,
         lplan' = lplan \/ lplan' = [lplan EXCEPT ![c] = NoPlan]
  PROVE  LazyInv'
<1>0. NoPlan \in Plan /\ NoPlan.target = 0 /\ NoPlan.conflict = 0 /\ NoPlan.kind = "none"
  BY NoPlanType DEF NoPlan
<1>1. LazyTypeOK'
  BY <1>0, EmptyDiffType DEF LazyInv, LazyTypeOK, Finish, LazySteps
<1>5. LazyInStore'
  BY <1>0 DEF LazyInv, LazyTypeOK, LazyInStore
<1>6. LazyNamed'
  BY DEF LazyInv, LazyTypeOK, LazyNamed, Finish, SvcOf
<1>7. QED
  BY <1>1, <1>5, <1>6 DEF LazyInv

LEMMA FinishInv ==
  ASSUME LazyInv, NEW c \in Callers, lpc[c] # "idle", Finish(c),
         UNCHANGED <<vars, lname, lstored, llead, lrepo, lplan, ldone, racing>>
  PROVE  LazyInv'
<1>1. UNCHANGED vars
  OBVIOUS
<1>2. TypeInv'
  BY <1>1, CallKeepsTypeInv DEF LazyInv
<1>3. Ids' = Ids
  BY <1>1, SameTable
<1>4. QED
  BY <1>2, <1>3, FinishCore

LEMMA LookupInv ==
  ASSUME LazyInv, NEW c \in Callers, NEW n \in Names, NEW ok \in BOOLEAN,
         NEW recent \in BOOLEAN, LazyLookup(c, n, ok, recent)
  PROVE  LazyInv'
<1> DEFINE byName == {i \in Live : repos[i].name = n}
           st == IF byName = {} THEN 0 ELSE CHOOSE i \in byName : TRUE
<1>1. st \in {0} \cup Ids /\ Ids \subseteq Nat
  BY DEF Live, Ids, LazyInv, TypeInv, TypeOK
<1>2. /\ lstored' = [lstored EXCEPT ![c] = st] /\ lname' = [lname EXCEPT ![c] = n]
      /\ \/ lpc' = [lpc EXCEPT ![c] = "done"]
         \/ lpc' = [lpc EXCEPT ![c] = "do"]
      /\ UNCHANGED <<vars, llead, lrepo, lplan, lpend, ldone, flight, racing>>
  BY DEF LazyLookup
<1>3. LazyTypeOK'
  <2>1. lname' \in [Callers -> Names \cup {NoName}] /\ lstored' \in [Callers -> Nat]
    <3>1. st \in Nat
      BY DEF Live, Ids, LazyInv, TypeInv, TypeOK
    <3>2. lname \in [Callers -> Names \cup {NoName}] /\ lstored \in [Callers -> Nat]
      BY DEF LazyInv, LazyTypeOK
    <3>3. QED
      BY <1>2, <3>1, <3>2
  <2>2. lpc' \in [Callers -> LazySteps]
    <3>1. lpc \in [Callers -> LazySteps]
      BY DEF LazyInv, LazyTypeOK
    <3>2. QED
      BY <1>2, <3>1 DEF LazySteps
  <2>3. QED
    BY <1>2, <2>1, <2>2 DEF LazyInv, LazyTypeOK
<1>4. TypeInv'
  BY CallKeepsTypeInv DEF LazyInv, LazyLookup
<1>5. Ids' = Ids
  BY <1>2, SameTable
<1>6. LazyInStore' /\ LazyNamed'
  BY <1>1, <1>2, <1>5 DEF LazyInv, LazyTypeOK, LazyInStore, LazyNamed, SvcOf
<1>7. QED
  BY <1>3, <1>4, <1>6 DEF LazyInv

LEMMA DoInv ==
  ASSUME LazyInv, NEW c \in Callers, LazyDo(c)
  PROVE  LazyInv'
<1>1. lname[c] \in Names
  BY DEF LazyDo, LazyInv, LazyNamed
<1>2. LazyTypeOK'
  BY <1>1 DEF LazyInv, LazyTypeOK, LazyDo, LazySteps
<1>3. TypeInv'
  BY CallKeepsTypeInv DEF LazyInv, LazyDo
<1>4. Ids' = Ids
  <2>1. UNCHANGED vars
    BY DEF LazyDo
  <2>2. QED
    BY <2>1, SameTable
<1>5. LazyInStore' /\ LazyNamed'
  BY <1>4 DEF LazyInv, LazyTypeOK, LazyInStore, LazyNamed, LazyDo, SvcOf
<1>6. QED
  BY <1>2, <1>3, <1>5 DEF LazyInv

LEMMA JoinReturnInv ==
  ASSUME LazyInv, NEW c \in Callers, LazyJoinReturn(c)
  PROVE  LazyInv'
BY CallKeepsTypeInv
DEF LazyInv, LazyTypeOK, LazyInStore, LazyNamed, LazyJoinReturn, LazySteps, SvcOf, vars, Ids

LEMMA ListInv ==
  ASSUME LazyInv, NEW c \in Callers, NEW ok \in BOOLEAN, LazyList(c, ok)
  PROVE  LazyInv'
<1>1. CASE ok /\ SvcOf(c) # NoSvc
  <2>1. SvcOf(c) \in Svcs
    BY <1>1, SyncerLazyAssumption DEF LazyList, LazyInv, LazyNamed, SvcOf
  <2>2. QED
    BY <1>1, <2>1, CallKeepsTypeInv
    DEF LazyInv, LazyTypeOK, LazyInStore, LazyNamed, LazyList, LazySteps, SvcOf, vars, Ids
<1>2. CASE ~(ok /\ SvcOf(c) # NoSvc)
  BY <1>2, FinishInv DEF LazyList
<1>3. QED
  BY <1>1, <1>2

LEMMA FetchRepoInv ==
  ASSUME LazyInv, NEW c \in Callers, SvcOf(c) \in Svcs,
         NEW r \in Listing[SvcOf(c)], LazyFetchRepo(c, r)
  PROVE  LazyInv'
<1>1. r \in Candidate
  BY SyncerAssumption
<1>2. LazyTypeOK'
  BY <1>1 DEF LazyInv, LazyTypeOK, LazyFetchRepo, LazySteps
<1>3. QED
  BY <1>2, CallKeepsTypeInv
  DEF LazyInv, LazyInStore, LazyNamed, LazyFetchRepo, SvcOf, vars, Ids

LEMMA FetchErrInv ==
  ASSUME LazyInv, NEW c \in Callers, NEW e, LazyFetchErr(c, e)
  PROVE  LazyInv'
<1>1. CASE e \in GoneErrs
  BY <1>1, CallKeepsTypeInv
  DEF LazyInv, LazyTypeOK, LazyInStore, LazyNamed, LazyFetchErr, LazySteps, SvcOf, vars, Ids
<1>2. CASE e \notin GoneErrs
  BY <1>2, FinishInv DEF LazyFetchErr
<1>3. QED
  BY <1>1, <1>2

LEMMA TxInv ==
  ASSUME LazyInv, NEW c \in Callers, NEW ok \in BOOLEAN, LazyTx(c, ok)
  PROVE  LazyInv'
<1>1. CASE ok
  <2> DEFINE np == SyncPlan(SvcOf(c), lrepo[c])
  <2>1. /\ np \in Plan
        /\ np.target \in {0} \cup Ids /\ np.conflict \in {0} \cup Ids
        /\ np.kind \in {"update", "unmodified"} => np.target \in Ids
    BY SyncPlanType DEF LazyInv, TypeInv, TypeOK, LazyTypeOK
  <2>2. lplan' = [lplan EXCEPT ![c] = np] /\ lpc' = [lpc EXCEPT ![c] = "apply"]
    BY <1>1 DEF LazyTx
  <2>3. LazyTypeOK'
    BY <1>1, <2>1, <2>2 DEF LazyInv, LazyTypeOK, LazyTx, LazySteps
  <2>4. QED
    BY <1>1, <2>1, <2>2, <2>3, CallKeepsTypeInv
    DEF LazyInv, LazyInStore, LazyNamed, LazyTx, SvcOf, vars, Ids
<1>2. CASE ~ok
  BY <1>2, FinishInv DEF LazyTx
<1>3. QED
  BY <1>1, <1>2

LEMMA ApplyInv ==
  ASSUME LazyInv, NEW c \in Callers, NEW ok \in BOOLEAN, LazyApply(c, ok)
  PROVE  LazyInv'
<1> DEFINE p == lplan[c]
           s == SvcOf(c)
<1>0. /\ lpc[c] = "apply" /\ s \in Svcs /\ p \in Plan
      /\ p.conflict \in {0} \cup Ids
      /\ p.kind \in {"update", "unmodified"} => p.target \in Ids
  BY DEF LazyApply, LazyInv, LazyNamed, LazyTypeOK, LazyInStore
<1>1. CASE ok /\ p.kind # "limit" /\ Commits(p)
  <2>1. p.kind \in {"create", "update", "unmodified"}
    BY <1>1 DEF Commits
  <2>2. /\ WrittenRepos(p, s) \in Seq(Row)
        /\ Ids \subseteq DOMAIN WrittenRepos(p, s)
        /\ WrittenDiff(p) \in Diff
    BY <1>0, <2>1, WrittenType DEF LazyInv, TypeInv, TypeOK
  <2>3. /\ repos' = WrittenRepos(p, s)
        /\ lpend' = [lpend EXCEPT ![c] = WrittenDiff(p)]
        /\ lpc' = [lpc EXCEPT ![c] = "publish"]
        /\ racing' = [h \in Handlers |->
                        IF pc[h] # "idle" /\ job[h] = s /\ p.kind # "unmodified"
                        THEN racing[h] \cup {<<i, s>> : i \in DiffRepos(WrittenDiff(p))}
                        ELSE racing[h]]
        /\ lplan' = [lplan EXCEPT ![c] = NoPlan]
        /\ UNCHANGED <<pc, job, seen, errs, items, plan, pending, view, started,
                       streamErrs, lname, lstored, llead, lrepo, ldone, flight>>
    BY <1>1 DEF LazyApply
  <2>4. Ids \subseteq Ids'
    BY <2>2, <2>3 DEF Ids
  <2>5. TypeInv'
    <3>1. repos' \in Seq(Row) /\ view' \in SUBSET Nat
      BY <2>2, <2>3 DEF LazyInv, TypeInv, TypeOK
    <3>2. UNCHANGED <<pc, job, seen, errs, items, plan, pending, started, streamErrs>>
      BY <2>3
    <3>3. QED
      BY <2>4, <3>1, <3>2, TableGrowsTypeInv DEF LazyInv
  <2>6. DiffRepos(WrittenDiff(p)) \subseteq Nat
    BY <2>2 DEF Diff, DiffRepos
  <2>7. NoPlan \in Plan /\ NoPlan.target = 0 /\ NoPlan.conflict = 0 /\ NoPlan.kind = "none"
    BY NoPlanType DEF NoPlan
  <2>8. LazyTypeOK'
    <3>1. {<<i, s>> : i \in DiffRepos(WrittenDiff(p))} \subseteq Nat \X Svcs
      BY <1>0, <2>6
    <3>2. racing' \in [Handlers -> SUBSET (Nat \X Svcs)]
      BY <2>3, <3>1 DEF LazyInv, LazyTypeOK
    <3>3. /\ lpend' \in [Callers -> Diff] /\ lplan' \in [Callers -> Plan]
          /\ lpc' \in [Callers -> LazySteps]
      BY <2>2, <2>3, <2>7 DEF LazyInv, LazyTypeOK, LazySteps
    <3>4. QED
      BY <2>3, <3>2, <3>3 DEF LazyInv, LazyTypeOK
  <2>9. LazyInStore'
    BY <2>3, <2>4, <2>7 DEF LazyInv, LazyTypeOK, LazyInStore
  <2>10. LazyNamed'
    <3>1. lname' = lname /\ lpc' = [lpc EXCEPT ![c] = "publish"]
      BY <2>3
    <3>2. QED
      BY <1>0, <3>1 DEF LazyInv, LazyTypeOK, LazyNamed, SvcOf
  <2>11. QED
    BY <2>5, <2>8, <2>9, <2>10 DEF LazyInv
<1>2. CASE ~(ok /\ p.kind # "limit" /\ Commits(p))
  <2>1. /\ Finish(c) /\ lpc[c] # "idle"
        /\ UNCHANGED <<vars, lname, lstored, llead, lrepo, ldone, racing>>
        /\ lplan' = [lplan EXCEPT ![c] = NoPlan]
    BY <1>2 DEF LazyApply, vars
  <2>2. TypeInv' /\ Ids' = Ids
    BY <2>1, CallKeepsTypeInv, SameTable DEF LazyInv
  <2>3. QED
    BY <2>1, <2>2, FinishCore
<1>3. QED
  BY <1>1, <1>2

(* The sends on Synced of a call, and their giving up. *)
LEMMA SendInv ==
  ASSUME LazyInv, NEW c \in Callers,
         LazyPublish(c) \/ LazyNotify(c) \/ LazyPublishCancelled(c) \/ LazyNotifyCancelled(c)
  PROVE  LazyInv'
<1>1. /\ Finish(c) /\ lpc[c] # "idle"
      /\ UNCHANGED <<repos, pc, job, seen, errs, items, plan, pending, started,
                     streamErrs, lname, lstored, llead, lrepo, lplan, ldone, racing>>
      /\ view' \in {view, UpdateFromDiff(view, lpend[c])}
  BY DEF LazyPublish, LazyNotify, LazyPublishCancelled, LazyNotifyCancelled, vars
<1>2. view' \in SUBSET Nat
  BY <1>1 DEF LazyInv, TypeInv, TypeOK, LazyTypeOK, UpdateFromDiff, Diff
<1>3. TypeInv' /\ Ids' = Ids
  BY <1>1, <1>2, TableGrowsTypeInv DEF LazyInv, TypeInv, TypeOK, Ids
<1>4. QED
  BY <1>1, <1>3, FinishCore

(* The deferred delete of syncRepo on a gone error. *)
LEMMA DeleteInv ==
  ASSUME LazyInv, NEW c \in Callers, NEW ok \in BOOLEAN, LazyDelete(c, ok)
  PROVE  LazyInv'
<1> DEFINE i == lstored[c]
           s == SvcOf(c)
           shrunk == [repos[i] EXCEPT !.svcs = @ \ {s}]
<1>0a. i \in {0} \cup Ids
  BY DEF LazyInv, LazyInStore
<1>0b. Ids \subseteq Nat
  BY DEF LazyInv, TypeInv, TypeOK, Ids
<1>0. i \in {0} \cup Ids /\ Ids \subseteq Nat
  BY <1>0a, <1>0b
<1>1. CASE i = 0
  <2>1. /\ Finish(c) /\ lpc[c] # "idle"
        /\ UNCHANGED <<vars, lname, lstored, llead, lrepo, lplan, ldone, racing>>
    BY <1>1 DEF LazyDelete, vars
  <2>2. QED
    BY <2>1, FinishInv
<1>2. CASE i # 0
  <2>1. i \in Ids /\ repos[i] \in Row
    BY <1>0, <1>2 DEF LazyInv, TypeInv, TypeOK, Ids
  <2>2. shrunk \in Row /\ SoftDeleted(shrunk) \in Row
    BY <2>1, SoftDeletedType DEF Row
  <2>3. repos' \in Seq(Row) /\ Ids' = Ids
    <3> DEFINE new == IF shrunk.svcs = {} THEN SoftDeleted(shrunk) ELSE shrunk
    <3>1. repos' = repos \/ repos' = [repos EXCEPT ![i] = new]
      BY <1>2 DEF LazyDelete
    <3>2. new \in Row /\ repos \in Seq(Row) /\ i \in DOMAIN repos
      BY <2>1, <2>2 DEF LazyInv, TypeInv, TypeOK, Ids
    <3>3. [repos EXCEPT ![i] = new] \in Seq(Row)
          /\ DOMAIN [repos EXCEPT ![i] = new] = DOMAIN repos
      BY <3>2, ExceptRow
    <3>4. QED
      BY <3>1, <3>3 DEF Ids
  <2>4. /\ lpend' = [lpend EXCEPT ![c] = [EmptyDiff EXCEPT !.deleted = {i}]]
        /\ lpc' = [lpc EXCEPT ![c] = "notify"]
        /\ UNCHANGED <<pc, job, seen, errs, items, plan, pending, view, started,
                       streamErrs, lname, lstored, llead, lrepo, lplan,
                       ldone, racing, flight>>
    BY <1>2 DEF LazyDelete
  <2>5. TypeInv'
    BY <2>3, <2>4, TableGrowsTypeInv DEF LazyInv, TypeInv, TypeOK
  <2>6. [EmptyDiff EXCEPT !.deleted = {i}] \in Diff
    BY <1>0 DEF EmptyDiff, Diff
  <2>7. LazyTypeOK'
    BY <2>4, <2>6 DEF LazyInv, LazyTypeOK, LazySteps
  <2>8. LazyInStore' /\ LazyNamed'
    BY <2>3, <2>4 DEF LazyInv, LazyTypeOK, LazyInStore, LazyNamed, LazyDelete, SvcOf
  <2>9. QED
    BY <2>5, <2>7, <2>8 DEF LazyInv
<1>3. QED
  BY <1>1, <1>2

LEMMA CancelInv ==
  ASSUME LazyInv, NEW c \in Callers, LazyCancel(c)
  PROVE  LazyInv'
<1>1. TypeInv' /\ Ids' = Ids
  BY CallKeepsTypeInv, SameTable DEF LazyInv, LazyCancel
<1>2. QED
  BY <1>1 DEF LazyInv, LazyTypeOK, LazyInStore, LazyNamed, LazyCancel, SvcOf

LEMMA LazyNextInv ==
  ASSUME LazyInv, [LazyNext]_allVars
  PROVE  LazyInv'
<1>1. CASE PassStep
  BY <1>1, PassStepInv
<1>2. ASSUME NEW c \in Callers, LazyCall(c) \/ LazyCancel(c)
      PROVE  LazyInv'
  <2>1. CASE \E n \in Names, ok, recent \in BOOLEAN : LazyLookup(c, n, ok, recent)
    BY <2>1, LookupInv
  <2>2. CASE LazyDo(c)
    BY <2>2, DoInv
  <2>3. CASE LazyJoinReturn(c)
    BY <2>3, JoinReturnInv
  <2>4. CASE \E ok \in BOOLEAN : LazyList(c, ok)
    BY <2>4, ListInv
  <2>5. CASE lpc[c] = "fetch" /\ SvcOf(c) \in Svcs /\ \E r \in Listing[SvcOf(c)] : LazyFetchRepo(c, r)
    BY <2>5, FetchRepoInv
  <2>6. CASE \E e \in GoneErrs \cup {"transient"} : LazyFetchErr(c, e)
    BY <2>6, FetchErrInv
  <2>7. CASE \E ok \in BOOLEAN : LazyTx(c, ok) \/ LazyApply(c, ok) \/ LazyDelete(c, ok)
    BY <2>7, TxInv, ApplyInv, DeleteInv
  <2>8. CASE LazyPublish(c) \/ LazyPublishCancelled(c) \/ LazyNotify(c) \/ LazyNotifyCancelled(c)
    BY <2>8, SendInv
  <2>9. CASE LazyCancel(c)
    BY <2>9, CancelInv
  <2>10. QED
    BY <1>2, <2>1, <2>2, <2>3, <2>4, <2>5, <2>6, <2>7, <2>8, <2>9 DEF LazyCall
<1>3. CASE UNCHANGED allVars
  <2>1. UNCHANGED vars /\ UNCHANGED lazyVars
    BY <1>3 DEF allVars
  <2>2. TypeInv' /\ Ids' = Ids
    BY <2>1, CallKeepsTypeInv, SameTable DEF LazyInv
  <2>3. QED
    BY <2>1, <2>2 DEF LazyInv, LazyTypeOK, LazyInStore, LazyNamed, SvcOf, lazyVars
<1>4. QED
  BY <1>1, <1>2, <1>3 DEF LazyNext

(* Every state of the syncer composed with the lazy syncs is well typed: *)
(* the repo table, the handlers' state, and the state of every SyncRepo   *)
(* call (its name, the row it found, its plan, its pending Diff, the      *)
(* syncGroup flights), whatever the callers, names and services.          *)
THEOREM LazyTypeCorrect == LazySpec => [](TypeOK /\ LazyTypeOK)
<1>1. LazyInit => LazyInv
  BY LazyInitInv
<1>2. LazyInv /\ [LazyNext]_allVars => LazyInv'
  BY LazyNextInv
<1>3. LazyInv => TypeOK /\ LazyTypeOK
  BY DEF LazyInv, TypeInv
<1>4. QED
  BY <1>1, <1>2, <1>3, PTL DEF LazySpec

(* The steps of a lazy sync (SyncRepo, syncRepo, the deferred delete and  *)
(* notifyDeleted) and the cancelling of its context leave the steps and   *)
(* the error sets of the handlers alone.                                   *)
LEMMA LazyKeepsPasses ==
  ASSUME NEW c \in Callers, LazyCall(c) \/ LazyCancel(c)
  PROVE  UNCHANGED <<pc, errs, streamErrs>>
<1>1. CASE \E n \in Names, ok, recent \in BOOLEAN : LazyLookup(c, n, ok, recent)
  BY <1>1 DEF LazyLookup, vars
<1>2. CASE LazyDo(c) \/ LazyJoinReturn(c) \/ LazyCancel(c)
  BY <1>2 DEF LazyDo, LazyJoinReturn, LazyCancel, vars
<1>3. CASE \E ok \in BOOLEAN : LazyList(c, ok) \/ LazyTx(c, ok)
  BY <1>3 DEF LazyList, LazyTx, vars
<1>4. CASE \E r \in Listing[SvcOf(c)] : LazyFetchRepo(c, r)
  BY <1>4 DEF LazyFetchRepo, vars
<1>5. CASE \E e \in GoneErrs \cup {"transient"} : LazyFetchErr(c, e)
  BY <1>5 DEF LazyFetchErr, vars
<1>6. CASE \E ok \in BOOLEAN : LazyApply(c, ok) \/ LazyDelete(c, ok)
  BY <1>6 DEF LazyApply, LazyDelete
<1>7. CASE LazyPublish(c) \/ LazyPublishCancelled(c) \/ LazyNotify(c) \/ LazyNotifyCancelled(c)
  BY <1>7 DEF LazyPublish, LazyPublishCancelled, LazyNotify, LazyNotifyCancelled, vars
<1>8. QED
  BY <1>1, <1>2, <1>3, <1>4, <1>5, <1>6, <1>7 DEF LazyCall

(* Deletion safety of SyncExternalService holds while SyncRepo runs lazy  *)
(* syncs against the same table: a pass whose source reported an error    *)
(* removes no repo from its service at its end, unless the error was      *)
(* fatal and the service belongs to a user or an org.                      *)
THEOREM LazyPruneSafetyHolds == LazySpec => PruneSafety
<1>1. LazyInit => ErrsInv
  BY InitShape, InitErrsRecorded DEF LazyInit, ErrsInv
<1>2. ErrsInv /\ [LazyNext]_allVars => ErrsInv' /\ [PruneSafe]_vars
  <2> SUFFICES ASSUME ErrsInv, [LazyNext]_allVars
               PROVE  ErrsInv' /\ [PruneSafe]_vars
    OBVIOUS
  <2>1. CASE PassStep
    <3>1. [Next]_vars
      BY <2>1 DEF PassStep
    <3>2. QED
      BY <3>1, NextShape, NextErrsRecorded, PruneStepSafe DEF ErrsInv
  <2>2. CASE \E c \in Callers : LazyCall(c) \/ LazyCancel(c)
    <3>1. UNCHANGED <<pc, errs, streamErrs>>
      BY <2>2, LazyKeepsPasses
    <3>2. ErrsInv'
      BY <3>1 DEF ErrsInv, Shape, ErrsRecorded
    <3>3. PruneSafe
      BY <3>1 DEF PruneSafe
    <3>4. QED
      BY <3>2, <3>3
  <2>3. CASE UNCHANGED allVars
    BY <2>3 DEF allVars, vars, lazyVars, ErrsInv, Shape, ErrsRecorded
  <2>4. QED
    BY <2>1, <2>2, <2>3 DEF LazyNext
<1>3. QED
  BY <1>1, <1>2, PTL DEF LazySpec, PruneSafety

=============================================================================

------------------------------ MODULE SyncerLazy ------------------------------
(***************************************************************************)
(* The lazy single-repo path of the syncer (Syncer.SyncRepo, syncRepo and *)
(* notifyDeleted in internal/repos/syncer.go), composed with the passes of *)
(* Syncer: the callers share the repo table and the Synced channel with the*)
(* handlers.                                                               *)
(*                                                                         *)
(* A caller looks the name up in the store and returns at once when the   *)
(* name is on no public code host, the stored repo is private, or it was  *)
(* updated in the last minute.  Otherwise it enters syncGroup.Do(name):   *)
(* the first caller of a name runs syncRepo, later ones wait for it and   *)
(* share its result.  syncRepo finds the one cloud-default or package     *)
(* service of the host, fetches the repo from its source and applies it   *)
(* with sync(), the transaction of the passes; when the source says the   *)
(* repo is gone (not found, unauthorized, forbidden, suspended, or private)*)
(* and a stored repo was found, a deferred call removes the service from  *)
(* it and announces it as deleted.  Both sends on Synced give up when the *)
(* context is done.  A call in background mode runs the same Do in a      *)
(* goroutine with a one-minute context; the model does not tell the two   *)
(* modes apart, since the caller's result is not state.                   *)
(***************************************************************************)
EXTENDS Syncer

CONSTANTS
  Callers,      \* the goroutines calling SyncRepo, one call each
  PublicNames,  \* the names extsvc.CodeHostOf finds a public code host for
  LazySvc,      \* [Names -> Svcs \cup {NoSvc}]: the one service the store
                \* lists for the host of a name, NoSvc if not exactly one
  NoCaller,     \* no call of syncGroup in flight for a name
  CanCancel     \* whether the contexts of the calls may be cancelled

ASSUME SyncerLazyAssumption ==
  /\ PublicNames \subseteq Names
  /\ LazySvc \in [Names -> Svcs \cup {NoSvc}]
  /\ NoCaller \notin Callers
  /\ CanCancel \in BOOLEAN

(* The errors syncRepo can return that make its deferred call delete. *)
GoneErrs == {"notfound", "fatal"}

VARIABLES
  lpc,        \* [Callers -> step] of each call
  lname,      \* [Callers -> Names \cup {NoName}]: the name asked for
  lstored,    \* [Callers -> Nat]: the ID GetByName found, 0 for nil
  llead,      \* [Callers -> Callers \cup {NoCaller}]: whose flight it joined
  lrepo,      \* [Callers -> Candidate]: what GetRepo returned
  lplan,      \* [Callers -> Plan]: the transaction of sync() in flight
  lpend,      \* [Callers -> Diff]: the Diff waiting to be sent on Synced
  ldone,      \* [Callers -> BOOLEAN]: the call's context is done
  flight,     \* [Names -> Callers \cup {NoCaller}]: the syncGroup call
  racing          \* history: [Handlers -> SUBSET (Nat \X Svcs)], the rows a
                  \* lazy sync wrote for a service while the pass ran

lazyVars == <<lpc, lname, lstored, llead, lrepo, lplan, lpend, ldone, flight,
              racing>>
allVars == <<vars, lazyVars>>

LazySteps == {"idle", "do", "join", "list", "fetch", "tx", "apply", "publish",
              "delete", "notify", "done"}

LazyTypeOK ==
  /\ lpc \in [Callers -> LazySteps]
  /\ lname \in [Callers -> Names \cup {NoName}]
  /\ lstored \in [Callers -> Nat]
  /\ llead \in [Callers -> Callers \cup {NoCaller}]
  /\ lrepo \in [Callers -> Candidate]
  /\ lplan \in [Callers -> Plan]
  /\ lpend \in [Callers -> Diff]
  /\ ldone \in [Callers -> BOOLEAN]
  /\ flight \in [Names -> Callers \cup {NoCaller}]
  /\ racing \in [Handlers -> SUBSET (Nat \X Svcs)]

LazyInit ==
  /\ Init
  /\ lpc = [c \in Callers |-> "idle"]
  /\ lname = [c \in Callers |-> NoName]
  /\ lstored = [c \in Callers |-> 0]
  /\ llead = [c \in Callers |-> NoCaller]
  /\ lrepo = [c \in Callers |-> NoPlan.repo]
  /\ lplan = [c \in Callers |-> NoPlan]
  /\ lpend = [c \in Callers |-> EmptyDiff]
  /\ ldone = [c \in Callers |-> FALSE]
  /\ flight = [n \in Names |-> NoCaller]
  /\ racing = [h \in Handlers |-> {}]

(* The service of call c's name. *)
SvcOf(c) == LazySvc[lname[c]]

(* syncRepo returns, and with it the function syncGroup.Do runs: the name *)
(* has no call in flight any more.                                         *)
Finish(c) ==
  /\ lpc' = [lpc EXCEPT ![c] = "done"]
  /\ flight' = [flight EXCEPT ![lname[c]] = NoCaller]
  /\ lpend' = [lpend EXCEPT ![c] = EmptyDiff]

-----------------------------------------------------------------------------
(* The steps of SyncRepo and syncRepo *)

(* RepoStore.GetByName (a store error returns it), the code host check,   *)
(* the private check and the one-minute debounce; recent is whether the   *)
(* stored repo's UpdatedAt lies within the last minute.                   *)
LazyLookup(c, n, ok, recent) ==
  LET byName == {i \in Live : repos[i].name = n}
      st == IF byName = {} THEN 0 ELSE CHOOSE i \in byName : TRUE
  IN
  /\ lpc[c] = "idle"
  /\ lname' = [lname EXCEPT ![c] = n]
  /\ lstored' = [lstored EXCEPT ![c] = st]
  /\ lpc' = [lpc EXCEPT ![c] =
               IF ~ok \/ n \notin PublicNames \/ (st # 0 /\ (repos[st].private \/ recent))
               THEN "done" ELSE "do"]
  /\ UNCHANGED <<vars, llead, lrepo, lplan, lpend, ldone, flight, racing>>

(* Mutant: syncRepo is called directly, without syncGroup.Do. *)
LazyDoUngrouped(c) ==
  /\ lpc[c] = "do"
  /\ flight' = [flight EXCEPT ![lname[c]] = c]
  /\ lpc' = [lpc EXCEPT ![c] = "list"]
  /\ UNCHANGED <<vars, lname, lstored, llead, lrepo, lplan, lpend, ldone, racing>>

(* syncGroup.Do(name): run the function if no call of the name is in      *)
(* flight, else wait for the one that is.                                 *)
LazyDo(c) ==
  LET n == lname[c] IN
  /\ lpc[c] = "do"
  /\ IF flight[n] = NoCaller
     THEN /\ flight' = [flight EXCEPT ![n] = c]
          /\ lpc' = [lpc EXCEPT ![c] = "list"]
          /\ UNCHANGED llead
     ELSE /\ llead' = [llead EXCEPT ![c] = flight[n]]
          /\ lpc' = [lpc EXCEPT ![c] = "join"]
          /\ UNCHANGED flight
  /\ UNCHANGED <<vars, lname, lstored, lrepo, lplan, lpend, ldone, racing>>

(* The call c joined has returned: Do hands its result to c. *)
LazyJoinReturn(c) ==
  /\ lpc[c] = "join"
  /\ flight[lname[c]] # llead[c]
  /\ lpc' = [lpc EXCEPT ![c] = "done"]
  /\ UNCHANGED <<vars, lname, lstored, llead, lrepo, lplan, lpend, ldone, flight, racing>>

(* ExternalServiceStore.List of the host's cloud-default or package       *)
(* service, then Sourcer and the RepoGetter check: any failure returns    *)
(* before the deferred delete is set up.                                   *)
LazyList(c, ok) ==
  /\ lpc[c] = "list"
  /\ IF ok /\ SvcOf(c) # NoSvc
     THEN /\ lpc' = [lpc EXCEPT ![c] = "fetch"]
          /\ UNCHANGED <<flight, lpend>>
     ELSE Finish(c)
  /\ UNCHANGED <<vars, lname, lstored, llead, lrepo, lplan, ldone, racing>>

(* rg.GetRepo returns repo r of the source.  A private repo is a          *)
(* RepoNotFoundErr, which the deferred call treats as gone.               *)
LazyFetchRepo(c, r) ==
  /\ lpc[c] = "fetch"
  /\ r.name = lname[c]
  /\ lrepo' = [lrepo EXCEPT ![c] = r]
  /\ lpc' = [lpc EXCEPT ![c] = IF r.private THEN "delete" ELSE "tx"]
  /\ UNCHANGED <<vars, lname, lstored, llead, lplan, lpend, ldone, flight, racing>>

(* rg.GetRepo fails: "notfound" when the source has no repo of the name,  *)
(* "fatal" (unauthorized, forbidden, suspended) or "transient" at any     *)
(* time.  The deferred call deletes on the first two.                     *)
LazyFetchErr(c, e) ==
  /\ lpc[c] = "fetch"
  /\ e = "notfound" => \A r \in Listing[SvcOf(c)] : r.name # lname[c]
  /\ IF e \in GoneErrs
     THEN /\ lpc' = [lpc EXCEPT ![c] = "delete"]
          /\ UNCHANGED <<flight, lpend>>
     ELSE Finish(c)
  /\ UNCHANGED <<vars, lname, lstored, llead, lrepo, lplan, ldone, racing>>

(* sync(): Transact and the lookup of the repo by name or external spec   *)
(* decide the write (SyncPlan); a failure to open the transaction or to   *)
(* list returns an error that does not delete.                             *)
LazyTx(c, ok) ==
  /\ lpc[c] = "tx"
  /\ IF ok
     THEN /\ Cardinality(Matches(lrepo[c])) <= 2
          /\ lplan' = [lplan EXCEPT ![c] = SyncPlan(SvcOf(c), lrepo[c])]
          /\ lpc' = [lpc EXCEPT ![c] = "apply"]
          /\ UNCHANGED <<flight, lpend>>
     ELSE /\ Finish(c)
          /\ UNCHANGED lplan
  /\ UNCHANGED <<vars, lname, lstored, llead, lrepo, ldone, racing>>

(* The write of sync() and tx.Done.  A repo limit error, a unique         *)
(* constraint or a failed statement rolls back and returns an error that  *)
(* does not delete; a commit leaves the Diff to be sent, and records the  *)
(* row for the passes then running.                                        *)
LazyApply(c, ok) ==
  LET p == lplan[c]
      s == SvcOf(c)
      wrote == {<<i, s>> : i \in DiffRepos(WrittenDiff(p))}
  IN
  /\ lpc[c] = "apply"
  /\ lplan' = [lplan EXCEPT ![c] = NoPlan]
  /\ IF ok /\ p.kind # "limit" /\ Commits(p)
     THEN /\ repos' = WrittenRepos(p, s)
          /\ lpend' = [lpend EXCEPT ![c] = WrittenDiff(p)]
          /\ lpc' = [lpc EXCEPT ![c] = "publish"]
          /\ racing' = [h \in Handlers |->
                          IF pc[h] # "idle" /\ job[h] = s /\ p.kind # "unmodified"
                          THEN racing[h] \cup wrote ELSE racing[h]]
          /\ UNCHANGED flight
     ELSE /\ Finish(c)
          /\ UNCHANGED <<repos, racing>>
  /\ UNCHANGED <<pc, job, seen, errs, items, plan, pending, view, started,
                 streamErrs, lname, lstored, llead, lrepo, ldone>>

(* The deferred send of sync() after the commit: watchSyncer receives the *)
(* Diff, or the context is done and the send is given up; when both are   *)
(* ready the select picks either.  syncRepo then returns the repo.        *)
LazyPublish(c) ==
  /\ lpc[c] = "publish"
  /\ view' = UpdateFromDiff(view, lpend[c])
  /\ Finish(c)
  /\ UNCHANGED <<repos, pc, job, seen, errs, items, plan, pending, started,
                 streamErrs, lname, lstored, llead, lrepo, lplan,
                 ldone, racing>>

LazyPublishCancelled(c) ==
  /\ lpc[c] = "publish"
  /\ ldone[c]
  /\ Finish(c)
  /\ UNCHANGED <<vars, lname, lstored, llead, lrepo, lplan, ldone, racing>>

(* The deferred call of syncRepo on a gone error: with a stored repo,     *)
(* DeleteExternalServiceRepo removes the service from it, and the repo    *)
(* with it when no service is left (on failure it only logs), and         *)
(* notifyDeleted announces the stored ID as deleted either way.           *)
LazyDelete(c, ok) ==
  LET i == lstored[c]
      s == SvcOf(c)
      shrunk == [repos[i] EXCEPT !.svcs = @ \ {s}]
  IN
  /\ lpc[c] = "delete"
  /\ IF i = 0
     THEN /\ Finish(c)
          /\ UNCHANGED repos
     ELSE /\ repos' = IF ok /\ s \in repos[i].svcs
                      THEN [repos EXCEPT ![i] = IF shrunk.svcs = {} THEN SoftDeleted(shrunk)
                                                ELSE shrunk]
                      ELSE repos
          /\ lpend' = [lpend EXCEPT ![c] = [EmptyDiff EXCEPT !.deleted = {i}]]
          /\ lpc' = [lpc EXCEPT ![c] = "notify"]
          /\ UNCHANGED flight
  /\ UNCHANGED <<pc, job, seen, errs, items, plan, pending, view, started,
                 streamErrs, lname, lstored, llead, lrepo, lplan,
                 ldone, racing>>

(* notifyDeleted's send on Synced, or its giving up on a done context. *)
LazyNotify(c) ==
  /\ lpc[c] = "notify"
  /\ view' = UpdateFromDiff(view, lpend[c])
  /\ Finish(c)
  /\ UNCHANGED <<repos, pc, job, seen, errs, items, plan, pending, started,
                 streamErrs, lname, lstored, llead, lrepo, lplan,
                 ldone, racing>>

LazyNotifyCancelled(c) ==
  /\ lpc[c] = "notify"
  /\ ldone[c]
  /\ Finish(c)
  /\ UNCHANGED <<vars, lname, lstored, llead, lrepo, lplan, ldone, racing>>

(* The caller's context is cancelled, or the one-minute context of a      *)
(* background call expires.                                                *)
LazyCancel(c) ==
  /\ CanCancel
  /\ lpc[c] \notin {"idle", "done"}
  /\ ~ldone[c]
  /\ ldone' = [ldone EXCEPT ![c] = TRUE]
  /\ UNCHANGED <<vars, lpc, lname, lstored, llead, lrepo, lplan, lpend, flight, racing>>

-----------------------------------------------------------------------------
(* The passes, which leave the calls alone; a new pass forgets the lazy   *)
(* writes made while the previous one ran.                                 *)
PassStep ==
  /\ Next
  /\ racing' = [h \in Handlers |-> IF pc[h] = "idle" /\ pc'[h] # "idle" THEN {} ELSE racing[h]]
  /\ UNCHANGED <<lpc, lname, lstored, llead, lrepo, lplan, lpend, ldone, flight>>

LazyCall(c) ==
  \/ \E n \in Names, ok, recent \in BOOLEAN : LazyLookup(c, n, ok, recent)
  \/ LazyDo(c)
  \/ LazyJoinReturn(c)
  \/ \E ok \in BOOLEAN : LazyList(c, ok)
  \/ lpc[c] = "fetch" /\ SvcOf(c) \in Svcs /\ \E r \in Listing[SvcOf(c)] : LazyFetchRepo(c, r)
  \/ \E e \in GoneErrs \cup {"transient"} : LazyFetchErr(c, e)
  \/ \E ok \in BOOLEAN : LazyTx(c, ok) \/ LazyApply(c, ok) \/ LazyDelete(c, ok)
  \/ LazyPublish(c) \/ LazyPublishCancelled(c)
  \/ LazyNotify(c) \/ LazyNotifyCancelled(c)

LazyNext ==
  \/ PassStep
  \/ \E c \in Callers : LazyCall(c) \/ LazyCancel(c)

LazySpec == LazyInit /\ [][LazyNext]_allVars

-----------------------------------------------------------------------------
(* Properties *)

(* The steps of syncRepo, from the List of services to the deferred      *)
(* notifyDeleted.                                                           *)
Flying == {"list", "fetch", "tx", "apply", "publish", "delete", "notify"}

(* One syncRepo per name at a time (syncGroup.Do keyed by the name): a     *)
(* foreground call of a name never runs syncRepo while a background call  *)
(* of it, whose goroutine outlives SyncRepo, or another foreground call   *)
(* does, so no two sync() transactions and deferred deletes of the same   *)
(* stored repo overlap; and a caller that joined waits on a call of its   *)
(* own name.                                                               *)
SingleFlight ==
  /\ \A c, d \in Callers :
       c # d /\ lpc[c] \in Flying /\ lpc[d] \in Flying => lname[c] # lname[d]
  /\ \A c \in Callers :
       lpc[c] = "join" /\ flight[lname[c]] = llead[c] => lname[llead[c]] = lname[c]

(* Every live repo is known to the clone scheduler, or a Diff carrying it *)
(* is on its way on Synced from a pass or a lazy call.                     *)
LazyViewComplete ==
  started =>
    \A i \in Live :
      \/ i \in view
      \/ \E h \in Handlers : pc[h] = "publish" /\ i \in DiffRepos(pending[h])
      \/ \E c \in Callers : lpc[c] = "publish" /\ i \in DiffRepos(lpend[c])

(* The lazy path announces as deleted only repos that are gone from the   *)
(* store (spec section 4.4: the stored record is deleted and a            *)
(* Deleted-only Diff emitted).                                             *)
NotifiedDeletedIsGone ==
  [][\A c \in Callers : LazyNotify(c) => lpend[c].deleted \cap Live' = {}]_allVars

(* Lazily added package repos are not wiped (the comment of SyncRepo):    *)
(* the end of a pass of a service does not remove the service from a repo *)
(* that a lazy call wrote for it while the pass ran.                       *)
LazyAddedSurvivesPass ==
  [][\A h \in Handlers :
       PrunedBy(h) =>
         \A w \in racing[h] :
           w[1] \in Ids /\ w[2] \in repos[w[1]].svcs => w[2] \in repos'[w[1]].svcs]_allVars
=============================================================================

------------------------- MODULE DependenciesProofs -------------------------
(***************************************************************************)
(* Proofs about DependenciesService.Dependencies: the semaphore's slot    *)
(* accounting, and that a call without an error returns every dependency. *)
(***************************************************************************)
EXTENDS Dependencies, FiniteSetTheorems, TLAPS

-----------------------------------------------------------------------------
(* Finiteness *)

LEMMA TasksFinite == IsFiniteSet(Tasks)
<1>1. Tasks \subseteq Roots \X Packages
  BY DependenciesAssumption DEF Tasks
<1>2. IsFiniteSet(Roots \X Packages)
  BY DependenciesAssumption, FS_Product
<1>3. QED
  BY <1>1, <1>2, FS_Subset

(* The holders of slots are finite sets, in every state. *)
LEMMA HoldersFinite ==
  /\ IsFiniteSet(RootHolders) /\ IsFiniteSet(RootHolders')
  /\ IsFiniteSet(TaskHolders) /\ IsFiniteSet(TaskHolders')
<1>1. RootHolders \subseteq Roots /\ RootHolders' \subseteq Roots
  BY DEF RootHolders
<1>2. TaskHolders \subseteq Tasks /\ TaskHolders' \subseteq Tasks
  BY DEF TaskHolders
<1>3. QED
  BY <1>1, <1>2, TasksFinite, DependenciesAssumption, FS_Subset

(* Adding a new holder, or removing one, moves the count by one. *)
LEMMA CardAdd ==
  ASSUME NEW S, NEW x, IsFiniteSet(S), x \notin S
  PROVE  Cardinality(S \cup {x}) = Cardinality(S) + 1
BY FS_AddElement

LEMMA CardRemove ==
  ASSUME NEW S, NEW x, IsFiniteSet(S), x \in S
  PROVE  /\ Cardinality(S \ {x}) = Cardinality(S) - 1
         /\ Cardinality(S) >= 1
<1>1. Cardinality(S \ {x}) = Cardinality(S) - 1
  BY FS_RemoveElement
<1>2. Cardinality(S \ {x}) \in Nat /\ Cardinality(S) \in Nat
  BY FS_RemoveElement, FS_CardinalityType
<1>3. QED
  BY <1>1, <1>2

(* The goroutines of dependencies are the pairs of a root and a listed    *)
(* dependency.                                                              *)
LEMMA TaskIn ==
  ASSUME NEW o \in Roots, NEW d \in DepsOf[o] PROVE <<o, d>> \in Tasks
BY DEF Tasks

LEMMA TaskParts ==
  ASSUME NEW t \in Tasks
  PROVE  /\ t = <<t[1], t[2]>> /\ t[1] \in Roots /\ t[2] \in DepsOf[t[1]]
         /\ t[2] \in Packages /\ Entry(t[2]) \in Wanted
<1>1. PICK o \in Roots : \E d \in DepsOf[o] : t = <<o, d>>
  BY DEF Tasks
<1>2. PICK d \in DepsOf[o] : t = <<o, d>>
  BY <1>1
<1>3. d \in Packages
  BY DependenciesAssumption
<1>4. QED
  BY <1>2, <1>3 DEF Wanted

(* Slot accounting bounds the free weight by the weight. *)
LEMMA FreeInRange ==
  ASSUME PermitsAccounted', free' \in Nat PROVE free' \in 0..SemSize
<1>1. Cardinality(RootHolders') \in Nat /\ Cardinality(TaskHolders') \in Nat
  BY HoldersFinite, FS_CardinalityType
<1>2. QED
  BY <1>1, DependenciesAssumption DEF PermitsAccounted

(* TypeOK but for the free weight, which the slot accounting bounds. *)
TypeRest ==
  /\ opc \in [Roots -> RootSteps]
  /\ todo \in [Roots -> SUBSET Packages]
  /\ tpc \in [Tasks -> TaskSteps]
  /\ failed \in BOOLEAN
  /\ cancelled \in BOOLEAN
  /\ result \in SUBSET {Entry(d) : d \in Packages}
  /\ mpc \in {"wait", "returned"}

LEMMA TypeFromRest ==
  ASSUME TypeRest', PermitsAccounted', free' \in Nat PROVE TypeOK'
BY FreeInRange DEF TypeRest, TypeOK

-----------------------------------------------------------------------------
(* The inductive invariant *)

(* A root goroutine starts the goroutine of a dependency only after it has *)
(* listed it, and only the dependencies it has not started are in todo.   *)
NotStarted ==
  \A o \in Roots : opc[o] \in {"acquire", "list"} =>
    \A d \in DepsOf[o] : tpc[<<o, d>>] = "none"

TodoFresh ==
  \A o \in Roots : opc[o] = "deps" =>
    /\ todo[o] \subseteq DepsOf[o]
    /\ \A d \in todo[o] : tpc[<<o, d>>] = "none"

(* Without an error, a root goroutine that left the loop started every    *)
(* dependency it listed, and one in the loop every one it took from todo. *)
AllStarted ==
  ~failed =>
    \A o \in Roots :
      /\ opc[o] = "done" => \A d \in DepsOf[o] : tpc[<<o, d>>] # "none"
      /\ opc[o] = "deps" => \A d \in DepsOf[o] \ todo[o] : tpc[<<o, d>>] # "none"

(* Without an error, a dependency goroutine that returned recorded its    *)
(* entry, and every entry recorded is a wanted one.                        *)
Recorded == ~failed => \A t \in Tasks : tpc[t] = "done" => Entry(t[2]) \in result

Sound == result \subseteq Wanted

(* After g.Wait returned no goroutine of the group runs. *)
Quiet ==
  mpc = "returned" =>
    /\ \A o \in Roots : opc[o] = "done"
    /\ \A t \in Tasks : tpc[t] \in {"none", "done"}

IInv ==
  /\ TypeOK /\ PermitsAccounted /\ NotStarted /\ TodoFresh
  /\ AllStarted /\ Recorded /\ Sound /\ Quiet

-----------------------------------------------------------------------------
(* Initial states *)

LEMMA InitInv == Init => IInv
<1> SUFFICES ASSUME Init PROVE IInv
  OBVIOUS
<1>1. Cardinality(RootHolders) = 0 /\ Cardinality(TaskHolders) = 0
  <2>1. RootHolders = {} /\ TaskHolders = {}
    BY DEF Init, RootHolders, TaskHolders
  <2>2. QED
    BY <2>1, FS_EmptySet
<1>2. free = SemSize /\ SemSize \in Nat
  BY DependenciesAssumption DEF Init
<1>3. TypeOK
  <2>1. opc \in [Roots -> RootSteps] /\ todo \in [Roots -> SUBSET Packages]
    BY DEF Init, RootSteps
  <2>2. tpc \in [Tasks -> TaskSteps]
    BY DEF Init, TaskSteps
  <2>3. free \in 0..SemSize
    BY <1>2
  <2>4. failed \in BOOLEAN /\ cancelled \in BOOLEAN /\ mpc \in {"wait", "returned"}
    BY DEF Init
  <2>5. result \in SUBSET {Entry(d) : d \in Packages}
    BY DEF Init
  <2>6. QED
    BY <2>1, <2>2, <2>3, <2>4, <2>5 DEF TypeOK
<1>4. NotStarted /\ TodoFresh /\ AllStarted /\ Recorded /\ Sound /\ Quiet
  BY TaskIn DEF Init, NotStarted, TodoFresh, AllStarted, Recorded, Sound, Quiet, TaskSteps
<1>5. QED
  BY <1>1, <1>2, <1>3, <1>4 DEF IInv, PermitsAccounted

(* The count of holders after a step, for each way a step changes them.  *)
LEMMA AccountStep ==
  ASSUME TypeOK, PermitsAccounted,
         \/ /\ \E x \in Roots \ RootHolders : RootHolders' = RootHolders \cup {x}
            /\ TaskHolders' = TaskHolders /\ free' = free - 1
         \/ /\ \E x \in RootHolders : RootHolders' = RootHolders \ {x}
            /\ TaskHolders' = TaskHolders /\ free' = free + 1
         \/ /\ \E x \in RootHolders : RootHolders' = RootHolders \ {x}
            /\ \E y \in Tasks \ TaskHolders : TaskHolders' = TaskHolders \cup {y}
            /\ free' = free
         \/ /\ \E y \in Tasks \ TaskHolders : TaskHolders' = TaskHolders \cup {y}
            /\ RootHolders' = RootHolders /\ free' = free - 1
         \/ /\ \E y \in TaskHolders : TaskHolders' = TaskHolders \ {y}
            /\ RootHolders' = RootHolders /\ free' = free + 1
         \/ /\ RootHolders' = RootHolders /\ TaskHolders' = TaskHolders
            /\ free' = free
  PROVE  PermitsAccounted'
<1> DEFINE R == Cardinality(RootHolders)  T == Cardinality(TaskHolders)
            R2 == Cardinality(RootHolders')  T2 == Cardinality(TaskHolders')
<1>1. R \in Nat /\ T \in Nat /\ free \in Nat
  BY HoldersFinite, FS_CardinalityType, DependenciesAssumption DEF TypeOK
<1>2. free + R + T = SemSize
  BY DEF PermitsAccounted
<1> SUFFICES free' + R2 + T2 = SemSize
  BY DEF PermitsAccounted
<1>3. CASE /\ \E x \in Roots \ RootHolders : RootHolders' = RootHolders \cup {x}
           /\ TaskHolders' = TaskHolders /\ free' = free - 1
  <2>1. PICK x \in Roots \ RootHolders : RootHolders' = RootHolders \cup {x}
    BY <1>3
  <2>2. R2 = R + 1
    BY <2>1, HoldersFinite, CardAdd
  <2>3. QED
    BY <1>1, <1>2, <1>3, <2>2
<1>4. CASE /\ \E x \in RootHolders : RootHolders' = RootHolders \ {x}
           /\ TaskHolders' = TaskHolders /\ free' = free + 1
  <2>1. PICK x \in RootHolders : RootHolders' = RootHolders \ {x}
    BY <1>4
  <2>2. R2 = R - 1
    BY <2>1, HoldersFinite, CardRemove
  <2>3. QED
    BY <1>1, <1>2, <1>4, <2>2
<1>5. CASE /\ \E x \in RootHolders : RootHolders' = RootHolders \ {x}
           /\ \E y \in Tasks \ TaskHolders : TaskHolders' = TaskHolders \cup {y}
           /\ free' = free
  <2>1. PICK x \in RootHolders : RootHolders' = RootHolders \ {x}
    BY <1>5
  <2>2. PICK y \in Tasks \ TaskHolders : TaskHolders' = TaskHolders \cup {y}
    BY <1>5
  <2>3. R2 = R - 1 /\ T2 = T + 1
    BY <2>1, <2>2, HoldersFinite, CardRemove, CardAdd
  <2>4. QED
    BY <1>1, <1>2, <1>5, <2>3
<1>6. CASE /\ \E y \in Tasks \ TaskHolders : TaskHolders' = TaskHolders \cup {y}
           /\ RootHolders' = RootHolders /\ free' = free - 1
  <2>1. PICK y \in Tasks \ TaskHolders : TaskHolders' = TaskHolders \cup {y}
    BY <1>6
  <2>2. T2 = T + 1
    BY <2>1, HoldersFinite, CardAdd
  <2>3. QED
    BY <1>1, <1>2, <1>6, <2>2
<1>7. CASE /\ \E y \in TaskHolders : TaskHolders' = TaskHolders \ {y}
           /\ RootHolders' = RootHolders /\ free' = free + 1
  <2>1. PICK y \in TaskHolders : TaskHolders' = TaskHolders \ {y}
    BY <1>7
  <2>2. T2 = T - 1
    BY <2>1, HoldersFinite, CardRemove
  <2>3. QED
    BY <1>1, <1>2, <1>7, <2>2
<1>8. CASE /\ RootHolders' = RootHolders /\ TaskHolders' = TaskHolders
           /\ free' = free
  BY <1>1, <1>2, <1>8
<1>9. QED
  BY <1>3, <1>4, <1>5, <1>6, <1>7, <1>8

-----------------------------------------------------------------------------
(* One lemma per action: it preserves IInv. *)

LEMMA RootAcquireInv ==
  ASSUME IInv, NEW o \in Roots, RootAcquire(o) PROVE IInv'
<1> USE DEF IInv
<1>1. TypeRest' /\ free' \in Nat
  BY DEF RootAcquire, TypeOK, TypeRest, RootSteps
<1>2. PermitsAccounted'
  <2>1. o \in Roots \ RootHolders /\ RootHolders' = RootHolders \cup {o}
    BY DEF RootAcquire, RootHolders, TypeOK
  <2>2. TaskHolders' = TaskHolders /\ free' = free - 1
    BY DEF RootAcquire, TaskHolders
  <2>3. QED
    BY <2>1, <2>2, AccountStep
<1>3. (NotStarted /\ TodoFresh /\ AllStarted /\ Recorded /\ Sound /\ Quiet)'
  BY DEF RootAcquire, TypeOK, NotStarted, TodoFresh, AllStarted, Recorded, Sound, Quiet
<1>4. QED
  BY <1>1, <1>2, <1>3, TypeFromRest

LEMMA RootAcquireFailInv ==
  ASSUME IInv, NEW o \in Roots, RootAcquireFail(o) PROVE IInv'
<1> USE DEF IInv
<1>1. TypeRest' /\ free' \in Nat
  BY DEF RootAcquireFail, Fail, TypeOK, TypeRest, RootSteps
<1>2. PermitsAccounted'
  <2>1. RootHolders' = RootHolders /\ TaskHolders' = TaskHolders /\ free' = free
    BY DEF RootAcquireFail, RootHolders, TaskHolders, TypeOK
  <2>2. QED
    BY <2>1, AccountStep
<1>3. (NotStarted /\ TodoFresh /\ AllStarted /\ Recorded /\ Sound /\ Quiet)'
  BY DEF RootAcquireFail, Fail, TypeOK, NotStarted, TodoFresh, AllStarted, Recorded, Sound, Quiet
<1>4. QED
  BY <1>1, <1>2, <1>3, TypeFromRest

LEMMA ListDependenciesInv ==
  ASSUME IInv, NEW o \in Roots, NEW ok \in BOOLEAN, ListDependencies(o, ok)
  PROVE  IInv'
<1> USE DEF IInv
<1>1. CASE ok
  <2>0. /\ opc[o] = "list" /\ opc' = [opc EXCEPT ![o] = "deps"]
        /\ todo' = [todo EXCEPT ![o] = DepsOf[o]]
        /\ UNCHANGED <<free, failed, cancelled, tpc, result, mpc>>
    BY <1>1 DEF ListDependencies
  <2>1. TypeRest' /\ free' \in Nat
    <3>1. opc' \in [Roots -> RootSteps]
      BY <2>0 DEF TypeOK, RootSteps
    <3>2. todo' \in [Roots -> SUBSET Packages]
      BY <2>0, DependenciesAssumption DEF TypeOK
    <3>3. QED
      BY <2>0, <3>1, <3>2 DEF TypeOK, TypeRest
  <2>2. PermitsAccounted'
    <3>1. RootHolders' = RootHolders /\ TaskHolders' = TaskHolders /\ free' = free
      BY <2>0 DEF RootHolders, TaskHolders, TypeOK
    <3>2. QED
      BY <3>1, AccountStep
  <2>3. NotStarted' /\ TodoFresh'
    BY <2>0, DependenciesAssumption DEF TypeOK, NotStarted, TodoFresh
  <2>4. (AllStarted /\ Recorded /\ Sound /\ Quiet)'
    BY <2>0, DependenciesAssumption DEF TypeOK, AllStarted, Recorded, Sound, Quiet
  <2>5. QED
    BY <2>1, <2>2, <2>3, <2>4, TypeFromRest
<1>2. CASE ~ok
  <2>0. /\ opc[o] = "list" /\ opc' = [opc EXCEPT ![o] = "done"]
        /\ free' = free + 1 /\ failed' = TRUE /\ cancelled' = TRUE
        /\ UNCHANGED <<todo, tpc, result, mpc>>
    BY <1>2 DEF ListDependencies, Fail
  <2>1. TypeRest' /\ free' \in Nat
    BY <2>0 DEF TypeOK, TypeRest, RootSteps
  <2>2. PermitsAccounted'
    <3>1. o \in RootHolders /\ RootHolders' = RootHolders \ {o}
      BY <2>0 DEF RootHolders, TypeOK
    <3>2. TaskHolders' = TaskHolders /\ free' = free + 1
      BY <2>0 DEF TaskHolders
    <3>3. QED
      BY <3>1, <3>2, AccountStep
  <2>3. (NotStarted /\ TodoFresh /\ AllStarted /\ Recorded /\ Sound /\ Quiet)'
    BY <2>0 DEF TypeOK, NotStarted, TodoFresh, AllStarted, Recorded, Sound, Quiet
  <2>4. QED
    BY <2>1, <2>2, <2>3, TypeFromRest
<1>3. QED
  BY <1>1, <1>2

LEMMA StartDependencyInv ==
  ASSUME IInv, NEW o \in Roots, NEW d \in Packages, StartDependency(o, d)
  PROVE  IInv'
<1> USE DEF IInv
<1>1. d \in DepsOf[o] /\ <<o, d>> \in Tasks /\ tpc[<<o, d>>] = "none"
  BY TaskIn DEF StartDependency, TodoFresh
<1>2. TypeRest' /\ free' \in Nat
  BY <1>1 DEF StartDependency, TypeOK, TypeRest, TaskSteps
<1>3. PermitsAccounted'
  <2>1. <<o, d>> \in Tasks \ TaskHolders /\ TaskHolders' = TaskHolders \cup {<<o, d>>}
    BY <1>1 DEF StartDependency, TaskHolders, TypeOK
  <2>2. RootHolders' = RootHolders /\ free' = free - 1
    BY DEF StartDependency, RootHolders
  <2>3. QED
    BY <2>1, <2>2, AccountStep
<1>4. NotStarted' /\ TodoFresh'
  BY <1>1 DEF StartDependency, TypeOK, NotStarted, TodoFresh
<1>5. AllStarted' /\ Recorded'
  BY <1>1 DEF StartDependency, TypeOK, AllStarted, Recorded
<1>6. Sound' /\ Quiet'
  BY DEF StartDependency, Sound, Quiet
<1>7. QED
  BY <1>2, <1>3, <1>4, <1>5, <1>6, TypeFromRest

LEMMA StartDependencyFailInv ==
  ASSUME IInv, NEW o \in Roots, StartDependencyFail(o) PROVE IInv'
<1> USE DEF IInv
<1>1. TypeRest' /\ free' \in Nat
  BY DEF StartDependencyFail, Fail, TypeOK, TypeRest, RootSteps
<1>2. PermitsAccounted'
  <2>1. o \in RootHolders /\ RootHolders' = RootHolders \ {o}
    BY DEF StartDependencyFail, RootHolders, TypeOK
  <2>2. TaskHolders' = TaskHolders /\ free' = free + 1
    BY DEF StartDependencyFail, TaskHolders
  <2>3. QED
    BY <2>1, <2>2, AccountStep
<1>3. (NotStarted /\ TodoFresh /\ AllStarted /\ Recorded /\ Sound /\ Quiet)'
  BY DEF StartDependencyFail, Fail, TypeOK, NotStarted, TodoFresh, AllStarted, Recorded, Sound, Quiet
<1>4. QED
  BY <1>1, <1>2, <1>3, TypeFromRest

LEMMA RootReturnInv ==
  ASSUME IInv, NEW o \in Roots, RootReturn(o) PROVE IInv'
<1> USE DEF IInv
<1>1. TypeRest' /\ free' \in Nat
  BY DEF RootReturn, TypeOK, TypeRest, RootSteps
<1>2. PermitsAccounted'
  <2>1. o \in RootHolders /\ RootHolders' = RootHolders \ {o}
    BY DEF RootReturn, RootHolders, TypeOK
  <2>2. TaskHolders' = TaskHolders /\ free' = free + 1
    BY DEF RootReturn, TaskHolders
  <2>3. QED
    BY <2>1, <2>2, AccountStep
<1>3. (NotStarted /\ TodoFresh /\ AllStarted /\ Recorded /\ Sound /\ Quiet)'
  BY DEF RootReturn, TypeOK, NotStarted, TodoFresh, AllStarted, Recorded, Sound, Quiet
<1>4. QED
  BY <1>1, <1>2, <1>3, TypeFromRest

LEMMA UpsertInv ==
  ASSUME IInv, NEW t \in Tasks, NEW ok \in BOOLEAN, Upsert(t, ok) PROVE IInv'
<1> USE DEF IInv
<1>1. CASE ok
  <2>0. /\ tpc[t] = "upsert" /\ tpc' = [tpc EXCEPT ![t] = "sync"]
        /\ UNCHANGED <<opc, todo, free, failed, cancelled, result, mpc>>
    BY <1>1 DEF Upsert
  <2>1. TypeRest' /\ free' \in Nat
    BY <2>0 DEF TypeOK, TypeRest, TaskSteps
  <2>2. PermitsAccounted'
    <3>1. RootHolders' = RootHolders /\ TaskHolders' = TaskHolders /\ free' = free
      BY <2>0 DEF RootHolders, TaskHolders, TypeOK
    <3>2. QED
      BY <3>1, AccountStep
  <2>3. (NotStarted /\ TodoFresh /\ AllStarted /\ Recorded /\ Sound /\ Quiet)'
    BY <2>0 DEF TypeOK, NotStarted, TodoFresh, AllStarted, Recorded, Sound, Quiet
  <2>4. QED
    BY <2>1, <2>2, <2>3, TypeFromRest
<1>2. CASE ~ok
  <2>0. /\ tpc[t] = "upsert" /\ tpc' = [tpc EXCEPT ![t] = "done"]
        /\ free' = free + 1 /\ failed' = TRUE /\ cancelled' = TRUE
        /\ UNCHANGED <<opc, todo, result, mpc>>
    BY <1>2 DEF Upsert, Fail
  <2>1. TypeRest' /\ free' \in Nat
    BY <2>0 DEF TypeOK, TypeRest, TaskSteps
  <2>2. PermitsAccounted'
    <3>1. t \in TaskHolders /\ TaskHolders' = TaskHolders \ {t}
      BY <2>0 DEF TaskHolders, TypeOK
    <3>2. RootHolders' = RootHolders /\ free' = free + 1
      BY <2>0 DEF RootHolders
    <3>3. QED
      BY <3>1, <3>2, AccountStep
  <2>3. (NotStarted /\ TodoFresh /\ AllStarted /\ Recorded /\ Sound /\ Quiet)'
    BY <2>0 DEF TypeOK, NotStarted, TodoFresh, AllStarted, Recorded, Sound, Quiet
  <2>4. QED
    BY <2>1, <2>2, <2>3, TypeFromRest
<1>3. QED
  BY <1>1, <1>2

LEMMA LazySyncInv ==
  ASSUME IInv, NEW t \in Tasks, NEW ok \in BOOLEAN, LazySync(t, ok) PROVE IInv'
<1> USE DEF IInv
<1>1. CASE ok
  <2>0. /\ tpc[t] = "sync" /\ tpc' = [tpc EXCEPT ![t] = "record"]
        /\ UNCHANGED <<opc, todo, free, failed, cancelled, result, mpc>>
    BY <1>1 DEF LazySync
  <2>1. TypeRest' /\ free' \in Nat
    BY <2>0 DEF TypeOK, TypeRest, TaskSteps
  <2>2. PermitsAccounted'
    <3>1. RootHolders' = RootHolders /\ TaskHolders' = TaskHolders /\ free' = free
      BY <2>0 DEF RootHolders, TaskHolders, TypeOK
    <3>2. QED
      BY <3>1, AccountStep
  <2>3. (NotStarted /\ TodoFresh /\ AllStarted /\ Recorded /\ Sound /\ Quiet)'
    BY <2>0 DEF TypeOK, NotStarted, TodoFresh, AllStarted, Recorded, Sound, Quiet
  <2>4. QED
    BY <2>1, <2>2, <2>3, TypeFromRest
<1>2. CASE ~ok
  <2>0. /\ tpc[t] = "sync" /\ tpc' = [tpc EXCEPT ![t] = "done"]
        /\ free' = free + 1 /\ failed' = TRUE /\ cancelled' = TRUE
        /\ UNCHANGED <<opc, todo, result, mpc>>
    BY <1>2 DEF LazySync, Fail
  <2>1. TypeRest' /\ free' \in Nat
    BY <2>0 DEF TypeOK, TypeRest, TaskSteps
  <2>2. PermitsAccounted'
    <3>1. t \in TaskHolders /\ TaskHolders' = TaskHolders \ {t}
      BY <2>0 DEF TaskHolders, TypeOK
    <3>2. RootHolders' = RootHolders /\ free' = free + 1
      BY <2>0 DEF RootHolders
    <3>3. QED
      BY <3>1, <3>2, AccountStep
  <2>3. (NotStarted /\ TodoFresh /\ AllStarted /\ Recorded /\ Sound /\ Quiet)'
    BY <2>0 DEF TypeOK, NotStarted, TodoFresh, AllStarted, Recorded, Sound, Quiet
  <2>4. QED
    BY <2>1, <2>2, <2>3, TypeFromRest
<1>3. QED
  BY <1>1, <1>2

LEMMA RecordInv ==
  ASSUME IInv, NEW t \in Tasks, Record(t) PROVE IInv'
<1> USE DEF IInv
<1>1. t[2] \in Packages /\ Entry(t[2]) \in Wanted
  BY TaskParts
<1>2. TypeRest' /\ free' \in Nat
  BY <1>1 DEF Record, TypeOK, TypeRest, TaskSteps
<1>3. PermitsAccounted'
  <2>1. t \in TaskHolders /\ TaskHolders' = TaskHolders \ {t}
    BY DEF Record, TaskHolders, TypeOK
  <2>2. RootHolders' = RootHolders /\ free' = free + 1
    BY DEF Record, RootHolders
  <2>3. QED
    BY <2>1, <2>2, AccountStep
<1>4. (NotStarted /\ TodoFresh /\ AllStarted /\ Quiet)'
  BY DEF Record, TypeOK, NotStarted, TodoFresh, AllStarted, Quiet
<1>5. Recorded' /\ Sound'
  BY <1>1 DEF Record, TypeOK, Recorded, Sound
<1>6. QED
  BY <1>2, <1>3, <1>4, <1>5, TypeFromRest

LEMMA CallerCancelInv == IInv /\ CallerCancel => IInv'
<1> SUFFICES ASSUME IInv, CallerCancel PROVE IInv'
  OBVIOUS
<1> USE DEF IInv
<1>1. TypeRest' /\ free' \in Nat
  BY DEF CallerCancel, TypeOK, TypeRest
<1>2. PermitsAccounted'
  <2>1. RootHolders' = RootHolders /\ TaskHolders' = TaskHolders /\ free' = free
    BY DEF CallerCancel, RootHolders, TaskHolders
  <2>2. QED
    BY <2>1, AccountStep
<1>3. (NotStarted /\ TodoFresh /\ AllStarted /\ Recorded /\ Sound /\ Quiet)'
  BY DEF CallerCancel, NotStarted, TodoFresh, AllStarted, Recorded, Sound, Quiet
<1>4. QED
  BY <1>1, <1>2, <1>3, TypeFromRest

LEMMA WaitReturnInv == IInv /\ WaitReturn => IInv'
<1> SUFFICES ASSUME IInv, WaitReturn PROVE IInv'
  OBVIOUS
<1> USE DEF IInv
<1>1. TypeRest' /\ free' \in Nat
  BY DEF WaitReturn, TypeOK, TypeRest
<1>2. PermitsAccounted'
  <2>1. RootHolders' = RootHolders /\ TaskHolders' = TaskHolders /\ free' = free
    BY DEF WaitReturn, RootHolders, TaskHolders
  <2>2. QED
    BY <2>1, AccountStep
<1>3. (NotStarted /\ TodoFresh /\ AllStarted /\ Recorded /\ Sound /\ Quiet)'
  BY DEF WaitReturn, NotStarted, TodoFresh, AllStarted, Recorded, Sound, Quiet
<1>4. QED
  BY <1>1, <1>2, <1>3, TypeFromRest

LEMMA StutterInv == IInv /\ UNCHANGED vars => IInv'
BY DEF IInv, vars, TypeOK, PermitsAccounted, RootHolders, TaskHolders, NotStarted, TodoFresh, AllStarted, Recorded, Sound, Quiet

-----------------------------------------------------------------------------
(* Theorems *)

LEMMA NextInv == IInv /\ [Next]_vars => IInv'
<1> SUFFICES ASSUME IInv, [Next]_vars PROVE IInv'
  OBVIOUS
<1>1. CASE \E o \in Roots :
             \/ RootAcquire(o) \/ RootAcquireFail(o)
             \/ \E ok \in BOOLEAN : ListDependencies(o, ok)
             \/ \E d \in Packages : StartDependency(o, d)
             \/ StartDependencyFail(o)
             \/ RootReturn(o)
  BY <1>1, RootAcquireInv, RootAcquireFailInv, ListDependenciesInv,
     StartDependencyInv, StartDependencyFailInv, RootReturnInv
<1>2. CASE \E t \in Tasks :
             \/ \E ok \in BOOLEAN : Upsert(t, ok) \/ LazySync(t, ok)
             \/ Record(t)
  BY <1>2, UpsertInv, LazySyncInv, RecordInv
<1>3. CASE CallerCancel
  BY <1>3, CallerCancelInv
<1>4. CASE WaitReturn
  BY <1>4, WaitReturnInv
<1>5. CASE UNCHANGED vars
  BY <1>5, StutterInv
<1>6. QED
  BY <1>1, <1>2, <1>3, <1>4, <1>5 DEF Next

(* The inductive invariant holds in every state of every run. *)
THEOREM IInvHolds == Spec => []IInv
BY InitInv, NextInv, PTL DEF Spec

(* The slot accounting of sem holds for every weight and every set of    *)
(* roots and lockfiles: no path of a root or dependency goroutine, the   *)
(* failing ones included, leaks a slot or gives one back twice.           *)
THEOREM PermitsAccountedHolds == Spec => []PermitsAccounted
<1>1. IInv => PermitsAccounted
  BY DEF IInv
<1>2. QED
  BY <1>1, IInvHolds, PTL

(* Once no goroutine runs, a group without an error has recorded every    *)
(* dependency of every root.                                                *)
LEMMA QuietComplete ==
  ASSUME IInv, ~failed,
         \A o \in Roots : opc[o] = "done",
         \A t \in Tasks : tpc[t] \in {"none", "done"}
  PROVE  result = Wanted
<1> USE DEF IInv
<1>1. result \subseteq Wanted
  BY DEF Sound
<1>2. ASSUME NEW o \in Roots, NEW d \in DepsOf[o] PROVE Entry(d) \in result
  <2>1. <<o, d>> \in Tasks /\ <<o, d>>[2] = d
    BY TaskIn
  <2>2. opc[o] = "done" /\ tpc[<<o, d>>] \in {"none", "done"}
    BY <2>1
  <2>3. tpc[<<o, d>>] = "done"
    BY <2>2 DEF AllStarted
  <2>4. QED
    BY <2>1, <2>3 DEF Recorded
<1>3. Wanted \subseteq result
  BY <1>2 DEF Wanted
<1>4. QED
  BY <1>1, <1>3

LEMMA IInvComplete == IInv => ResultComplete
BY QuietComplete DEF IInv, Quiet, ResultComplete

(* When g.Wait returns without an error, dependencyRevs is complete, for *)
(* every set of roots, lockfiles and weight.                               *)
THEOREM ResultCompleteHolds == Spec => []ResultComplete
BY IInvHolds, IInvComplete, PTL
=============================================================================

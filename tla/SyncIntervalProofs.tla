------------------------- MODULE SyncIntervalProofs -------------------------
(***************************************************************************)
(* Proofs about the backoff policy: the type invariant, and that every     *)
(* interval calcSyncInterval hands out lies in [minimum, 8 hours] whenever *)
(* the configured minimum does not exceed 8 hours.                         *)
(***************************************************************************)
EXTENDS SyncInterval, TLAPS

(* Sub yields a Duration. *)
LEMMA SubType ==
  ASSUME NEW t \in Int, NEW u \in Int
  PROVE  Sub(t, u) \in Duration
BY DurationAssumption DEF Sub, Duration

(* Wrap yields a Duration. *)
LEMMA WrapType ==
  ASSUME NEW x \in Int
  PROVE  Wrap(x) \in Duration
BY DurationAssumption DEF Wrap, Duration

(* The doubled, wrapped difference in calcSyncInterval is a Duration. *)
LEMMA ProductType ==
  ASSUME NEW t \in Int, NEW u \in Int
  PROVE  Wrap(Sub(t, u) * 2) \in Duration
<1>1. Sub(t, u) \in Int
  BY SubType, DurationAssumption DEF Duration
<1>2. Sub(t, u) * 2 \in Int
  BY <1>1
<1>3. QED
  BY <1>2, WrapType

(* Whatever integer the product is, the clamp puts the result of           *)
(* calcSyncInterval between the minimum and the larger of the minimum and *)
(* the ceiling; when the minimum is below the ceiling, between the two.    *)
LEMMA CalcSyncIntervalRange ==
  ASSUME NEW t \in Int, NEW u \in Int, NEW modified \in BOOLEAN,
         NEW err \in BOOLEAN, NEW upserted \in BOOLEAN,
         MinSyncInterval <= MaxSyncInterval
  PROVE  CalcSyncInterval(t, u, MinSyncInterval, modified, err)
           \in MinSyncInterval..MaxSyncInterval
<1>1. Wrap(Sub(t, u) * 2) \in Int
  BY ProductType, DurationAssumption DEF Duration
<1>2. QED
  BY <1>1, IntervalAssumption DEF CalcSyncInterval

(* The result of calcSyncInterval is a Duration other than 0. *)
LEMMA CalcSyncIntervalType ==
  ASSUME NEW t \in Int, NEW u \in Int, NEW modified \in BOOLEAN,
         NEW err \in BOOLEAN
  PROVE  CalcSyncInterval(t, u, MinSyncInterval, modified, err)
           \in Duration \ {0}
<1> DEFINE i == Wrap(Sub(t, u) * 2)
<1>1. i \in Duration
  BY ProductType
<1>2. CalcSyncInterval(t, u, MinSyncInterval, modified, err)
        \in {MinSyncInterval, MaxSyncInterval, i}
  BY DEF CalcSyncInterval
<1>3. CalcSyncInterval(t, u, MinSyncInterval, modified, err) = i
        => i >= MinSyncInterval
  BY <1>1, IntervalAssumption DEF CalcSyncInterval, Duration
<1>4. QED
  BY <1>1, <1>2, <1>3, IntervalAssumption, DurationAssumption DEF Duration

LEMMA InitTypeOK == Init => TypeOK
<1> SUFFICES ASSUME Init PROVE TypeOK
  OBVIOUS
<1>1. now \in 0..MaxTime /\ lastSync \in {ZeroTime} \cup 0..MaxTime
  BY TimeAssumption DEF Init
<1>2. nextSync \in Int /\ queued \in BOOLEAN
  BY TimeAssumption DEF Init
<1>3. interval \in {0} \cup Duration
  BY DEF Init
<1>4. outcome \in [modified : BOOLEAN, err : BOOLEAN]
  BY DEF Init
<1>5. QED
  BY <1>1, <1>2, <1>3, <1>4 DEF TypeOK

LEMMA NextTypeOK == TypeOK /\ [Next]_vars => TypeOK'
<1> SUFFICES ASSUME TypeOK, [Next]_vars PROVE TypeOK'
  OBVIOUS
<1>1. CASE Tick
  <2>1. now' \in 0..MaxTime
    BY <1>1, TimeAssumption DEF Tick, TypeOK
  <2>2. QED
    BY <1>1, <2>1 DEF Tick, TypeOK
<1>2. CASE EnqueueSyncJobs
  BY <1>2 DEF EnqueueSyncJobs, TypeOK
<1>3. CASE TriggerExternalServiceSync
  BY <1>3 DEF TriggerExternalServiceSync, TypeOK
<1>4. CASE ScheduleDependencySync
  BY <1>4 DEF ScheduleDependencySync, TypeOK
<1>5. ASSUME NEW modified \in BOOLEAN, NEW err \in BOOLEAN, NEW upserted \in BOOLEAN,
             SyncExternalService(modified, err, upserted)
      PROVE  TypeOK'
  <2>1. CalcSyncInterval(now, lastSync, MinSyncInterval, modified, err)
          \in Duration \ {0}
    BY CalcSyncIntervalType, TimeAssumption DEF TypeOK
  <2>2. nextSync' \in Int /\ interval' \in {0} \cup Duration
    BY <1>5, <2>1, TimeAssumption, DurationAssumption
    DEF SyncExternalService, SyncExternalServiceFrom, TypeOK, Duration
  <2>3. lastSync' \in {ZeroTime} \cup 0..MaxTime /\ now' \in 0..MaxTime
    BY <1>5 DEF SyncExternalService, SyncExternalServiceFrom, TypeOK
  <2>4. queued' \in BOOLEAN /\ outcome' \in [modified : BOOLEAN, err : BOOLEAN]
    BY <1>5 DEF SyncExternalService, SyncExternalServiceFrom
  <2>5. QED
    BY <2>2, <2>3, <2>4 DEF TypeOK
<1>6. CASE UNCHANGED vars
  BY <1>6 DEF vars, TypeOK
<1>7. QED
  BY <1>1, <1>2, <1>3, <1>4, <1>5, <1>6 DEF Next

(* The type invariant holds in every state of the schedule. *)
THEOREM TypeCorrect == Spec => []TypeOK
BY InitTypeOK, NextTypeOK, PTL DEF Spec

(* IntervalBounds with the type invariant is inductive. *)
LEMMA NextIntervalBounds ==
  ASSUME MinSyncInterval <= MaxSyncInterval
  PROVE  TypeOK /\ IntervalBounds /\ [Next]_vars => IntervalBounds'
<1> SUFFICES ASSUME TypeOK, IntervalBounds, [Next]_vars PROVE IntervalBounds'
  OBVIOUS
<1>1. ASSUME NEW modified \in BOOLEAN, NEW err \in BOOLEAN, NEW upserted \in BOOLEAN,
             SyncExternalService(modified, err, upserted)
      PROVE  IntervalBounds'
  <2>1. CalcSyncInterval(now, lastSync, MinSyncInterval, modified, err)
          \in MinSyncInterval..MaxSyncInterval
    BY CalcSyncIntervalRange, TimeAssumption DEF TypeOK
  <2>2. QED
    BY <1>1, <2>1 DEF SyncExternalService, SyncExternalServiceFrom, IntervalBounds
<1>2. CASE ~\E modified, err, upserted \in BOOLEAN : SyncExternalService(modified, err, upserted)
  <2>1. UNCHANGED interval
    BY <1>2 DEF Next, vars, Tick, EnqueueSyncJobs,
                TriggerExternalServiceSync, ScheduleDependencySync
  <2>2. QED
    BY <2>1 DEF IntervalBounds
<1>3. QED
  BY <1>1, <1>2

(* Every interval handed out lies in [MinSyncInterval, MaxSyncInterval],  *)
(* for every width of Duration and every clock, provided the configured   *)
(* minimum does not exceed the 8-hour ceiling (calcSyncInterval).         *)
LEMMA IntervalBoundsHold ==
  ASSUME MinSyncInterval <= MaxSyncInterval
  PROVE  Spec => []IntervalBounds
<1>1. Init => IntervalBounds
  BY DEF Init, IntervalBounds
<1>2. TypeOK /\ IntervalBounds /\ [Next]_vars => IntervalBounds'
  BY NextIntervalBounds
<1>3. QED
  BY <1>1, <1>2, TypeCorrect, PTL DEF Spec
=============================================================================

--------------------------- MODULE SyncInterval ---------------------------
(***************************************************************************)
(* The backoff policy of the repo syncer (calcSyncInterval, syncer.go) and *)
(* the schedule of one external service that it drives: when a pass ends   *)
(* at time now, SyncExternalService sets LastSyncAt = now and NextSyncAt = *)
(* now + calcSyncInterval(...); a job is enqueued for the service once     *)
(* NextSyncAt has passed, or at once by a manual trigger, or by the        *)
(* dependency sync scheduler, which sets NextSyncAt = now.                 *)
(*                                                                         *)
(* Durations are Go time.Duration values: signed integers of a fixed       *)
(* width.  time.Time.Sub saturates at the bounds of that width, and the    *)
(* product "now.Sub(lastSync) * 2" wraps around.  MaxDuration is the       *)
(* largest duration (2^63-1 ns in the build, a small number in a model).   *)
(***************************************************************************)
EXTENDS Integers

CONSTANTS
  MaxDuration,      \* largest time.Duration value
  MaxSyncInterval,  \* the constant maxSyncInterval, 8 hours
  MinSyncInterval,  \* the minSyncInterval argument, from site configuration
  ZeroTime,         \* the zero time.Time, far in the past of every clock reading
  MaxTime           \* bound on the clock, for model checking

ASSUME DurationAssumption == MaxDuration \in Nat \ {0}
ASSUME IntervalAssumption ==
  /\ MinSyncInterval \in 1..MaxDuration
  /\ MaxSyncInterval \in 1..MaxDuration
ASSUME TimeAssumption == ZeroTime \in Int /\ MaxTime \in Nat /\ ZeroTime < 0

(* The values of a time.Duration. *)
Duration == -(MaxDuration + 1) .. MaxDuration

(* time.Time.Sub: the difference, saturated to the range of a Duration.    *)
Sub(t, u) ==
  IF t - u > MaxDuration THEN MaxDuration
  ELSE IF t - u < -(MaxDuration + 1) THEN -(MaxDuration + 1)
  ELSE t - u

(* Mutant: a product that saturates like Sub instead of wrapping around. *)
WrapSaturating(x) ==
  IF x > MaxDuration THEN MaxDuration
  ELSE IF x < -(MaxDuration + 1) THEN -(MaxDuration + 1) ELSE x

(* Two's-complement wrap-around of an integer into the range of Duration:  *)
(* what the multiplication of two Durations yields in the build.           *)
Wrap(x) == ((x + MaxDuration + 1) % (2 * (MaxDuration + 1))) - (MaxDuration + 1)

(* Mutant: the precedence slip "err == nil && lastSync.IsZero() ||       *)
(* modified", which resets a failing, changed service to the minimum.    *)
CalcSyncIntervalPrecedence(now, lastSync, minSyncInterval, modified, err) ==
  IF (~err /\ lastSync = ZeroTime) \/ modified
  THEN minSyncInterval
  ELSE LET interval == Wrap(Sub(now, lastSync) * 2)
       IN  IF interval < minSyncInterval THEN minSyncInterval
           ELSE IF interval > MaxSyncInterval THEN MaxSyncInterval
           ELSE interval

(* calcSyncInterval.  err is TRUE when the pass returned an error.         *)
CalcSyncInterval(now, lastSync, minSyncInterval, modified, err) ==
  IF ~err /\ (lastSync = ZeroTime \/ modified)
  THEN minSyncInterval
  ELSE LET interval == Wrap(Sub(now, lastSync) * 2)
       IN  IF interval < minSyncInterval THEN minSyncInterval
           ELSE IF interval > MaxSyncInterval THEN MaxSyncInterval
           ELSE interval

---------------------------------------------------------------------------
VARIABLES
  now,        \* the clock
  lastSync,   \* ExternalService.LastSyncAt
  nextSync,   \* ExternalService.NextSyncAt
  queued,     \* a sync job for the service is queued
  interval,   \* the interval computed by the last pass (0 before any pass)
  outcome     \* [modified, err] of the last pass

vars == <<now, lastSync, nextSync, queued, interval, outcome>>

TypeOK ==
  /\ now \in 0..MaxTime
  /\ lastSync \in {ZeroTime} \cup 0..MaxTime
  /\ nextSync \in Int
  /\ queued \in BOOLEAN
  /\ interval \in {0} \cup Duration
  /\ outcome \in [modified : BOOLEAN, err : BOOLEAN]

(* A new external service has never been synced: LastSyncAt and           *)
(* NextSyncAt are the zero time, so it is due at once.                     *)
Init ==
  /\ now = 0
  /\ lastSync = ZeroTime
  /\ nextSync = ZeroTime
  /\ queued = FALSE
  /\ interval = 0
  /\ outcome = [modified |-> FALSE, err |-> FALSE]

Tick ==
  /\ now < MaxTime
  /\ now' = now + 1
  /\ UNCHANGED <<lastSync, nextSync, queued, interval, outcome>>

(* One tick of the enqueue loop of Syncer.Run: EnqueueSyncJobs queues a    *)
(* job for a service whose NextSyncAt has passed and that has no job       *)
(* queued or in progress.                                                  *)
EnqueueSyncJobs ==
  /\ ~queued
  /\ nextSync <= now
  /\ queued' = TRUE
  /\ UNCHANGED <<now, lastSync, nextSync, interval, outcome>>

(* TriggerExternalServiceSync: an administrator queues a job now.          *)
TriggerExternalServiceSync ==
  /\ ~queued
  /\ queued' = TRUE
  /\ UNCHANGED <<now, lastSync, nextSync, interval, outcome>>

(* The dependency sync scheduler sets NextSyncAt = now on the package      *)
(* host services after inserting new dependency repos.                     *)
ScheduleDependencySync ==
  /\ nextSync' = now
  /\ UNCHANGED <<now, lastSync, queued, interval, outcome>>

(* The tail of SyncExternalService for a pass whose outcome was            *)
(* (modified, err), of a service whose row read LastSyncAt = last when    *)
(* the pass began: compute the interval, set NextSyncAt and LastSyncAt,   *)
(* and upsert the row.  When the upsert fails (upserted = FALSE) its error *)
(* joins the pass's errors and the stored row keeps its old times.         *)
SyncExternalServiceFrom(last, modified, err, upserted) ==
  LET i == CalcSyncInterval(now, last, MinSyncInterval, modified, err)
  IN  /\ queued
      /\ queued' = FALSE
      /\ interval' = i
      /\ IF upserted THEN /\ nextSync' = now + i
                          /\ lastSync' = now
                     ELSE UNCHANGED <<nextSync, lastSync>>
      /\ outcome' = [modified |-> modified, err |-> err]
      /\ UNCHANGED now

(* A pass taken as one step: the row it read is the current one. *)
SyncExternalService(modified, err, upserted) ==
  SyncExternalServiceFrom(lastSync, modified, err, upserted)

Next ==
  \/ Tick
  \/ EnqueueSyncJobs
  \/ TriggerExternalServiceSync
  \/ ScheduleDependencySync
  \/ \E modified, err, upserted \in BOOLEAN : SyncExternalService(modified, err, upserted)

Spec == Init /\ [][Next]_vars

---------------------------------------------------------------------------
(* The range the clamps of calcSyncInterval keep an interval in: the      *)
(* proof that backoff never shrinks rests on it.                           *)
IntervalBounds ==
  interval # 0 => interval \in MinSyncInterval..MaxSyncInterval

(* Spec: "a service with changes is always scheduled at the minimum        *)
(* interval" (spec.md, sections 4.5 and 8).                                *)
ChangedGetsMinimum ==
  [][ outcome'.modified /\ lastSync' # lastSync => interval' = MinSyncInterval ]_vars

===========================================================================

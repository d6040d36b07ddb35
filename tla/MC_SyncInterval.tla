--------------------------- MODULE MC_SyncInterval --------------------------
(* One external service on a clock of 20 ticks; a Duration is 7 bits wide *)
(* (MaxDuration = 63), the minimum interval is 2 ticks and the 8-hour     *)
(* ceiling is 16 ticks.  The zero time lies 1000 ticks in the past, so    *)
(* that, as in the build, Sub from it saturates.                           *)
EXTENDS SyncInterval

MC_ZeroTime == -1000
=============================================================================

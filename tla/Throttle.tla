------------------------------- MODULE Throttle -------------------------------
(***************************************************************************)
(* One user's proactive rate limits (app/core/throttle.py) and the clock   *)
(* they hang on.  All of it is Redis keys named after the user, written by *)
(* the scheduler process and by the worker; users do not share a key, so   *)
(* one user is the whole system.                                           *)
(*                                                                         *)
(* A tick is an hour of a day of Day hours.  A counter key is named after  *)
(* its hour or UTC day, so a new bucket starts at 0.  A flag set for n     *)
(* hours at some moment of hour h dies at some moment of hour h + n: alive *)
(* before that hour, gone after it, and either in it.                      *)
(***************************************************************************)
EXTENDS Naturals, FiniteSets

CONSTANTS
  Day,          \* hours of a day
  Zone,         \* the user's local time minus UTC, in hours
  QuietHours,   \* the user's quiet hours, local
  MaxPerDay,    \* max_daily_messages
  MaxPerHour,   \* DEFAULT_MAX_PER_HOUR
  DeadMan,      \* DEAD_MAN_SWITCH_THRESHOLD
  Disturbances, \* what may strike: a process dies ("scheduler", "worker"), Redis or
                \* the database fails ("backend"), the user changes a time ("edit")
  MaxDisturbances, \* bound on how many of them do
  Horizon       \* bound on the clock

ASSUME ClockAssumption == Day \in Nat \ {0} /\ Zone \in Nat /\ Horizon \in Nat \ {0}
ASSUME LimitAssumption ==
  MaxPerDay \in Nat /\ MaxPerHour \in Nat /\ DeadMan \in Nat \ {0}
ASSUME DisturbanceAssumption == IsFiniteSet(Disturbances) /\ MaxDisturbances \in Nat

VARIABLES
  now,          \* the hour
  hourCount,    \* rate:proactive:{user}:hour:{bucket} of this hour
  dayCount,     \* rate:proactive:{user}:day:{bucket} of this UTC day
  disabledTil,  \* hour in which proactive:disabled:{user} dies
  struck        \* the disturbances so far

throttleVars == <<now, hourCount, dayCount, disabledTil, struck>>

ThrottleTypeOK ==
  /\ now \in Nat
  /\ hourCount \in Nat
  /\ dayCount \in Nat
  /\ disabledTil \in Nat
  /\ struck \subseteq Disturbances

ThrottleInit ==
  /\ now = 1
  /\ hourCount = 0
  /\ dayCount = 0
  /\ disabledTil = 0
  /\ struck = {}

(* The disturbances of K strike now. *)
Strike(K) ==
  /\ K \subseteq Disturbances \ struck
  /\ Cardinality(struck) + Cardinality(K) <= MaxDisturbances
  /\ struck' = struck \cup K

Disturb(k) == Strike({k})

------------------------------------------------------------------------------
LocalDate == (now + Zone) \div Day
LocalHour == (now + Zone) % Day

IsQuietHours == LocalHour \in QuietHours

(* check_rate_limit *)
RateAllows == hourCount < MaxPerHour /\ dayCount < MaxPerDay

(* The next hour is the first of a UTC day. *)
NewDay == (now + 1) % Day = 0

(* What is left in the next hour of a flag that dies in hour h. *)
Living(h) == IF h > now THEN h ELSE 0

NextHour ==
  /\ now < Horizon
  /\ now' = now + 1
  /\ hourCount' = 0
  /\ dayCount' = IF NewDay THEN 0 ELSE dayCount
  /\ disabledTil' = Living(disabledTil)
  /\ struck' = struck

(* record_proactive_send: both counters in one pipeline. *)
RecordProactiveSend ==
  /\ hourCount' = hourCount + 1
  /\ dayCount' = dayCount + 1
==============================================================================

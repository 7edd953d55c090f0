------------------------------ MODULE RangeGuard ------------------------------
(***************************************************************************)
(* What stands between an echo and the decision to drive forward: the      *)
(* sampling, spike test and median of SonicRangeSensor, and the bands and  *)
(* hysteresis of ObstacleSafety, in time.  One action is one pass of the   *)
(* loop task: RobotHal::update samples, then RobotAPI::update judges.      *)
(*                                                                         *)
(* An echo is the distance in mm that the sensor answers at this moment;   *)
(* 0 stands for every answer the conversion in update() turns down (not    *)
(* finite, not positive, beyond 16 bits).                                  *)
(***************************************************************************)
EXTENDS Integers

CONSTANTS
  ClockModulus,       \* millis() is a uint32_t: 2^32 on the device
  CountModulus,       \* _consecutiveInvalid is a uint16_t: 2^16
  MaxPassMs,          \* longest pass of the loop (the task watchdog's limit)
  SampleIntervalMs, StaleAfterMs, HysteresisMs,   \* Config.h
  MinValidMm, MaxValidMm, MaxStepMm, EmergencyStopMm, ClearMm,
  InvalidSamplesToFault,
  Echoes,             \* the echoes that may come
  Probes              \* outcomes of the I2C probe in begin()

ASSUME RangeAssumption ==
  /\ ClockModulus \in Nat \ {0} /\ CountModulus \in Nat \ {0}
  /\ MaxPassMs \in 0 .. ClockModulus - 1
  /\ SampleIntervalMs \in Nat \ {0} /\ StaleAfterMs \in Nat /\ HysteresisMs \in Nat
  /\ MinValidMm \in Nat \ {0} /\ MaxValidMm \in Nat /\ MaxStepMm \in Nat
  /\ EmergencyStopMm \in Nat /\ ClearMm \in Nat
  /\ InvalidSamplesToFault \in Nat
  /\ Echoes \subseteq Nat /\ Probes \subseteq BOOLEAN

VARIABLES
  sensor,     \* the fields of SonicRangeSensor
  obstacle,   \* the fields of ObstacleSafety
  now         \* millis()

vars == <<sensor, obstacle, now>>

Clock == 0 .. ClockModulus - 1
Elapsed(later, earlier) == (later - earlier) % ClockModulus

RangeSensorHealth == {"READY", "STALE", "INVALID", "UNAVAILABLE"}
ObstacleSafetyState == {"CLEAR", "CAUTION", "BLOCKED", "SENSOR_UNAVAILABLE"}

\* _filterBuffer starts as three zeros.
Distance == {0} \cup Echoes

TypeOK ==
  /\ sensor \in [connected: BOOLEAN, health: RangeSensorHealth, valid: BOOLEAN,
                 distanceMm: Distance, sampleTimeMs: Clock,
                 lastAttemptMs: Clock, invalids: 0 .. CountModulus - 1,
                 buffer: [0 .. 2 -> Distance], index: 0 .. 2, full: BOOLEAN]
  /\ obstacle \in [state: ObstacleSafetyState, clearSinceMs: Clock]
  /\ now \in Clock

\* begin() of both, at the start of setup().
Init ==
  /\ \E connected \in Probes :
       sensor = [connected |-> connected,
                 health |-> IF connected THEN "READY" ELSE "UNAVAILABLE",
                 valid |-> FALSE, distanceMm |-> 0, sampleTimeMs |-> 0,
                 lastAttemptMs |-> 0, invalids |-> 0,
                 buffer |-> [i \in 0 .. 2 |-> 0], index |-> 0, full |-> FALSE]
  /\ obstacle = [state |-> "SENSOR_UNAVAILABLE", clearSinceMs |-> 0]
  /\ now = 0

-----------------------------------------------------------------------------
(* SonicRangeSensor. *)

Between(a, b, c) == (a <= b /\ b <= c) \/ (c <= b /\ b <= a)

\* The farthest of the three instead of the middle one.
MedianFarthest(a, b, c) == IF a >= b /\ a >= c THEN a ELSE IF b >= c THEN b ELSE c

Median(a, b, c) ==
  IF Between(a, b, c) THEN b ELSE IF Between(b, a, c) THEN a ELSE c

\* A reading that has grown old is invalid even before the next sample.
Aged(s, t) ==
  IF s.health = "READY" /\ s.valid /\ Elapsed(t, s.sampleTimeMs) > StaleAfterMs
  THEN [s EXCEPT !.valid = FALSE, !.health = "STALE"] ELSE s

Step(a, b) == IF a > b THEN a - b ELSE b - a

\* Compared with the last reading even after that has become invalid.
PlausibleAlways(s, echo) ==
  /\ echo \in MinValidMm .. MaxValidMm
  /\ s.distanceMm # 0 => Step(echo, s.distanceMm) <= MaxStepMm

\* In range, and no spike against a reading that is still valid.
Plausible(s, echo) ==
  /\ echo \in MinValidMm .. MaxValidMm
  /\ s.valid => Step(echo, s.distanceMm) <= MaxStepMm

\* The ring index runs past the third sample.
AcceptedPastEnd(s, echo, t) ==
  [s EXCEPT !.invalids = 0, !.buffer = [@ EXCEPT ![s.index] = echo],
            !.index = @ + 1, !.distanceMm = echo,
            !.valid = TRUE, !.sampleTimeMs = t, !.health = "READY"]

Accepted(s, echo, t) ==
  LET buffer == [s.buffer EXCEPT ![s.index] = echo]
      full == s.full \/ s.index = 2
  IN [s EXCEPT !.invalids = 0, !.buffer = buffer, !.full = full,
               !.index = (@ + 1) % 3,
               !.distanceMm = IF full
                              THEN Median(buffer[0], buffer[1], buffer[2])
                              ELSE echo,
               !.valid = TRUE, !.sampleTimeMs = t, !.health = "READY"]

\* The last reading stays valid until the sensor is declared INVALID.
RejectedLate(s) ==
  LET invalids == (s.invalids + 1) % CountModulus
  IN [s EXCEPT !.invalids = invalids,
               !.valid = @ /\ invalids < InvalidSamplesToFault,
               !.health = IF invalids >= InvalidSamplesToFault
                          THEN "INVALID" ELSE "READY"]

\* The buffer keeps its samples.
Rejected(s) ==
  LET invalids == (s.invalids + 1) % CountModulus
  IN [s EXCEPT !.invalids = invalids, !.valid = FALSE,
               !.health = IF invalids >= InvalidSamplesToFault
                          THEN "INVALID" ELSE "STALE"]

SampleDue(s, t) == Elapsed(t, s.lastAttemptMs) >= SampleIntervalMs

SensorUpdate(s0, echo, t) ==
  LET s == [Aged(s0, t) EXCEPT !.lastAttemptMs = t]
  IN IF ~s0.connected THEN [s0 EXCEPT !.health = "UNAVAILABLE"]
     ELSE IF ~SampleDue(s0, t) THEN Aged(s0, t)
     ELSE IF Plausible(s, echo) THEN Accepted(s, echo, t)
     ELSE Rejected(s)

-----------------------------------------------------------------------------
(* ObstacleSafety. *)

\* The wait for CLEAR goes on where an earlier one left off.
ObstacleUpdateKeepsWaiting(o, valid, distance, t) ==
  IF ~valid THEN [o EXCEPT !.state = "SENSOR_UNAVAILABLE"]
  ELSE IF distance < EmergencyStopMm THEN [o EXCEPT !.state = "BLOCKED"]
  ELSE IF distance < ClearMm
  THEN [o EXCEPT !.state = IF @ = "BLOCKED" THEN @ ELSE "CAUTION"]
  ELSE LET since == IF o.clearSinceMs = 0 THEN t ELSE o.clearSinceMs
       IN [state |-> IF Elapsed(t, since) >= HysteresisMs THEN "CLEAR" ELSE o.state,
           clearSinceMs |-> since]

\* clearSinceMs = 0 means that no wait is under way.
ObstacleUpdate(o, valid, distance, t) ==
  IF ~valid THEN [state |-> "SENSOR_UNAVAILABLE", clearSinceMs |-> 0]
  ELSE IF distance < EmergencyStopMm THEN [state |-> "BLOCKED", clearSinceMs |-> 0]
  ELSE IF distance < ClearMm
  THEN [state |-> IF o.state = "BLOCKED" THEN "BLOCKED" ELSE "CAUTION",
        clearSinceMs |-> 0]
  ELSE IF o.state = "CLEAR" THEN [o EXCEPT !.clearSinceMs = t]
  ELSE LET since == IF o.clearSinceMs = 0 THEN t ELSE o.clearSinceMs
       IN [state |-> IF Elapsed(t, since) >= HysteresisMs THEN "CLEAR" ELSE o.state,
           clearSinceMs |-> since]

BlocksForwardMotion == obstacle.state \in {"BLOCKED", "SENSOR_UNAVAILABLE"}

\* One pass of the loop task, ms after the last.
Pass(ms, echo) ==
  /\ now' = (now + ms) % ClockModulus
  /\ sensor' = SensorUpdate(sensor, echo, now')
  /\ obstacle' = ObstacleUpdate(obstacle, sensor'.valid, sensor'.distanceMm, now')

Next == \E ms \in 0 .. MaxPassMs, echo \in Echoes : Pass(ms, echo)

Spec == Init /\ [][Next]_vars

-----------------------------------------------------------------------------
(* Properties. *)

\* What forward drive is judged by was measured at the last attempt: a failed
\* attempt, a spike or a stall of the loop leaves no earlier distance standing
\* (SonicRangeSensor::update, the stale test and the rate limit together).
ReadingCurrent ==
  sensor.valid =>
    /\ sensor.sampleTimeMs = sensor.lastAttemptMs
    /\ ~SampleDue(sensor, now)

=============================================================================

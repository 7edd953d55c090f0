-------------------------- MODULE RangeGuardProofs --------------------------
(***************************************************************************)
(* TLAPS proofs about RangeGuard and its history in MCRangeGuard, for      *)
(* every clock width, every set of echoes and every choice of the times    *)
(* and distances of Config.h.                                              *)
(***************************************************************************)
EXTENDS MCRangeGuard, TLAPS

Sensor ==
  [connected: BOOLEAN, health: RangeSensorHealth, valid: BOOLEAN,
   distanceMm: Distance, sampleTimeMs: Clock, lastAttemptMs: Clock,
   invalids: 0 .. CountModulus - 1, buffer: [0 .. 2 -> Distance],
   index: 0 .. 2, full: BOOLEAN]

-----------------------------------------------------------------------------
(* The clock and the median. *)

LEMMA ClockSum ==
  ASSUME NEW t \in Clock, NEW d \in Nat
  PROVE  (t + d) % ClockModulus \in Clock
BY RangeAssumption DEF Clock

LEMMA ElapsedWraps ==
  ASSUME NEW t \in Clock, NEW u \in Clock
  PROVE  Elapsed(t, u) = IF u <= t THEN t - u ELSE t - u + ClockModulus
<1>1. CASE u <= t
  BY <1>1, RangeAssumption DEF Elapsed, Clock
<1>2. CASE ~(u <= t)
  BY <1>2, RangeAssumption DEF Elapsed, Clock
<1>3. QED
  BY <1>1, <1>2

LEMMA ElapsedType ==
  ASSUME NEW t \in Clock, NEW u \in Clock
  PROVE  Elapsed(t, u) \in Nat
BY RangeAssumption DEF Elapsed, Clock

LEMMA SumWraps ==
  ASSUME NEW t \in Clock, NEW ms \in 0 .. MaxPassMs
  PROVE  (t + ms) % ClockModulus
           = IF t + ms < ClockModulus THEN t + ms ELSE t + ms - ClockModulus
<1>1. CASE t + ms < ClockModulus
  BY <1>1, RangeAssumption DEF Clock
<1>2. CASE ~(t + ms < ClockModulus)
  BY <1>2, RangeAssumption DEF Clock
<1>3. QED
  BY <1>1, <1>2

\* The median is one of the three, and no two others are both below or above it
\* (getMedian).
LEMMA MedianIsBetween ==
  ASSUME NEW a \in Nat, NEW b \in Nat, NEW c \in Nat
  PROVE  /\ Median(a, b, c) \in {a, b, c}
         /\ Median(a, b, c) <= a \/ Median(a, b, c) <= b
         /\ Median(a, b, c) <= b \/ Median(a, b, c) <= c
         /\ Median(a, b, c) <= a \/ Median(a, b, c) <= c
         /\ Median(a, b, c) >= a \/ Median(a, b, c) >= b
         /\ Median(a, b, c) >= b \/ Median(a, b, c) >= c
         /\ Median(a, b, c) >= a \/ Median(a, b, c) >= c
BY DEF Median, Between

\* Hence two near samples outvote the third.
LEMMA TwoNearOutvote ==
  ASSUME NEW f \in [0 .. 2 -> Nat], NEW i \in 0 .. 2, NEW limit \in Nat,
         f[(i + 2) % 3] < limit, f[(i + 1) % 3] < limit
  PROVE  Median(f[0], f[1], f[2]) < limit
<1>1. f[0] \in Nat /\ f[1] \in Nat /\ f[2] \in Nat
  OBVIOUS
<1>2. \/ f[0] < limit /\ f[1] < limit
      \/ f[1] < limit /\ f[2] < limit
      \/ f[0] < limit /\ f[2] < limit
  <2>1. CASE i = 0
    BY <2>1
  <2>2. CASE i = 1
    BY <2>2
  <2>3. CASE i = 2
    BY <2>3
  <2>4. QED
    BY <2>1, <2>2, <2>3
<1>3. QED
  BY <1>1, <1>2, MedianIsBetween
-----------------------------------------------------------------------------
(* The ways in which an update leaves the sensor: there is none, it waits    *)
(* for the next attempt, it accepts the echo, or it refuses it.              *)

Samples(s) == <<s.buffer, s.index, s.full>>

Missing(s, t) ==
  /\ ~s.connected /\ ~t.connected
  /\ t.valid = s.valid /\ Samples(t) = Samples(s)
  /\ t.sampleTimeMs = s.sampleTimeMs /\ t.lastAttemptMs = s.lastAttemptMs
  /\ t.distanceMm = s.distanceMm

Waits(s, t, time) ==
  /\ s.connected /\ t.connected /\ ~SampleDue(s, time)
  /\ t.valid => s.valid
  /\ s.valid /\ Elapsed(time, s.sampleTimeMs) <= StaleAfterMs => t.valid
  /\ t.distanceMm = s.distanceMm /\ Samples(t) = Samples(s)
  /\ t.sampleTimeMs = s.sampleTimeMs /\ t.lastAttemptMs = s.lastAttemptMs

Accepts(s, t, echo, time) ==
  /\ s.connected /\ t.connected /\ SampleDue(s, time)
  /\ t.valid /\ t.sampleTimeMs = time /\ t.lastAttemptMs = time
  /\ t.buffer = [s.buffer EXCEPT ![s.index] = echo]
  /\ t.full = (s.full \/ s.index = 2)
  /\ t.index = (s.index + 1) % 3
  /\ t.distanceMm = IF t.full THEN Median(t.buffer[0], t.buffer[1], t.buffer[2])
                    ELSE echo

Refuses(s, t, echo, time) ==
  /\ s.connected /\ t.connected /\ SampleDue(s, time)
  /\ ~t.valid /\ t.lastAttemptMs = time /\ Samples(t) = Samples(s)
  /\ t.sampleTimeMs = s.sampleTimeMs /\ t.distanceMm = s.distanceMm
  /\ echo \in MinValidMm .. MaxValidMm =>
       s.valid /\ ~(Step(echo, s.distanceMm) <= MaxStepMm)

\* Aging only takes away.
LEMMA AgedSensor ==
  ASSUME NEW s \in Sensor, NEW time \in Clock
  PROVE  /\ Aged(s, time) \in Sensor
         /\ Aged(s, time).connected = s.connected
         /\ Aged(s, time).valid => s.valid
         /\ s.valid /\ Elapsed(time, s.sampleTimeMs) <= StaleAfterMs =>
              Aged(s, time).valid
         /\ Aged(s, time).distanceMm = s.distanceMm
         /\ Samples(Aged(s, time)) = Samples(s)
         /\ Aged(s, time).sampleTimeMs = s.sampleTimeMs
         /\ Aged(s, time).lastAttemptMs = s.lastAttemptMs
<1> DEFINE old == [s EXCEPT !.valid = FALSE, !.health = "STALE"]
<1>1. /\ old \in Sensor /\ old.connected = s.connected /\ ~old.valid
      /\ old.distanceMm = s.distanceMm /\ Samples(old) = Samples(s)
      /\ old.sampleTimeMs = s.sampleTimeMs /\ old.lastAttemptMs = s.lastAttemptMs
  BY DEF Sensor, RangeSensorHealth, Samples
<1>2. \/ Aged(s, time) = old /\ Elapsed(time, s.sampleTimeMs) > StaleAfterMs
      \/ Aged(s, time) = s
  BY DEF Aged
<1>3. Elapsed(time, s.sampleTimeMs) \in Nat /\ StaleAfterMs \in Nat
  BY ElapsedType, RangeAssumption DEF Sensor
<1> HIDE DEF old
<1>4. QED
  BY <1>1, <1>2, <1>3

Attempted(s, time) == [Aged(s, time) EXCEPT !.lastAttemptMs = time]

LEMMA AttemptedSensor ==
  ASSUME NEW s \in Sensor, NEW time \in Clock
  PROVE  /\ Attempted(s, time) \in Sensor
         /\ Attempted(s, time).connected = s.connected
         /\ Attempted(s, time).valid => s.valid
         /\ Attempted(s, time).distanceMm = s.distanceMm
         /\ Samples(Attempted(s, time)) = Samples(s)
         /\ Attempted(s, time).sampleTimeMs = s.sampleTimeMs
         /\ Attempted(s, time).lastAttemptMs = time
<1> DEFINE a == Aged(s, time)
<1>1. /\ a \in Sensor /\ a.connected = s.connected /\ (a.valid => s.valid)
      /\ a.distanceMm = s.distanceMm /\ Samples(a) = Samples(s)
      /\ a.sampleTimeMs = s.sampleTimeMs
  BY AgedSensor
<1>2. Attempted(s, time) = [a EXCEPT !.lastAttemptMs = time]
  BY DEF Attempted
<1> HIDE DEF a
<1>3. QED
  BY <1>1, <1>2 DEF Sensor, Samples

\* An accepted echo makes a reading that is valid now (update, getMedian).
LEMMA AcceptedSensor ==
  ASSUME NEW s \in Sensor, NEW echo \in Echoes, NEW time \in Clock
  PROVE  LET t == Accepted(s, echo, time)
         IN /\ t \in Sensor
            /\ t.connected = s.connected /\ t.lastAttemptMs = s.lastAttemptMs
            /\ t.valid /\ t.sampleTimeMs = time
            /\ t.buffer = [s.buffer EXCEPT ![s.index] = echo]
            /\ t.full = (s.full \/ s.index = 2)
            /\ t.index = (s.index + 1) % 3
            /\ t.distanceMm = IF t.full
                              THEN Median(t.buffer[0], t.buffer[1], t.buffer[2])
                              ELSE echo
<1> DEFINE buffer == [s.buffer EXCEPT ![s.index] = echo]
           full == s.full \/ s.index = 2
           distance == IF full THEN Median(buffer[0], buffer[1], buffer[2]) ELSE echo
           index == (s.index + 1) % 3
           t == [s EXCEPT !.invalids = 0, !.buffer = buffer, !.full = full,
                          !.index = index, !.distanceMm = distance,
                          !.valid = TRUE, !.sampleTimeMs = time, !.health = "READY"]
<1>1. Accepted(s, echo, time) = t
  <2>1. s.index = s.index
    OBVIOUS
  <2>2. QED
    BY DEF Accepted
<1>2. buffer \in [0 .. 2 -> Distance]
  BY DEF Sensor, Distance
<1>3. distance \in Distance
  <2>1. Distance \subseteq Nat
    BY RangeAssumption DEF Distance
  <2>2. /\ buffer[0] \in Distance /\ buffer[1] \in Distance /\ buffer[2] \in Distance
        /\ echo \in Distance
    BY <1>2 DEF Distance
  <2> HIDE DEF buffer
  <2>3. Median(buffer[0], buffer[1], buffer[2]) \in Distance
    BY <2>1, <2>2, MedianIsBetween
  <2>4. QED
    BY <2>2, <2>3
<1>4. index \in 0 .. 2 /\ full \in BOOLEAN /\ 0 \in 0 .. CountModulus - 1
  BY RangeAssumption DEF Sensor
<1> HIDE DEF buffer, full, distance, index
<1>5. /\ t \in Sensor /\ t.connected = s.connected
      /\ t.lastAttemptMs = s.lastAttemptMs /\ t.valid /\ t.sampleTimeMs = time
      /\ t.buffer = buffer /\ t.full = full /\ t.index = index
      /\ t.distanceMm = distance
  BY <1>2, <1>3, <1>4 DEF Sensor, RangeSensorHealth
<1>6. QED
  BY <1>1, <1>5 DEF buffer, full, distance, index

LEMMA RejectedSensor ==
  ASSUME NEW s \in Sensor
  PROVE  LET t == Rejected(s)
         IN /\ t \in Sensor
            /\ t.connected = s.connected /\ t.lastAttemptMs = s.lastAttemptMs
            /\ ~t.valid /\ t.sampleTimeMs = s.sampleTimeMs
            /\ t.distanceMm = s.distanceMm /\ Samples(t) = Samples(s)
<1> DEFINE invalids == (s.invalids + 1) % CountModulus
           health == IF invalids >= InvalidSamplesToFault
                     THEN "INVALID" ELSE "STALE"
           t == [s EXCEPT !.invalids = invalids, !.valid = FALSE,
                          !.health = health]
<1>1. Rejected(s) = t
  BY DEF Rejected
<1>2. invalids \in 0 .. CountModulus - 1 /\ health \in RangeSensorHealth
  BY RangeAssumption DEF Sensor, RangeSensorHealth
<1> HIDE DEF invalids, health
<1>3. QED
  BY <1>1, <1>2 DEF Sensor, Samples

\* One of the four ways it is, and the sensor keeps its type.
LEMMA SensorUpdates ==
  ASSUME NEW s \in Sensor, NEW echo \in Echoes, NEW time \in Clock
  PROVE  LET t == SensorUpdate(s, echo, time)
         IN /\ t \in Sensor
            /\ \/ Missing(s, t) \/ Waits(s, t, time)
               \/ Accepts(s, t, echo, time) \/ Refuses(s, t, echo, time)
<1> DEFINE a == Attempted(s, time)
           u == SensorUpdate(s, echo, time)
<1>1. /\ a \in Sensor /\ a.connected = s.connected /\ (a.valid => s.valid)
      /\ a.distanceMm = s.distanceMm /\ Samples(a) = Samples(s)
      /\ a.sampleTimeMs = s.sampleTimeMs /\ a.lastAttemptMs = time
  BY AttemptedSensor
<1>2. u = IF ~s.connected THEN [s EXCEPT !.health = "UNAVAILABLE"]
          ELSE IF ~SampleDue(s, time) THEN Aged(s, time)
          ELSE IF Plausible(a, echo) THEN Accepted(a, echo, time)
          ELSE Rejected(a)
  BY DEF SensorUpdate, Attempted
<1> HIDE DEF a, u
<1>3. CASE ~s.connected
  <2>1. u = [s EXCEPT !.health = "UNAVAILABLE"]
    BY <1>2, <1>3
  <2>2. u \in Sensor /\ Missing(s, u)
    BY <1>3, <2>1 DEF Sensor, RangeSensorHealth, Missing, Samples
  <2>3. QED
    BY <2>2 DEF u
<1>4. CASE s.connected /\ ~SampleDue(s, time)
  <2>1. u = Aged(s, time)
    BY <1>2, <1>4
  <2>2. u \in Sensor /\ Waits(s, u, time)
    BY <1>4, <2>1, AgedSensor DEF Waits
  <2>3. QED
    BY <2>2 DEF u
<1>5. CASE s.connected /\ SampleDue(s, time) /\ Plausible(a, echo)
  <2>1. u = Accepted(a, echo, time)
    BY <1>2, <1>5
  <2>2. a.buffer = s.buffer /\ a.index = s.index /\ a.full = s.full
    BY <1>1 DEF Samples
  <2>3. /\ u \in Sensor /\ u.connected = a.connected
        /\ u.lastAttemptMs = a.lastAttemptMs
        /\ u.valid /\ u.sampleTimeMs = time
        /\ u.buffer = [a.buffer EXCEPT ![a.index] = echo]
        /\ u.full = (a.full \/ a.index = 2)
        /\ u.index = (a.index + 1) % 3
        /\ u.distanceMm = IF u.full
                          THEN Median(u.buffer[0], u.buffer[1], u.buffer[2])
                          ELSE echo
    BY <1>1, <2>1, AcceptedSensor
  <2>4. Accepts(s, u, echo, time)
    BY <1>1, <1>5, <2>2, <2>3 DEF Accepts
  <2>5. QED
    BY <2>3, <2>4 DEF u
<1>6. CASE s.connected /\ SampleDue(s, time) /\ ~Plausible(a, echo)
  <2>1. u = Rejected(a)
    BY <1>2, <1>6
  <2>2. echo \in MinValidMm .. MaxValidMm =>
          a.valid /\ ~(Step(echo, a.distanceMm) <= MaxStepMm)
    BY <1>6 DEF Plausible
  <2>3. u \in Sensor /\ Refuses(s, u, echo, time)
    BY <1>1, <1>6, <2>1, <2>2, RejectedSensor DEF Refuses
  <2>4. QED
    BY <2>3 DEF u
<1>7. QED
  BY <1>3, <1>4, <1>5, <1>6

-----------------------------------------------------------------------------
(* The invariants. *)

\* The filter has judged the reading that the sensor now has (RobotAPI::update).
Judged ==
  /\ ~sensor.valid => obstacle.state = "SENSOR_UNAVAILABLE"
  /\ sensor.valid /\ sensor.distanceMm < EmergencyStopMm =>
       obstacle.state = "BLOCKED"

\* A sensor that is not there never has a valid reading.
ReadingInv == ReadingCurrent /\ (~sensor.connected => ~sensor.valid)

\* A wait for CLEAR is younger than the openness it is a wait of; the clock may
\* have wrapped, and its zero may have cancelled the wait.
ClearInv ==
  /\ openMs \in 0 .. HysteresisMs
  /\ obstacle.clearSinceMs # 0 \/ obstacle.state = "CLEAR" => OpenReading(sensor)
  /\ obstacle.state = "CLEAR" => openMs = HysteresisMs
  /\ obstacle.clearSinceMs # 0 /\ obstacle.state # "CLEAR" =>
       \/ openMs = HysteresisMs
       \/ Elapsed(now, obstacle.clearSinceMs) <= openMs

\* The sample that was accepted last, and the one before it, are near.
LastNear(s) == s.buffer[(s.index + 2) % 3] < EmergencyStopMm
LastTwoNear(s) == LastNear(s) /\ s.buffer[(s.index + 1) % 3] < EmergencyStopMm

\* What near echoes in a row leave behind: the first is refused or accepted,
\* the second is accepted if the first was not, and so on.
NearInv ==
  /\ nears \in 0 .. 3
  /\ sensor.valid =>
       sensor.distanceMm =
         IF sensor.full
         THEN Median(sensor.buffer[0], sensor.buffer[1], sensor.buffer[2])
         ELSE sensor.buffer[(sensor.index + 2) % 3]
  /\ nears >= 1 => ~sensor.valid \/ LastNear(sensor)
  /\ nears >= 2 => LastNear(sensor)
  /\ nears >= 3 => ~sensor.valid \/ LastTwoNear(sensor)

\* What the filter makes of a reading (ObstacleSafety::update): p is what it was
\* in state o and at this time.
Answers(o, p, valid, distance, time) ==
  LET since == IF o.clearSinceMs = 0 THEN time ELSE o.clearSinceMs
  IN /\ ~valid => p.state = "SENSOR_UNAVAILABLE"
     /\ valid /\ distance < EmergencyStopMm => p.state = "BLOCKED"
     /\ ~valid \/ distance < ClearMm => p.state # "CLEAR" /\ p.clearSinceMs = 0
     /\ valid /\ distance >= ClearMm =>
          \/ /\ distance < EmergencyStopMm
             /\ p.state = "BLOCKED" /\ p.clearSinceMs = 0
          \/ o.state = "CLEAR" /\ p.state = "CLEAR"
          \/ /\ o.state # "CLEAR" /\ p.clearSinceMs = since
             /\ p.state = "CLEAR" <=> Elapsed(time, since) >= HysteresisMs

LEMMA ObstacleUpdates ==
  ASSUME NEW o \in [state: ObstacleSafetyState, clearSinceMs: Clock],
         NEW valid \in BOOLEAN, NEW distance \in Nat, NEW time \in Clock
  PROVE  LET p == ObstacleUpdate(o, valid, distance, time)
         IN /\ p \in [state: ObstacleSafetyState, clearSinceMs: Clock]
            /\ Answers(o, p, valid, distance, time)
<1> DEFINE since == IF o.clearSinceMs = 0 THEN time ELSE o.clearSinceMs
           p == ObstacleUpdate(o, valid, distance, time)
<1>1. 0 \in Clock /\ since \in Clock
  BY RangeAssumption DEF Clock
<1>2. CASE ~valid
  BY <1>1, <1>2 DEF ObstacleUpdate, ObstacleSafetyState, Answers
<1>3. CASE valid /\ distance < EmergencyStopMm
  <2>1. p = [state |-> "BLOCKED", clearSinceMs |-> 0]
    BY <1>3 DEF ObstacleUpdate
  <2>2. /\ p \in [state: ObstacleSafetyState, clearSinceMs: Clock]
        /\ p.state = "BLOCKED" /\ p.clearSinceMs = 0
    BY <1>1, <2>1 DEF ObstacleSafetyState
  <2> HIDE DEF p
  <2>3. QED
    BY <1>3, <2>2 DEF p, Answers
<1>4. CASE valid /\ ~(distance < EmergencyStopMm) /\ distance < ClearMm
  <2>1. p = [state |-> IF o.state = "BLOCKED" THEN "BLOCKED" ELSE "CAUTION",
             clearSinceMs |-> 0]
    BY <1>4 DEF ObstacleUpdate
  <2>2. ~(distance >= ClearMm)
    BY <1>4, RangeAssumption
  <2>3. /\ p \in [state: ObstacleSafetyState, clearSinceMs: Clock]
        /\ p.state # "CLEAR" /\ p.clearSinceMs = 0
    BY <1>1, <2>1 DEF ObstacleSafetyState
  <2> HIDE DEF p
  <2>4. QED
    BY <1>4, <2>2, <2>3 DEF p, Answers
<1>5. CASE valid /\ ~(distance < EmergencyStopMm) /\ ~(distance < ClearMm)
  <2>1. CASE o.state = "CLEAR"
    <3>1. p = [o EXCEPT !.clearSinceMs = time]
      BY <1>5, <2>1 DEF ObstacleUpdate
    <3>2. QED
      BY <1>1, <1>5, <2>1, <3>1 DEF ObstacleSafetyState, Answers
  <2>2. CASE o.state # "CLEAR"
    <3>1. p = [state |-> IF Elapsed(time, since) >= HysteresisMs THEN "CLEAR"
                         ELSE o.state,
               clearSinceMs |-> since]
      BY <1>5, <2>2 DEF ObstacleUpdate
    <3> HIDE DEF since
    <3>2. p.state = "CLEAR" <=> Elapsed(time, since) >= HysteresisMs
      BY <2>2, <3>1
    <3>3. /\ p \in [state: ObstacleSafetyState, clearSinceMs: Clock]
          /\ p.clearSinceMs = since
      BY <1>1, <3>1 DEF ObstacleSafetyState
    <3>4. QED
      BY <1>5, <2>2, <3>2, <3>3 DEF since, Answers
  <2>3. QED
    BY <2>1, <2>2
<1>6. QED
  BY <1>2, <1>3, <1>4, <1>5

LEMMA DistancesAreNatural == Distance \subseteq Nat
BY RangeAssumption DEF Distance

\* A pass, taken apart once for all.
LEMMA PassTakenApart ==
  ASSUME TypeOK, NEW ms \in 0 .. MaxPassMs, NEW echo \in Echoes, Pass(ms, echo)
  PROVE  /\ sensor \in Sensor /\ sensor' \in Sensor
         /\ now \in Clock /\ now' \in Clock
         /\ now' = (now + ms) % ClockModulus
         /\ obstacle' = ObstacleUpdate(obstacle, sensor'.valid,
                                       sensor'.distanceMm, now')
         /\ \/ Missing(sensor, sensor') \/ Waits(sensor, sensor', now')
            \/ Accepts(sensor, sensor', echo, now')
            \/ Refuses(sensor, sensor', echo, now')
<1>1. sensor \in Sensor /\ now \in Clock
  BY DEF TypeOK, Sensor
<1>2. ms \in Nat
  BY RangeAssumption
<1>3. now' = (now + ms) % ClockModulus /\ now' \in Clock
  BY <1>1, <1>2, ClockSum DEF Pass
<1>4. sensor' = SensorUpdate(sensor, echo, now')
  BY DEF Pass
<1>5. QED
  BY <1>1, <1>3, <1>4, SensorUpdates DEF Pass

LEMMA TypeStep == TypeOK /\ [Next]_vars => TypeOK'
<1> SUFFICES ASSUME TypeOK, [Next]_vars PROVE TypeOK'
  OBVIOUS
<1>1. CASE UNCHANGED vars
  BY <1>1 DEF vars, TypeOK
<1>2. ASSUME NEW ms \in 0 .. MaxPassMs, NEW echo \in Echoes, Pass(ms, echo)
      PROVE  TypeOK'
  <2>1. /\ sensor' \in Sensor /\ now' \in Clock
        /\ obstacle' = ObstacleUpdate(obstacle, sensor'.valid,
                                      sensor'.distanceMm, now')
    BY <1>2, PassTakenApart
  <2>2. /\ obstacle \in [state: ObstacleSafetyState, clearSinceMs: Clock]
        /\ sensor'.valid \in BOOLEAN /\ sensor'.distanceMm \in Nat
    BY <2>1, DistancesAreNatural DEF TypeOK, Sensor
  <2>3. obstacle' \in [state: ObstacleSafetyState, clearSinceMs: Clock]
    BY <2>1, <2>2, ObstacleUpdates
  <2>4. QED
    BY <2>1, <2>3 DEF TypeOK, Sensor
<1>3. QED
  BY <1>1, <1>2 DEF Next

LEMMA TypeInit == Init => TypeOK
<1> SUFFICES ASSUME Init PROVE TypeOK
  OBVIOUS
<1>1. /\ 0 \in Clock /\ 0 \in 0 .. CountModulus - 1 /\ 0 \in Distance
      /\ Probes \subseteq BOOLEAN
  BY RangeAssumption DEF Clock, Distance
<1>2. [i \in 0 .. 2 |-> 0] \in [0 .. 2 -> Distance]
  BY <1>1
<1>3. PICK connected \in Probes :
        sensor = [connected |-> connected,
                  health |-> IF connected THEN "READY" ELSE "UNAVAILABLE",
                  valid |-> FALSE, distanceMm |-> 0, sampleTimeMs |-> 0,
                  lastAttemptMs |-> 0, invalids |-> 0,
                  buffer |-> [i \in 0 .. 2 |-> 0], index |-> 0, full |-> FALSE]
  BY DEF Init
<1>4. sensor \in Sensor
  BY <1>1, <1>2, <1>3 DEF Sensor, RangeSensorHealth
<1>5. QED
  BY <1>1, <1>4 DEF Init, TypeOK, Sensor, ObstacleSafetyState

\* The sensor, its ring of samples and its counter, and the filter keep their
\* types, for every count that wraps and every distance (SonicRangeSensor,
\* ObstacleSafety).
THEOREM RangeTypeCorrect == Spec => []TypeOK
BY TypeInit, TypeStep, PTL DEF Spec

-----------------------------------------------------------------------------
(* The reading is current. *)

LEMMA ReadingStep ==
  ASSUME TypeOK, ReadingInv, [Next]_vars
  PROVE  ReadingInv'
<1>1. CASE UNCHANGED vars
  BY <1>1 DEF vars, ReadingInv, ReadingCurrent, SampleDue
<1>2. ASSUME NEW ms \in 0 .. MaxPassMs, NEW echo \in Echoes, Pass(ms, echo)
      PROVE  ReadingInv'
  <2>1. /\ sensor \in Sensor /\ now' \in Clock
        /\ \/ Missing(sensor, sensor') \/ Waits(sensor, sensor', now')
           \/ Accepts(sensor, sensor', echo, now')
           \/ Refuses(sensor, sensor', echo, now')
    BY <1>2, PassTakenApart
  <2>2. CASE Missing(sensor, sensor')
    BY <2>2 DEF Missing, ReadingInv, ReadingCurrent
  <2>3. CASE Waits(sensor, sensor', now')
    BY <2>3 DEF Waits, ReadingInv, ReadingCurrent, SampleDue
  <2>4. CASE Accepts(sensor, sensor', echo, now')
    <3>1. Elapsed(now', now') = 0
      BY <2>1, ElapsedWraps DEF Clock
    <3>2. QED
      BY <2>4, <3>1, RangeAssumption
      DEF Accepts, ReadingInv, ReadingCurrent, SampleDue
  <2>5. CASE Refuses(sensor, sensor', echo, now')
    BY <2>5 DEF Refuses, ReadingInv, ReadingCurrent
  <2>6. QED
    BY <2>1, <2>2, <2>3, <2>4, <2>5
<1>3. QED
  BY <1>1, <1>2 DEF Next

LEMMA SensorInit == Init => ~sensor.valid /\ ~sensor.full
BY DEF Init

\* Forward drive is judged by what was measured at the last attempt: no echo
\* that was refused and no stall of the loop leaves an earlier distance standing
\* (SonicRangeSensor::update).
THEOREM ReadingsAreCurrent == Spec => []ReadingCurrent
<1>1. Init => ReadingInv
  BY SensorInit DEF ReadingInv, ReadingCurrent
<1>2. TypeOK /\ ReadingInv /\ [Next]_vars => ReadingInv'
  BY ReadingStep
<1>3. ReadingInv => ReadingCurrent
  BY DEF ReadingInv
<1>4. QED
  BY <1>1, <1>2, <1>3, RangeTypeCorrect, PTL DEF Spec

-----------------------------------------------------------------------------
(* CLEAR is earned. *)

\* A pass of the loop adds its length to an age, or less when the clock wraps.
LEMMA AgesByThePass ==
  ASSUME NEW t \in Clock, NEW u \in Clock, NEW ms \in 0 .. MaxPassMs
  PROVE  Elapsed((t + ms) % ClockModulus, u) <= Elapsed(t, u) + ms
<1> DEFINE v == (t + ms) % ClockModulus
<1>1. v \in Clock /\ ms \in Nat
  BY ClockSum, RangeAssumption
<1>2. v = IF t + ms < ClockModulus THEN t + ms ELSE t + ms - ClockModulus
  BY SumWraps
<1> HIDE DEF v
<1>3. Elapsed(v, u) = IF u <= v THEN v - u ELSE v - u + ClockModulus
  BY <1>1, ElapsedWraps
<1>4. Elapsed(t, u) = IF u <= t THEN t - u ELSE t - u + ClockModulus
  BY ElapsedWraps
<1>5. Elapsed(v, u) <= Elapsed(t, u) + ms
  BY <1>1, <1>2, <1>3, <1>4, RangeAssumption DEF Clock
<1>6. QED
  BY <1>5 DEF v

LEMMA ClearStep ==
  ASSUME TypeOK, ClearInv, NEW ms \in 0 .. MaxPassMs, NEW echo \in Echoes,
         MCPass(ms, echo)
  PROVE  ClearInv'
<1> DEFINE since == IF obstacle.clearSinceMs = 0 THEN now' ELSE obstacle.clearSinceMs
<1>1. /\ sensor' \in Sensor /\ now \in Clock /\ now' \in Clock
      /\ now' = (now + ms) % ClockModulus
      /\ obstacle' = ObstacleUpdate(obstacle, sensor'.valid,
                                    sensor'.distanceMm, now')
  BY PassTakenApart DEF MCPass
<1>2. /\ obstacle \in [state: ObstacleSafetyState, clearSinceMs: Clock]
      /\ sensor'.valid \in BOOLEAN /\ sensor'.distanceMm \in Nat
      /\ ms \in Nat /\ HysteresisMs \in Nat /\ ClearMm \in Nat
      /\ openMs \in 0 .. HysteresisMs
  <2>1. sensor'.valid \in BOOLEAN /\ sensor'.distanceMm \in Nat
    BY <1>1, DistancesAreNatural DEF Sensor
  <2>2. obstacle \in [state: ObstacleSafetyState, clearSinceMs: Clock]
    BY DEF TypeOK
  <2>3. QED
    BY <2>1, <2>2, RangeAssumption DEF ClearInv
<1>3. /\ ~sensor'.valid \/ sensor'.distanceMm < ClearMm =>
           obstacle'.state # "CLEAR" /\ obstacle'.clearSinceMs = 0
      /\ sensor'.valid /\ sensor'.distanceMm >= ClearMm =>
           \/ obstacle'.state = "BLOCKED" /\ obstacle'.clearSinceMs = 0
           \/ obstacle.state = "CLEAR" /\ obstacle'.state = "CLEAR"
           \/ /\ obstacle.state # "CLEAR" /\ obstacle'.clearSinceMs = since
              /\ obstacle'.state = "CLEAR" => Elapsed(now', since) >= HysteresisMs
  <2>1. Answers(obstacle, obstacle', sensor'.valid, sensor'.distanceMm, now')
    BY <1>1, <1>2, ObstacleUpdates
  <2>2. QED
    BY <2>1 DEF Answers
<1>4. openMs' = IF ~OpenReading(sensor') THEN 0
                ELSE IF OpenReading(sensor) THEN Capped(openMs + ms, HysteresisMs)
                ELSE 0
  BY DEF MCPass
<1>5. openMs' \in 0 .. HysteresisMs
  BY <1>2, <1>4 DEF Capped
<1> HIDE DEF since
<1>6. CASE ~OpenReading(sensor')
  <2>1. obstacle'.state # "CLEAR" /\ obstacle'.clearSinceMs = 0
    BY <1>2, <1>3, <1>6 DEF OpenReading
  <2>2. QED
    BY <1>5, <2>1 DEF ClearInv
<1>7. CASE OpenReading(sensor') /\ obstacle'.state = "BLOCKED"
           /\ obstacle'.clearSinceMs = 0
  BY <1>5, <1>7 DEF ClearInv
<1>8. CASE OpenReading(sensor') /\ obstacle.state = "CLEAR"
           /\ obstacle'.state = "CLEAR"
  <2>1. OpenReading(sensor) /\ openMs = HysteresisMs
    BY <1>8 DEF ClearInv
  <2>2. openMs' = HysteresisMs
    BY <1>2, <1>4, <1>8, <2>1 DEF Capped
  <2>3. QED
    BY <1>5, <1>8, <2>2 DEF ClearInv
<1>9. CASE /\ OpenReading(sensor') /\ obstacle.state # "CLEAR"
           /\ obstacle'.clearSinceMs = since
           /\ obstacle'.state = "CLEAR" => Elapsed(now', since) >= HysteresisMs
  <2>1. CASE obstacle.clearSinceMs = 0
    <3>1. since = now' /\ Elapsed(now', now') = 0
      BY <1>1, <2>1, ElapsedWraps DEF since, Clock
    <3>2. obstacle'.state = "CLEAR" => openMs' = HysteresisMs
      BY <1>2, <1>5, <1>9, <3>1
    <3>3. Elapsed(now', since) <= openMs'
      BY <1>2, <1>5, <3>1
    <3>4. QED
      BY <1>5, <1>9, <3>2, <3>3 DEF ClearInv
  <2>2. CASE obstacle.clearSinceMs # 0
    <3>1. since = obstacle.clearSinceMs /\ since \in Clock
      BY <1>2, <2>2 DEF since
    <3>2. /\ OpenReading(sensor)
          /\ openMs = HysteresisMs \/ Elapsed(now, since) <= openMs
      BY <1>9, <2>2, <3>1 DEF ClearInv
    <3>3. openMs' = IF openMs + ms < HysteresisMs THEN openMs + ms
                    ELSE HysteresisMs
      BY <1>4, <1>9, <3>2 DEF Capped
    <3>4. Elapsed(now', since) <= Elapsed(now, since) + ms
      BY <1>1, <3>1, AgesByThePass
    <3>5. Elapsed(now', since) \in Nat /\ Elapsed(now, since) \in Nat
      BY <1>1, <3>1, ElapsedType
    <3>6. openMs' = HysteresisMs \/ Elapsed(now', since) <= openMs'
      BY <1>2, <3>2, <3>3, <3>4, <3>5
    <3>7. obstacle'.state = "CLEAR" => openMs' = HysteresisMs
      BY <1>2, <1>5, <1>9, <3>5, <3>6
    <3>8. QED
      BY <1>5, <1>9, <3>6, <3>7 DEF ClearInv
  <2>3. QED
    BY <2>1, <2>2
<1>10. QED
  BY <1>2, <1>3, <1>6, <1>7, <1>8, <1>9 DEF OpenReading

LEMMA MCTypeStep == TypeOK /\ [MCNext]_mcVars => TypeOK'
<1>1. [MCNext]_mcVars => [Next]_vars
  BY DEF MCNext, MCPass, mcVars, Next, vars
<1>2. QED
  BY <1>1, TypeStep

LEMMA MCTypeInit == MCInit => TypeOK
BY TypeInit DEF MCInit

\* CLEAR takes open readings for the whole hysteresis time without a gap, also
\* across the wrap of millis() and its zero (ObstacleSafety::update).
THEOREM ClearMustBeEarned == MCSpec => []ClearIsEarned
<1>1. MCInit => ClearInv
  BY RangeAssumption DEF MCInit, Init, ClearInv
<1>2. TypeOK /\ ClearInv /\ [MCNext]_mcVars => ClearInv'
  <2> SUFFICES ASSUME TypeOK, ClearInv, [MCNext]_mcVars PROVE ClearInv'
    OBVIOUS
  <2>1. CASE UNCHANGED mcVars
    BY <2>1 DEF mcVars, ClearInv, OpenReading
  <2>2. CASE MCNext
    BY <2>2, ClearStep DEF MCNext
  <2>3. QED
    BY <2>1, <2>2
<1>3. ClearInv => ClearIsEarned
  BY RangeAssumption DEF ClearInv, ClearIsEarned
<1>4. QED
  BY <1>1, <1>2, <1>3, MCTypeInit, MCTypeStep, PTL DEF MCSpec

-----------------------------------------------------------------------------
(* Near echoes block. *)

LEMMA JudgedStep ==
  ASSUME TypeOK, Judged, [Next]_vars
  PROVE  Judged'
<1>1. CASE UNCHANGED vars
  BY <1>1 DEF vars, Judged
<1>2. ASSUME NEW ms \in 0 .. MaxPassMs, NEW echo \in Echoes, Pass(ms, echo)
      PROVE  Judged'
  <2>1. /\ sensor' \in Sensor /\ now' \in Clock
        /\ obstacle' = ObstacleUpdate(obstacle, sensor'.valid,
                                      sensor'.distanceMm, now')
    BY <1>2, PassTakenApart
  <2>2. /\ obstacle \in [state: ObstacleSafetyState, clearSinceMs: Clock]
        /\ sensor'.valid \in BOOLEAN /\ sensor'.distanceMm \in Nat
    BY <2>1, DistancesAreNatural DEF TypeOK, Sensor
  <2>3. Answers(obstacle, obstacle', sensor'.valid, sensor'.distanceMm, now')
    BY <2>1, <2>2, ObstacleUpdates
  <2>4. QED
    BY <2>3 DEF Answers, Judged
<1>3. QED
  BY <1>1, <1>2 DEF Next

\* Where the last two samples are, once another one has been accepted.
LEMMA RingTurns ==
  ASSUME NEW s \in Sensor, NEW t \in Sensor, NEW echo \in Echoes,
         t.buffer = [s.buffer EXCEPT ![s.index] = echo],
         t.index = (s.index + 1) % 3
  PROVE  /\ t.buffer[(t.index + 2) % 3] = echo
         /\ t.buffer[(t.index + 1) % 3] = s.buffer[(s.index + 2) % 3]
<1>1. s.buffer \in [0 .. 2 -> Distance] /\ s.index \in 0 .. 2
  BY DEF Sensor
<1>2. CASE s.index = 0
  BY <1>1, <1>2
<1>3. CASE s.index = 1
  BY <1>1, <1>3
<1>4. CASE s.index = 2
  BY <1>1, <1>4
<1>5. QED
  BY <1>1, <1>2, <1>3, <1>4

LEMMA NearStep ==
  ASSUME EmergencyStopMm <= MaxValidMm + 1,
         TypeOK, NearInv, NEW ms \in 0 .. MaxPassMs, NEW echo \in Echoes,
         MCPass(ms, echo)
  PROVE  NearInv'
<1>1. /\ sensor \in Sensor /\ sensor' \in Sensor /\ now' \in Clock
      /\ \/ Missing(sensor, sensor') \/ Waits(sensor, sensor', now')
         \/ Accepts(sensor, sensor', echo, now')
         \/ Refuses(sensor, sensor', echo, now')
  BY PassTakenApart DEF MCPass
<1>2. /\ nears \in 0 .. 3
      /\ nears' = IF sensor.connected /\ SampleDue(sensor, now')
                  THEN IF Near(echo) THEN Capped(nears + 1, 3) ELSE 0
                  ELSE nears
  BY DEF MCPass, NearInv
<1>3. Near(echo) => echo < EmergencyStopMm /\ echo \in MinValidMm .. MaxValidMm
  BY RangeAssumption DEF Near
<1>4. CASE Missing(sensor, sensor') \/ Waits(sensor, sensor', now')
  <2>1. /\ nears' = nears /\ sensor'.distanceMm = sensor.distanceMm
        /\ sensor'.buffer = sensor.buffer /\ sensor'.index = sensor.index
        /\ sensor'.full = sensor.full /\ (sensor'.valid => sensor.valid)
    BY <1>2, <1>4 DEF Missing, Waits, Samples
  <2>2. QED
    BY <2>1 DEF NearInv, LastNear, LastTwoNear
<1>5. CASE Accepts(sensor, sensor', echo, now')
  <2>1. nears' = IF Near(echo) THEN Capped(nears + 1, 3) ELSE 0
    BY <1>2, <1>5 DEF Accepts
  <2>2. nears' \in 0 .. 3
    BY <1>2, <2>1 DEF Capped
  <2>3. /\ sensor'.buffer[(sensor'.index + 2) % 3] = echo
        /\ sensor'.buffer[(sensor'.index + 1) % 3]
             = sensor.buffer[(sensor.index + 2) % 3]
    BY <1>1, <1>5, RingTurns DEF Accepts
  <2>4. nears' >= 1 => LastNear(sensor')
    BY <1>3, <2>1, <2>3 DEF LastNear
  <2>5. nears' >= 3 => nears >= 2
    BY <1>2, <2>1 DEF Capped
  <2>6. nears' >= 3 => LastTwoNear(sensor')
    BY <2>2, <2>3, <2>4, <2>5 DEF NearInv, LastNear, LastTwoNear
  <2>7. sensor'.distanceMm =
          IF sensor'.full
          THEN Median(sensor'.buffer[0], sensor'.buffer[1], sensor'.buffer[2])
          ELSE sensor'.buffer[(sensor'.index + 2) % 3]
    BY <1>5, <2>3 DEF Accepts
  <2>8. QED
    BY <2>2, <2>4, <2>6, <2>7 DEF NearInv
<1>6. CASE Refuses(sensor, sensor', echo, now')
  <2>1. nears' = IF Near(echo) THEN Capped(nears + 1, 3) ELSE 0
    BY <1>2, <1>6 DEF Refuses
  <2>2. nears' \in 0 .. 3
    BY <1>2, <2>1 DEF Capped
  <2>3. /\ ~sensor'.valid /\ (LastNear(sensor') <=> LastNear(sensor))
        /\ Near(echo) => sensor.valid
    BY <1>3, <1>6 DEF Refuses, Samples, LastNear
  <2>4. nears' >= 2 => Near(echo) /\ nears >= 1
    BY <1>2, <2>1 DEF Capped
  <2>5. nears' >= 2 => LastNear(sensor')
    BY <2>3, <2>4 DEF NearInv
  <2>6. QED
    BY <2>2, <2>3, <2>5 DEF NearInv
<1>7. QED
  BY <1>1, <1>4, <1>5, <1>6

\* Whatever was measured before, the third near echo in a row blocks forward
\* drive at the latest: the spike test refuses at most one of them, and then two
\* of the three samples are near.  The limit of what blocks lies within what the
\* sensor takes for valid (getMedian, ObstacleSafety::update).
THEOREM NearEchoesBlock ==
  ASSUME EmergencyStopMm <= MaxValidMm + 1
  PROVE  MCSpec => []NearBlocks
<1>1. MCInit => NearInv /\ Judged
  BY SensorInit DEF MCInit, Init, NearInv, Judged
<1>2. TypeOK /\ NearInv /\ [MCNext]_mcVars => NearInv'
  <2> SUFFICES ASSUME TypeOK, NearInv, [MCNext]_mcVars PROVE NearInv'
    OBVIOUS
  <2>1. CASE UNCHANGED mcVars
    BY <2>1 DEF mcVars, NearInv, LastNear, LastTwoNear
  <2>2. CASE MCNext
    BY <2>2, NearStep DEF MCNext
  <2>3. QED
    BY <2>1, <2>2
<1>3. TypeOK /\ Judged /\ [MCNext]_mcVars => Judged'
  <2>1. [MCNext]_mcVars => [Next]_vars
    BY DEF MCNext, MCPass, mcVars, Next, vars
  <2>2. QED
    BY <2>1, JudgedStep
<1>4. TypeOK /\ NearInv /\ Judged => NearBlocks
  <2> SUFFICES ASSUME TypeOK, NearInv, Judged, nears >= 3, sensor.valid
               PROVE  obstacle.state = "BLOCKED"
    BY DEF NearBlocks, BlocksForwardMotion, Judged
  <2>1. /\ sensor.buffer \in [0 .. 2 -> Nat] /\ sensor.index \in 0 .. 2
        /\ EmergencyStopMm \in Nat
    BY DistancesAreNatural, RangeAssumption DEF TypeOK
  <2>2. LastTwoNear(sensor)
    BY DEF NearInv
  <2>3. Median(sensor.buffer[0], sensor.buffer[1], sensor.buffer[2])
          < EmergencyStopMm
    BY <2>1, <2>2, TwoNearOutvote DEF LastTwoNear, LastNear
  <2>4. sensor.distanceMm < EmergencyStopMm
    BY <2>2, <2>3 DEF NearInv, LastTwoNear, LastNear
  <2>5. QED
    BY <2>4 DEF Judged
<1>5. QED
  BY <1>1, <1>2, <1>3, <1>4, MCTypeInit, MCTypeStep, PTL DEF MCSpec

-----------------------------------------------------------------------------
(* An open way is seen in the end.                                           *)

\* What Config.h and the watchdog of the loop grant: a reading does not grow old
\* between two attempts, neither time nears a turn of the clock, and the steady
\* echoes that are counted take longer than the hysteresis.
Paced ==
  /\ SteadySamples \in Nat /\ SteadySamples >= 5
  /\ (SteadySamples - 5) * SampleIntervalMs >= HysteresisMs
  /\ SampleIntervalMs <= StaleAfterMs + 1
  /\ SampleIntervalMs + MaxPassMs <= ClockModulus
  /\ HysteresisMs + MaxPassMs <= ClockModulus
  /\ EmergencyStopMm <= ClearMm /\ MinValidMm <= ClearMm

LastIs(s, echo) == s.buffer[(s.index + 2) % 3] = echo
LastTwoAre(s, echo) == LastIs(s, echo) /\ s.buffer[(s.index + 1) % 3] = echo

\* What the sensor has made of equal open echoes in a row.  Of the first four,
\* the spike test may refuse two.
SteadyInv ==
  /\ steady.echo \in Distance /\ steady.n \in 0 .. SteadySamples
  /\ sensor.valid =>
       sensor.distanceMm =
         IF sensor.full
         THEN Median(sensor.buffer[0], sensor.buffer[1], sensor.buffer[2])
         ELSE sensor.buffer[(sensor.index + 2) % 3]
  /\ steady.n >= 1 => sensor.connected
  /\ Open(steady.echo) =>
       /\ steady.n >= 1 => ~sensor.valid \/ LastIs(sensor, steady.echo)
       /\ steady.n >= 2 => LastIs(sensor, steady.echo)
       /\ steady.n >= 3 => ~sensor.valid \/ LastTwoAre(sensor, steady.echo)
       /\ steady.n >= 4 => sensor.valid /\ LastTwoAre(sensor, steady.echo)

\* From the fourth on the reading is open, and from the fifth on the wait for
\* CLEAR is as old as the attempts since then; it would have to be restarted
\* once if it had begun when the clock read 0.
WaitInv ==
  /\ obstacle.clearSinceMs # 0 /\ obstacle.state # "CLEAR" =>
       Elapsed(now, obstacle.clearSinceMs) < HysteresisMs
  /\ Open(steady.echo) /\ obstacle.state # "CLEAR" =>
       /\ steady.n = 4 => \/ obstacle.clearSinceMs # 0
                          \/ now = 0 /\ sensor.lastAttemptMs = 0
       /\ steady.n >= 5 =>
            /\ obstacle.clearSinceMs # 0
            /\ Elapsed(now, obstacle.clearSinceMs)
                 >= (steady.n - 5) * SampleIntervalMs
                      + Elapsed(now, sensor.lastAttemptMs)

\* Two equal samples outvote the third.
LEMMA TwoEqualOutvote ==
  ASSUME NEW f \in [0 .. 2 -> Nat], NEW i \in 0 .. 2, NEW d \in Nat,
         f[(i + 2) % 3] = d, f[(i + 1) % 3] = d
  PROVE  Median(f[0], f[1], f[2]) = d
<1>1. f[0] \in Nat /\ f[1] \in Nat /\ f[2] \in Nat
  OBVIOUS
<1>2. \/ f[0] = d /\ f[1] = d
      \/ f[1] = d /\ f[2] = d
      \/ f[0] = d /\ f[2] = d
  <2>1. CASE i = 0
    BY <2>1
  <2>2. CASE i = 1
    BY <2>2
  <2>3. CASE i = 2
    BY <2>3
  <2>4. QED
    BY <2>1, <2>2, <2>3
<1>3. QED
  BY <1>1, <1>2 DEF Median, Between

\* Hence the sensor says what the last two samples say.
LEMMA LastTwoAreSaid ==
  ASSUME TypeOK, SteadyInv, sensor.valid, LastTwoAre(sensor, steady.echo)
  PROVE  sensor.distanceMm = steady.echo
<1>1. /\ sensor.buffer \in [0 .. 2 -> Nat] /\ sensor.index \in 0 .. 2
      /\ steady.echo \in Nat
  BY DistancesAreNatural DEF TypeOK, SteadyInv
<1>2. Median(sensor.buffer[0], sensor.buffer[1], sensor.buffer[2]) = steady.echo
  BY <1>1, TwoEqualOutvote DEF LastTwoAre, LastIs
<1>3. QED
  BY <1>2 DEF SteadyInv, LastTwoAre, LastIs

LEMMA SteadyStep ==
  ASSUME Paced, TypeOK, ReadingInv, SteadyInv, NEW ms \in 0 .. MaxPassMs,
         NEW echo \in Echoes, MCPass(ms, echo)
  PROVE  SteadyInv'
<1>1. /\ sensor \in Sensor /\ sensor' \in Sensor /\ now' \in Clock
      /\ \/ Missing(sensor, sensor') \/ Waits(sensor, sensor', now')
         \/ Accepts(sensor, sensor', echo, now')
         \/ Refuses(sensor, sensor', echo, now')
  BY PassTakenApart DEF MCPass
<1>2. steady' = IF sensor.connected /\ SampleDue(sensor, now')
                THEN [echo |-> echo,
                      n |-> IF echo = steady.echo
                            THEN Capped(steady.n + 1, SteadySamples) ELSE 1]
                ELSE steady
  BY DEF MCPass
<1>3. steady.n \in 0 .. SteadySamples /\ SteadySamples \in Nat /\ SteadySamples >= 5
  BY DEF SteadyInv, Paced
<1>4. Open(echo) => echo \in MinValidMm .. MaxValidMm
  BY RangeAssumption DEF Open, Paced
<1>5. CASE Missing(sensor, sensor')
  <2>1. /\ steady' = steady /\ sensor'.connected = sensor.connected
        /\ sensor'.distanceMm = sensor.distanceMm
        /\ sensor'.buffer = sensor.buffer /\ sensor'.index = sensor.index
        /\ sensor'.full = sensor.full /\ sensor'.valid = sensor.valid
    BY <1>1, <1>2, <1>5 DEF Missing, Samples, Sensor
  <2>2. QED
    BY <2>1 DEF SteadyInv, LastIs, LastTwoAre
<1>6. CASE Waits(sensor, sensor', now')
  <2>1. /\ steady' = steady /\ sensor'.connected = sensor.connected
        /\ sensor'.distanceMm = sensor.distanceMm
        /\ sensor'.buffer = sensor.buffer /\ sensor'.index = sensor.index
        /\ sensor'.full = sensor.full /\ (sensor'.valid => sensor.valid)
    BY <1>2, <1>6 DEF Waits, Samples
  <2>2. sensor.valid => sensor'.valid
    <3>1. SUFFICES ASSUME sensor.valid
                   PROVE  Elapsed(now', sensor.sampleTimeMs) <= StaleAfterMs
      BY <1>6 DEF Waits
    <3>2. /\ sensor.sampleTimeMs = sensor.lastAttemptMs
          /\ sensor.sampleTimeMs \in Clock
          /\ ~(Elapsed(now', sensor.lastAttemptMs) >= SampleIntervalMs)
      BY <1>1, <1>6, <3>1 DEF ReadingInv, ReadingCurrent, Waits, SampleDue, Sensor
    <3>3. Elapsed(now', sensor.sampleTimeMs) \in Nat
      BY <1>1, <3>2, ElapsedType
    <3>4. QED
      BY <3>2, <3>3, RangeAssumption DEF Paced
  <2>3. QED
    BY <2>1, <2>2 DEF SteadyInv, LastIs, LastTwoAre
<1>7. CASE Accepts(sensor, sensor', echo, now') \/ Refuses(sensor, sensor', echo, now')
  <2>1. /\ steady'.echo = echo
        /\ steady'.n = IF echo = steady.echo
                       THEN Capped(steady.n + 1, SteadySamples) ELSE 1
        /\ sensor'.connected
    BY <1>2, <1>7 DEF Accepts, Refuses
  <2>2. steady'.echo \in Distance /\ steady'.n \in 0 .. SteadySamples
    BY <1>3, <2>1 DEF Capped, Distance
  <2>3. /\ steady'.n >= 2 => echo = steady.echo /\ steady.n >= 1
        /\ steady'.n >= 3 => steady.n >= 2
        /\ steady'.n >= 4 => steady.n >= 3
    BY <1>3, <2>1 DEF Capped
  <2>4. CASE Accepts(sensor, sensor', echo, now')
    <3>1. /\ sensor'.buffer[(sensor'.index + 2) % 3] = echo
          /\ sensor'.buffer[(sensor'.index + 1) % 3]
               = sensor.buffer[(sensor.index + 2) % 3]
      BY <1>1, <2>4, RingTurns DEF Accepts
    <3>2. sensor'.distanceMm =
            IF sensor'.full
            THEN Median(sensor'.buffer[0], sensor'.buffer[1], sensor'.buffer[2])
            ELSE sensor'.buffer[(sensor'.index + 2) % 3]
      BY <2>4, <3>1 DEF Accepts
    <3>3. LastIs(sensor', steady'.echo)
      BY <2>1, <3>1 DEF LastIs
    <3>4. Open(echo) /\ steady'.n >= 3 => LastTwoAre(sensor', steady'.echo)
      <4>1. SUFFICES ASSUME Open(echo), steady'.n >= 3
                     PROVE  LastTwoAre(sensor', steady'.echo)
        OBVIOUS
      <4>2. steady'.n >= 2
        BY <2>2, <4>1
      <4>3. LastIs(sensor, steady.echo) /\ echo = steady.echo
        BY <2>3, <4>1, <4>2 DEF SteadyInv
      <4>4. QED
        BY <2>1, <3>1, <3>3, <4>3 DEF LastTwoAre, LastIs
    <3>5. sensor'.valid
      BY <2>4 DEF Accepts
    <3>6. steady'.n >= 4 => steady'.n >= 3
      BY <2>2
    <3>7. QED
      BY <2>1, <2>2, <3>2, <3>3, <3>4, <3>5, <3>6 DEF SteadyInv
  <2>5. CASE Refuses(sensor, sensor', echo, now')
    <3>1. /\ ~sensor'.valid
          /\ sensor'.buffer = sensor.buffer /\ sensor'.index = sensor.index
      BY <2>5 DEF Refuses, Samples
    <3>2. Open(echo) => sensor.valid /\ ~(Step(echo, sensor.distanceMm) <= MaxStepMm)
      BY <1>4, <2>5 DEF Refuses
    <3>3. Open(echo) /\ steady'.n >= 2 => LastIs(sensor', steady'.echo)
      BY <2>1, <2>3, <3>1, <3>2 DEF SteadyInv, LastIs
    <3>4. ~(Open(echo) /\ steady'.n >= 4)
      <4>1. SUFFICES ASSUME Open(echo), steady'.n >= 4 PROVE FALSE
        OBVIOUS
      <4>2. steady'.n >= 2
        BY <2>2, <4>1
      <4>3. LastTwoAre(sensor, steady.echo) /\ echo = steady.echo /\ sensor.valid
        BY <2>3, <3>2, <4>1, <4>2 DEF SteadyInv
      <4>4. sensor.distanceMm = echo /\ echo \in Nat
        BY <4>3, LastTwoAreSaid, RangeAssumption
      <4>5. Step(echo, sensor.distanceMm) = 0
        BY <4>4 DEF Step
      <4>6. QED
        BY <3>2, <4>1, <4>5, RangeAssumption
    <3>5. QED
      BY <2>1, <2>2, <3>1, <3>3, <3>4 DEF SteadyInv
  <2>6. QED
    BY <1>7, <2>4, <2>5
<1>8. QED
  BY <1>1, <1>5, <1>6, <1>7

\* From the fourth steady open echo on, a filter that is not yet CLEAR waits.
LEMMA OpenMakesWait ==
  ASSUME Paced, TypeOK, SteadyInv', NEW ms \in 0 .. MaxPassMs,
         NEW echo \in Echoes, MCPass(ms, echo),
         Open(steady'.echo), steady'.n >= 4, obstacle'.state # "CLEAR"
  PROVE  /\ obstacle.state # "CLEAR" /\ sensor'.valid
         /\ obstacle'.clearSinceMs = IF obstacle.clearSinceMs = 0 THEN now'
                                     ELSE obstacle.clearSinceMs
         /\ ~(Elapsed(now', obstacle'.clearSinceMs) >= HysteresisMs)
<1>1. /\ sensor' \in Sensor /\ now' \in Clock
      /\ obstacle' = ObstacleUpdate(obstacle, sensor'.valid,
                                    sensor'.distanceMm, now')
  BY PassTakenApart DEF MCPass
<1>2. /\ obstacle \in [state: ObstacleSafetyState, clearSinceMs: Clock]
      /\ sensor'.valid \in BOOLEAN /\ sensor'.distanceMm \in Nat
  BY <1>1, DistancesAreNatural DEF TypeOK, Sensor
<1>3. TypeOK'
  <2>1. [Next]_vars
    BY DEF MCPass, Next
  <2>2. QED
    BY <2>1, TypeStep
<1>4. sensor'.valid /\ sensor'.distanceMm = steady'.echo
  <2>1. sensor'.valid /\ LastTwoAre(sensor', steady'.echo)
    BY DEF SteadyInv
  <2>2. /\ sensor'.buffer \in [0 .. 2 -> Nat] /\ sensor'.index \in 0 .. 2
        /\ steady'.echo \in Nat
    BY <1>3, DistancesAreNatural DEF TypeOK, SteadyInv
  <2>3. Median(sensor'.buffer[0], sensor'.buffer[1], sensor'.buffer[2])
          = steady'.echo
    BY <2>1, <2>2, TwoEqualOutvote DEF LastTwoAre, LastIs
  <2>4. QED
    BY <2>1, <2>3 DEF SteadyInv, LastTwoAre, LastIs
<1>5. sensor'.distanceMm >= ClearMm /\ ~(sensor'.distanceMm < EmergencyStopMm)
  BY <1>2, <1>4, RangeAssumption DEF Open, Paced
<1>6. Answers(obstacle, obstacle', sensor'.valid, sensor'.distanceMm, now')
  BY <1>1, <1>2, ObstacleUpdates
<1>7. QED
  BY <1>4, <1>5, <1>6 DEF Answers

\* Below the hysteresis time, a pass adds its whole length.
LEMMA AgesExactly ==
  ASSUME NEW t \in Clock, NEW u \in Clock, NEW ms \in 0 .. MaxPassMs,
         Elapsed(t, u) + MaxPassMs < ClockModulus
  PROVE  Elapsed((t + ms) % ClockModulus, u) = Elapsed(t, u) + ms
<1> DEFINE v == (t + ms) % ClockModulus
<1>1. v \in Clock /\ ms \in Nat
  BY ClockSum, RangeAssumption
<1>2. v = IF t + ms < ClockModulus THEN t + ms ELSE t + ms - ClockModulus
  BY SumWraps
<1> HIDE DEF v
<1>3. Elapsed(v, u) = IF u <= v THEN v - u ELSE v - u + ClockModulus
  BY <1>1, ElapsedWraps
<1>4. Elapsed(t, u) = IF u <= t THEN t - u ELSE t - u + ClockModulus
  BY ElapsedWraps
<1>5. Elapsed(v, u) = Elapsed(t, u) + ms
  BY <1>1, <1>2, <1>3, <1>4, RangeAssumption DEF Clock
<1>6. QED
  BY <1>5 DEF v

LEMMA WaitStep ==
  ASSUME Paced, TypeOK, SteadyInv, SteadyInv', WaitInv,
         NEW ms \in 0 .. MaxPassMs, NEW echo \in Echoes, MCPass(ms, echo)
  PROVE  WaitInv'
<1> DEFINE since == IF obstacle.clearSinceMs = 0 THEN now' ELSE obstacle.clearSinceMs
<1>1. /\ sensor \in Sensor /\ sensor' \in Sensor /\ now \in Clock /\ now' \in Clock
      /\ now' = (now + ms) % ClockModulus
      /\ obstacle' = ObstacleUpdate(obstacle, sensor'.valid,
                                    sensor'.distanceMm, now')
      /\ \/ Missing(sensor, sensor') \/ Waits(sensor, sensor', now')
         \/ Accepts(sensor, sensor', echo, now')
         \/ Refuses(sensor, sensor', echo, now')
  BY PassTakenApart DEF MCPass
<1>2. /\ obstacle \in [state: ObstacleSafetyState, clearSinceMs: Clock]
      /\ sensor'.valid \in BOOLEAN /\ sensor'.distanceMm \in Nat
      /\ sensor.lastAttemptMs \in Clock /\ sensor'.lastAttemptMs \in Clock
  BY <1>1, DistancesAreNatural DEF TypeOK, Sensor
<1>3. /\ SampleIntervalMs \in Nat \ {0} /\ HysteresisMs \in Nat
      /\ SteadySamples \in Nat /\ ms \in Nat /\ MaxPassMs \in Nat
      /\ ClockModulus \in Nat \ {0} /\ ms <= MaxPassMs /\ SteadySamples >= 5
      /\ steady.n \in 0 .. SteadySamples /\ steady'.n \in 0 .. SteadySamples
  BY RangeAssumption DEF Paced, SteadyInv
<1>4. obstacle'.clearSinceMs # 0 /\ obstacle'.state # "CLEAR" =>
        Elapsed(now', obstacle'.clearSinceMs) < HysteresisMs
  <2>1. SUFFICES ASSUME obstacle'.clearSinceMs # 0, obstacle'.state # "CLEAR"
                 PROVE  Elapsed(now', obstacle'.clearSinceMs) < HysteresisMs
    OBVIOUS
  <2>2. /\ obstacle'.clearSinceMs = since
        /\ ~(Elapsed(now', since) >= HysteresisMs)
    <3>1. Answers(obstacle, obstacle', sensor'.valid, sensor'.distanceMm, now')
      BY <1>1, <1>2, ObstacleUpdates
    <3>2. QED
      BY <1>2, <2>1, <3>1, RangeAssumption DEF Answers
  <2>3. since \in Clock
    BY <1>1, <1>2
  <2> HIDE DEF since
  <2>4. Elapsed(now', since) \in Nat
    BY <1>1, <2>3, ElapsedType
  <2>5. QED
    BY <1>3, <2>2, <2>4
<1>5. ASSUME Open(steady'.echo), obstacle'.state # "CLEAR", steady'.n >= 4
      PROVE  /\ obstacle.state # "CLEAR" /\ obstacle'.clearSinceMs = since
             /\ sensor'.valid /\ sensor.connected
             /\ ~Missing(sensor, sensor') /\ ~Refuses(sensor, sensor', echo, now')
  <2>1. /\ obstacle.state # "CLEAR" /\ obstacle'.clearSinceMs = since
        /\ sensor'.valid
    BY <1>5, OpenMakesWait
  <2>2. sensor'.connected
    BY <1>3, <1>5 DEF SteadyInv
  <2>3. QED
    BY <1>1, <2>1, <2>2 DEF Missing, Waits, Accepts, Refuses
<1>6. CASE Waits(sensor, sensor', now')
  <2>1. steady' = steady /\ sensor'.lastAttemptMs = sensor.lastAttemptMs
    BY <1>6 DEF MCPass, Waits
  <2>2. ASSUME Open(steady'.echo), obstacle'.state # "CLEAR", steady'.n = 4
        PROVE  \/ obstacle'.clearSinceMs # 0
               \/ now' = 0 /\ sensor'.lastAttemptMs = 0
    <3>1. obstacle.state # "CLEAR" /\ obstacle'.clearSinceMs = since
      BY <1>5, <2>2
    <3>2. \/ obstacle.clearSinceMs # 0
          \/ now = 0 /\ sensor.lastAttemptMs = 0
      BY <2>1, <2>2, <3>1 DEF WaitInv
    <3>3. QED
      BY <2>1, <3>1, <3>2
  <2>3. ASSUME Open(steady'.echo), obstacle'.state # "CLEAR", steady'.n >= 5
        PROVE  /\ obstacle'.clearSinceMs # 0
               /\ Elapsed(now', obstacle'.clearSinceMs)
                    >= (steady'.n - 5) * SampleIntervalMs
                         + Elapsed(now', sensor'.lastAttemptMs)
    <3>1. obstacle.state # "CLEAR" /\ obstacle'.clearSinceMs = since
      BY <1>3, <1>5, <2>3
    <3>2. /\ obstacle.clearSinceMs # 0
          /\ Elapsed(now, obstacle.clearSinceMs)
               >= (steady.n - 5) * SampleIntervalMs
                    + Elapsed(now, sensor.lastAttemptMs)
          /\ Elapsed(now, obstacle.clearSinceMs) < HysteresisMs
      BY <2>1, <2>3, <3>1 DEF WaitInv
    <3>3. obstacle'.clearSinceMs = obstacle.clearSinceMs
      BY <3>1, <3>2
    <3>4. /\ Elapsed(now, obstacle.clearSinceMs) \in Nat
          /\ Elapsed(now, sensor.lastAttemptMs) \in Nat
          /\ Elapsed(now', sensor.lastAttemptMs) \in Nat
      BY <1>1, <1>2, ElapsedType
    <3>5. Elapsed(now, obstacle.clearSinceMs) + MaxPassMs < ClockModulus
      BY <1>3, <3>2, <3>4 DEF Paced
    <3>6. Elapsed(now', obstacle.clearSinceMs)
            = Elapsed(now, obstacle.clearSinceMs) + ms
      BY <1>1, <1>2, <3>5, AgesExactly
    <3>7. Elapsed(now', sensor.lastAttemptMs)
            <= Elapsed(now, sensor.lastAttemptMs) + ms
      BY <1>1, <1>2, AgesByThePass
    <3> DEFINE floor == (steady.n - 5) * SampleIntervalMs
    <3>8. floor \in Int
      BY <1>3
    <3>9. Elapsed(now, obstacle.clearSinceMs)
            >= floor + Elapsed(now, sensor.lastAttemptMs)
      BY <3>2
    <3>10. steady'.n = steady.n
      BY <2>1
    <3> HIDE DEF floor
    <3>11. Elapsed(now', obstacle.clearSinceMs)
             >= floor + Elapsed(now', sensor.lastAttemptMs)
      BY <1>3, <3>4, <3>6, <3>7, <3>8, <3>9
    <3>12. QED
      BY <2>1, <3>2, <3>3, <3>10, <3>11 DEF floor
  <2>4. QED
    BY <1>4, <2>2, <2>3 DEF WaitInv
<1>7. CASE Accepts(sensor, sensor', echo, now')
  <2>1. /\ steady'.echo = echo /\ sensor'.lastAttemptMs = now'
        /\ steady'.n = IF echo = steady.echo
                       THEN Capped(steady.n + 1, SteadySamples) ELSE 1
        /\ Elapsed(now', sensor.lastAttemptMs) >= SampleIntervalMs
    BY <1>7 DEF MCPass, Accepts, SampleDue
  <2>2. ASSUME Open(steady'.echo), obstacle'.state # "CLEAR", steady'.n = 4
        PROVE  \/ obstacle'.clearSinceMs # 0
               \/ now' = 0 /\ sensor'.lastAttemptMs = 0
    <3>1. obstacle'.clearSinceMs = since
      BY <1>5, <2>2
    <3>2. QED
      BY <2>1, <3>1
  <2>3. ASSUME Open(steady'.echo), obstacle'.state # "CLEAR", steady'.n >= 5
        PROVE  /\ obstacle'.clearSinceMs # 0
               /\ Elapsed(now', obstacle'.clearSinceMs)
                    >= (steady'.n - 5) * SampleIntervalMs
                         + Elapsed(now', sensor'.lastAttemptMs)
    <3>1. obstacle.state # "CLEAR" /\ obstacle'.clearSinceMs = since
      BY <1>3, <1>5, <2>3
    <3>2. /\ echo = steady.echo /\ steady.n >= 4
          /\ steady'.n = steady.n \/ steady'.n = steady.n + 1
      BY <1>3, <2>1, <2>3 DEF Capped
    <3>3. Elapsed(now', now') = 0
      BY <1>1, ElapsedWraps DEF Clock
    <3>4. /\ Elapsed(now, sensor.lastAttemptMs) \in Nat
          /\ Elapsed(now', sensor.lastAttemptMs) \in Nat
      BY <1>1, <1>2, ElapsedType
    <3>5. CASE steady.n = 4
      <4>1. \/ obstacle.clearSinceMs # 0
            \/ now = 0 /\ sensor.lastAttemptMs = 0
        BY <2>1, <2>3, <3>1, <3>2, <3>5 DEF WaitInv
      <4>2. obstacle'.clearSinceMs # 0
        <5>1. CASE obstacle.clearSinceMs # 0
          BY <3>1, <5>1
        <5>2. CASE obstacle.clearSinceMs = 0
          <6>1. sensor.lastAttemptMs = 0 /\ obstacle'.clearSinceMs = now'
            BY <3>1, <4>1, <5>2
          <6>2. now' # 0
            BY <1>1, <1>3, <2>1, <3>3, <6>1
          <6>3. QED
            BY <6>1, <6>2
        <5>3. QED
          BY <5>1, <5>2
      <4>3. steady'.n = 5
        BY <1>3, <2>3, <3>2, <3>5
      <4>4. obstacle'.clearSinceMs \in Clock
        BY <1>1, <1>2, <3>1
      <4>5. Elapsed(now', obstacle'.clearSinceMs) \in Nat
        BY <1>1, <4>4, ElapsedType
      <4>6. (steady'.n - 5) * SampleIntervalMs = 0
        BY <1>3, <4>3
      <4>7. QED
        BY <2>1, <3>3, <4>2, <4>5, <4>6
    <3>6. CASE steady.n >= 5
      <4>1. /\ obstacle.clearSinceMs # 0
            /\ Elapsed(now, obstacle.clearSinceMs)
                 >= (steady.n - 5) * SampleIntervalMs
                      + Elapsed(now, sensor.lastAttemptMs)
            /\ Elapsed(now, obstacle.clearSinceMs) < HysteresisMs
        BY <2>1, <2>3, <3>1, <3>2, <3>6 DEF WaitInv
      <4>2. obstacle'.clearSinceMs = obstacle.clearSinceMs
        BY <3>1, <4>1
      <4>3. Elapsed(now, obstacle.clearSinceMs) \in Nat
        BY <1>1, <1>2, ElapsedType
      <4>4. Elapsed(now, obstacle.clearSinceMs) + MaxPassMs < ClockModulus
        BY <1>3, <4>1, <4>3 DEF Paced
      <4>5. Elapsed(now', obstacle.clearSinceMs)
              = Elapsed(now, obstacle.clearSinceMs) + ms
        BY <1>1, <1>2, <4>4, AgesExactly
      <4>6. Elapsed(now', sensor.lastAttemptMs)
              <= Elapsed(now, sensor.lastAttemptMs) + ms
        BY <1>1, <1>2, AgesByThePass
      <4> DEFINE floor == (steady.n - 5) * SampleIntervalMs
      <4>7. floor \in Int
        BY <1>3
      <4>8. Elapsed(now, obstacle.clearSinceMs)
              >= floor + Elapsed(now, sensor.lastAttemptMs)
        BY <4>1
      <4>9. (steady'.n - 5) * SampleIntervalMs <= floor + SampleIntervalMs
        <5>1. CASE steady'.n = steady.n
          BY <1>3, <5>1
        <5>2. CASE steady'.n = steady.n + 1
          <6>1. steady'.n - 5 = (steady.n - 5) + 1 /\ steady.n - 5 \in Int
            BY <1>3, <5>2
          <6>2. \A k \in Int : (k + 1) * SampleIntervalMs
                                 = k * SampleIntervalMs + SampleIntervalMs
            BY <1>3
          <6>3. QED
            BY <1>3, <6>1, <6>2
        <5>3. QED
          BY <3>2, <5>1, <5>2
      <4> DEFINE ceiling == (steady'.n - 5) * SampleIntervalMs
      <4>10. ceiling \in Int /\ ceiling <= floor + SampleIntervalMs
        BY <1>3, <4>9
      <4> HIDE DEF floor, ceiling
      <4>11. Elapsed(now', obstacle.clearSinceMs) >= ceiling + 0
        BY <1>3, <2>1, <3>4, <4>3, <4>5, <4>6, <4>7, <4>8, <4>10
      <4>12. QED
        BY <2>1, <3>3, <4>1, <4>2, <4>11 DEF ceiling
    <3>7. QED
      BY <1>3, <3>2, <3>5, <3>6
  <2>4. QED
    BY <1>4, <2>2, <2>3 DEF WaitInv
<1>8. CASE Missing(sensor, sensor') \/ Refuses(sensor, sensor', echo, now')
  <2>1. Open(steady'.echo) /\ obstacle'.state # "CLEAR" => ~(steady'.n >= 4)
    BY <1>5, <1>8
  <2>2. QED
    BY <1>3, <1>4, <2>1 DEF WaitInv
<1>9. QED
  BY <1>1, <1>6, <1>7, <1>8

\* An open way is seen in the end: after enough equal open echoes the filter is
\* CLEAR, whatever was measured before and wherever the clock wraps; the spike
\* test and the median do not keep each other from accepting a distance that
\* has changed for good (SonicRangeSensor::update, ObstacleSafety::update).
THEOREM SteadyEchoesClear ==
  ASSUME Paced
  PROVE  MCSpec => []SteadyWayClears
<1>1. MCInit => SteadyInv /\ WaitInv
  <2> SUFFICES ASSUME MCInit PROVE SteadyInv /\ WaitInv
    OBVIOUS
  <2>1. /\ ~sensor.valid /\ steady = [echo |-> 0, n |-> 0]
        /\ obstacle.clearSinceMs = 0
    BY SensorInit DEF MCInit, Init
  <2>2. QED
    BY <2>1 DEF SteadyInv, WaitInv, Distance, Paced
<1>2. TypeOK /\ ReadingInv /\ SteadyInv /\ WaitInv /\ [MCNext]_mcVars
        => (ReadingInv /\ SteadyInv /\ WaitInv)'
  <2> SUFFICES ASSUME TypeOK, ReadingInv, SteadyInv, WaitInv, [MCNext]_mcVars
               PROVE  (ReadingInv /\ SteadyInv /\ WaitInv)'
    OBVIOUS
  <2>1. CASE UNCHANGED mcVars
    BY <2>1 DEF mcVars, ReadingInv, ReadingCurrent, SampleDue, SteadyInv, WaitInv,
                LastIs, LastTwoAre
  <2>2. ASSUME NEW ms \in 0 .. MaxPassMs, NEW echo \in Echoes, MCPass(ms, echo)
        PROVE  (ReadingInv /\ SteadyInv /\ WaitInv)'
    <3>1. [Next]_vars
      BY <2>2 DEF MCPass, Next
    <3>2. ReadingInv'
      BY <3>1, ReadingStep
    <3>3. SteadyInv'
      BY <2>2, SteadyStep
    <3>4. WaitInv'
      BY <2>2, <3>3, WaitStep
    <3>5. QED
      BY <3>2, <3>3, <3>4
  <2>3. QED
    BY <2>1, <2>2 DEF MCNext
<1>3. MCInit => ReadingInv
  BY SensorInit DEF MCInit, ReadingInv, ReadingCurrent
<1>4. TypeOK /\ SteadyInv /\ WaitInv => SteadyWayClears
  <2> SUFFICES ASSUME TypeOK, SteadyInv, WaitInv, steady.n >= SteadySamples,
                      Open(steady.echo), obstacle.state # "CLEAR"
               PROVE  FALSE
    BY DEF SteadyWayClears
  <2>1. /\ steady.n = SteadySamples /\ steady.n >= 5
        /\ SteadySamples \in Nat /\ SampleIntervalMs \in Nat /\ HysteresisMs \in Nat
    BY RangeAssumption DEF SteadyInv, Paced
  <2>2. /\ now \in Clock /\ sensor.lastAttemptMs \in Clock
        /\ obstacle.clearSinceMs \in Clock
    BY DEF TypeOK
  <2>3. /\ Elapsed(now, obstacle.clearSinceMs) \in Nat
        /\ Elapsed(now, sensor.lastAttemptMs) \in Nat
    BY <2>2, ElapsedType
  <2>4. /\ Elapsed(now, obstacle.clearSinceMs) < HysteresisMs
        /\ Elapsed(now, obstacle.clearSinceMs)
             >= (SteadySamples - 5) * SampleIntervalMs
                  + Elapsed(now, sensor.lastAttemptMs)
    BY <2>1 DEF WaitInv
  <2> DEFINE floor == (SteadySamples - 5) * SampleIntervalMs
  <2>5. floor \in Int /\ floor >= HysteresisMs
    BY <2>1 DEF Paced
  <2>6. Elapsed(now, obstacle.clearSinceMs)
          >= floor + Elapsed(now, sensor.lastAttemptMs)
    BY <2>4
  <2> HIDE DEF floor
  <2>7. QED
    BY <2>1, <2>3, <2>4, <2>5, <2>6
<1>5. QED
  BY <1>1, <1>2, <1>3, <1>4, MCTypeInit, MCTypeStep, PTL DEF MCSpec

=============================================================================

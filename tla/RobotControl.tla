---------------------------- MODULE RobotControl ----------------------------
(***************************************************************************)
(* The robot as its loop task runs it: ControlRouter over the safety       *)
(* supervisor, the drive, the choreography of RobotActions, the obstacle   *)
(* filter, the bench diagnostics and the autonomy manager.  Every handler  *)
(* is an operator from robot to robot, so that a handler that calls others *)
(* is the composition of theirs; one action of Next is one call in loop(), *)
(* and the variable at says which call is next.                            *)
(*                                                                         *)
(* Time stands still at Now.  What elapsed time decides (a drive command   *)
(* runs out, a joint arrives, a step of an action ends, the diagnostics    *)
(* time out, the manual override lapses) is chosen by the handler that     *)
(* looks at the clock.                                                     *)
(***************************************************************************)
EXTENDS SafetyPolicy

CONSTANTS
  Startups,       \* drive kind, outcome of hal.begin, state found in flash
  ImuSamples,     \* the verdicts on an IMU sample that may occur
  Joints,         \* the joints that commands move: "limb" and "accessory"
  WifiFaults,     \* the faults WifiControl reports to emergencyStop
  ActionDrives,   \* ALLOW_ACTION_DRIVE_MOVEMENT
  BenchTesting    \* ENABLE_BENCH_TESTING

ASSUME RobotAssumption ==
  /\ Startups \subseteq [kind: {"servo", "roller"}, connected: BOOLEAN,
                          state: {"absent"} \cup LatchedStates]
  /\ ImuSamples \subseteq ImuSample
  /\ Joints \subseteq {"limb", "accessory"}
  /\ WifiFaults \subseteq SafetyFault
  /\ ActionDrives \in BOOLEAN
  /\ BenchTesting \in BOOLEAN

\* The frozen clock leaves an override pending and a sample fresh.
ASSUME FrozenClockAssumption ==
  /\ ManualOverrideMs > 0 /\ 2 * ManualOverrideMs <= ClockModulus
  /\ ClockModulus > 1 /\ ImuMaxSampleAgeMs > 0

VARIABLES
  robot,   \* the state of the objects that the loop task owns
  at       \* the call of loop() that comes next

vars == <<robot, at>>

Now == 0
FreshSampleMs == ClockModulus - 1

-----------------------------------------------------------------------------
(* State. *)

\* REVERSE stands for the turns as well: what is asked of a mode is whether it
\* is FORWARD and whether it is STOPPED.
DriveMode == {"STOPPED", "FORWARD", "REVERSE"}

\* One action of each ActionDrivePolicy: preserve, own and stop the drive.
ActionId == {"NONE", "WAVE", "DANCE", "SLEEP"}

ObstacleSafetyState == {"CLEAR", "CAUTION", "BLOCKED", "SENSOR_UNAVAILABLE"}

AutonomyState == {"IDLE", "MONITORING", "STOPPING", "BACKING_UP", "TURNING",
                  "WAIT_FOR_CLEARANCE", "RESUMING"}

\* kind and answers describe the hardware: answers is FALSE while writes to a
\* roller fail.  spin is what last set the wheels going, as far as the writes
\* that arrived tell.
Drive == [kind: {"servo", "roller"}, answers: BOOLEAN, connected: BOOLEAN,
          armed: BOOLEAN, mode: DriveMode, spin: SUBSET {"drive", "test"}]

Robot ==
  [sup: Supervisor, booted: BOOLEAN, drive: Drive,
   saved: DriveMode,                 \* the remembered command's; STOPPED: none
   action: ActionId,
   limbs: {"still", "moving"},       \* arms and head
   accessory: {"still", "moving"},
   obstacle: [state: ObstacleSafetyState, rangeValid: BOOLEAN],
   imu: ImuSample,
   diagnostics: [unlocked: BOOLEAN, testingWheel: BOOLEAN],
   autonomy: [enabled: BOOLEAN, state: AutonomyState]]

Call == {"buttons", "boot", "robot", "safety", "autonomy", "wifi", "serial"}

TypeOK == robot \in Robot /\ at \in Call

\* setup(): hal.begin may have failed, and flash may hold an incident.
Init ==
  /\ \E s \in Startups :
       robot =
         [sup |-> BeginWith([state |-> s.state, fault |-> "DRIVE_WATCHDOG"]),
          booted |-> FALSE,
          drive |-> [kind |-> s.kind, answers |-> TRUE,
                     connected |-> s.connected, armed |-> FALSE, mode |-> "STOPPED", spin |-> {}],
          saved |-> "STOPPED", action |-> "NONE",
          limbs |-> "still", accessory |-> "still",
          obstacle |-> [state |-> "SENSOR_UNAVAILABLE", rangeValid |-> FALSE],
          imu |-> "unavailable",
          diagnostics |-> [unlocked |-> FALSE, testingWheel |-> FALSE],
          autonomy |-> [enabled |-> FALSE, state |-> "IDLE"]]
  /\ at = "buttons"

-----------------------------------------------------------------------------
(* ServoDrive and RollerDrive.  A servo bus never notices a failed write; a *)
(* roller that misses one stays disconnected until the next restart.        *)

WriteServos(r, wheels) ==
  IF r.drive.connected THEN [r EXCEPT !.drive.spin = wheels] ELSE r

WriteRollers(r, wheels) ==
  IF r.drive.answers THEN [r EXCEPT !.drive.spin = wheels]
  ELSE [r EXCEPT !.drive.connected = FALSE]

Write(r, wheels) ==
  IF r.drive.kind = "servo" THEN WriteServos(r, wheels) ELSE WriteRollers(r, wheels)

StopWheels(r) == [Write(r, {}) EXCEPT !.drive.mode = "STOPPED"]

DisarmWheels(r) == [StopWheels(r) EXCEPT !.drive.armed = FALSE]

\* Only the servo drive stops its wheels to arm them; neither resets _mode.
ArmServos(r) == [WriteServos(r, {}) EXCEPT !.drive.armed = TRUE]

ArmRollers(r) ==
  LET w == WriteRollers(r, r.drive.spin)
  IN [w EXCEPT !.drive.armed = w.drive.connected]

ArmWheels(r) ==
  IF ~r.drive.connected THEN [r EXCEPT !.drive.armed = FALSE]
  ELSE IF r.drive.kind = "servo" THEN ArmServos(r) ELSE ArmRollers(r)

DriveServos(r, mode) ==
  IF ~r.drive.armed THEN StopWheels(r)
  ELSE [WriteServos(r, {"drive"}) EXCEPT !.drive.mode = mode]

DriveRollers(r, mode) ==
  LET w == WriteRollers(r, {"drive"})
  IN IF ~r.drive.armed \/ ~r.drive.connected THEN StopWheels(r)
     ELSE IF ~w.drive.connected THEN DisarmWheels(w)
     ELSE [w EXCEPT !.drive.mode = mode]

DriveWheels(r, mode) ==
  IF r.drive.kind = "servo" THEN DriveServos(r, mode) ELSE DriveRollers(r, mode)

\* update() of the drive: it has run for long enough, or no longer answers.
ServosUpdate(r, timedOut) ==
  IF timedOut /\ r.drive.mode # "STOPPED" THEN StopWheels(r) ELSE r

RollersUpdate(r, timedOut) ==
  IF ~r.drive.connected THEN DisarmWheels(r) ELSE ServosUpdate(r, timedOut)

\* RobotHal::update: the drive, then the joints that have arrived by now.
HalUpdate(r, driveTimedOut, jointsArrived) ==
  LET d == IF r.drive.kind = "servo" THEN ServosUpdate(r, driveTimedOut)
           ELSE RollersUpdate(r, driveTimedOut)
  IN IF jointsArrived
     THEN [d EXCEPT !.limbs = "still", !.accessory = "still"] ELSE d

-----------------------------------------------------------------------------
(* ServoDiagnostics. *)

\* The test is forgotten and its wheel left turning.
StopTestForgotten(r) == [r EXCEPT !.diagnostics.testingWheel = FALSE]

StopTest(r) ==
  [r EXCEPT !.diagnostics.testingWheel = FALSE,
            !.drive.spin = IF r.diagnostics.testingWheel /\ r.drive.connected
                           THEN @ \ {"test"} ELSE @]

LockDiagnostics(r) == [StopTest(r) EXCEPT !.diagnostics.unlocked = FALSE]

UnlockDiagnostics(r) ==
  IF BenchTesting /\ ~r.drive.armed
  THEN [r EXCEPT !.diagnostics.unlocked = TRUE] ELSE r

\* accepted: a drive servo's role and a pulse within its limits.
TestWheel(r, otherWheel, accepted) ==
  IF ~r.diagnostics.unlocked THEN r
  ELSE LET s == IF r.diagnostics.testingWheel /\ otherWheel
                THEN StopTest(r) ELSE r
       IN IF accepted /\ r.drive.kind = "servo" /\ r.drive.connected
          THEN [s EXCEPT !.diagnostics.testingWheel = TRUE,
                         !.drive.spin = @ \cup {"test"}]
          ELSE s

-----------------------------------------------------------------------------
(* RobotActions and RobotAPI. *)

BlocksForward(r) == r.obstacle.state \in {"BLOCKED", "SENSOR_UNAVAILABLE"}

\* cancel(): the accessory is not among the joints it visits.
CancelAction(r, stopDrive, returnToRest) ==
  [(IF stopDrive THEN StopWheels(r) ELSE r)
     EXCEPT !.action = "NONE",
            !.limbs = IF returnToRest THEN "moving" ELSE "still"]

OwnsDrive(action) == action = "DANCE"
StopsDrive(action) == action = "SLEEP"

StartAction(r, action) ==
  IF ~MayMoveManipulators(r.sup) THEN r
  ELSE [CancelAction(r, OwnsDrive(r.action) \/ StopsDrive(action), TRUE)
          EXCEPT !.action = action]

StopAll(r) ==
  StopWheels(CancelAction([r EXCEPT !.saved = "STOPPED"], TRUE,
                          MayMoveManipulators(r.sup)))

DisarmMotors(r) ==
  DisarmWheels(CancelAction([r EXCEPT !.saved = "STOPPED"], TRUE,
                            MayMoveManipulators(r.sup)))

\* A drive that does not arm latches a fault.
ArmMotors(r) ==
  LET armed == ArmWheels(r)
  IN IF ~MayEnableDrive(r.sup) THEN r
     ELSE IF armed.drive.armed THEN armed
     ELSE [armed EXCEPT !.sup = LatchFault(@, "DRIVE_UNAVAILABLE")]

Moved(r, mode, autonomous) ==
  /\ r.drive.armed
  /\ \/ mode = "STOPPED"
     \/ /\ DriveGranted(r.sup, mode = "FORWARD", autonomous, Now)
        /\ mode = "FORWARD" => ~BlocksForward(r)

\* The action in progress is cancelled before anything is asked.
Move(r0, mode, cancelAction, autonomous) ==
  LET r == IF cancelAction THEN CancelAction(r0, FALSE, TRUE) ELSE r0
      asked == [r EXCEPT !.sup = DriveRequested(r.sup, mode = "FORWARD",
                                                autonomous, Now)]
  IN IF ~r.drive.armed THEN r
     ELSE IF mode = "STOPPED" THEN StopAll(r)
     ELSE IF ~Moved(r, mode, autonomous) THEN StopWheels(asked)
     ELSE DriveWheels([asked EXCEPT !.saved = mode], mode)

Progress == {"wait", "end", "step", "FORWARD", "REVERSE"}

\* One look of RobotActions::update: it waits, takes a step, possibly one that
\* drives, or ends because it is finished or has taken too long.
ActionUpdate(r, progress) ==
  LET stops == OwnsDrive(r.action) \/ StopsDrive(r.action)
      stepped == [r EXCEPT !.limbs = "moving"]
  IN IF r.action = "NONE" THEN r
     ELSE IF ~MayMoveManipulators(r.sup) THEN CancelAction(r, TRUE, FALSE)
     ELSE IF progress = "wait" THEN r
     ELSE IF progress = "end"
     THEN CancelAction(r, stops, TRUE)
     ELSE IF OwnsDrive(r.action) /\ ActionDrives /\ progress # "step"
     THEN Move(stepped, progress, FALSE, FALSE)
     ELSE stepped

\* Invalid readings ("failed": the sensor itself reports that it is out) and
\* the three bands of Config.h; "far" becomes "clear" when it has lasted for
\* OBSTACLE_HYSTERESIS_MS.
Reading == {"invalid", "failed", "near", "middle", "far", "clear"}
InvalidReading == {"invalid", "failed"}

\* A state for the wait that ObstacleSafetyState does not have.
ObstacleUpdateSettling(state, reading) ==
  IF reading = "far" /\ state # "CLEAR" THEN "SETTLING" ELSE "BLOCKED"

ObstacleUpdate(state, reading) ==
  CASE reading \in InvalidReading -> "SENSOR_UNAVAILABLE"
    [] reading = "near"   -> "BLOCKED"
    [] reading = "middle" -> IF state = "BLOCKED" THEN state ELSE "CAUTION"
    [] reading = "far"    -> state
    [] reading = "clear"  -> "CLEAR"

\* The forward drive is judged by the reading before this one.
LookAheadLate(r, reading, imu) ==
  [(IF r.drive.mode # "FORWARD" \/ ~BlocksForward(r) THEN r
    ELSE [StopWheels(r) EXCEPT !.saved = "STOPPED"])
     EXCEPT !.imu = imu,
            !.obstacle = [state |-> ObstacleUpdate(@.state, reading),
                          rangeValid |-> reading \notin InvalidReading]]

\* The rest of RobotAPI::update: look ahead, and stop a forward drive that
\* the new reading forbids.
LookAhead(r0, reading, imu) ==
  LET r == [r0 EXCEPT !.imu = imu,
                      !.obstacle =
                        [state |-> ObstacleUpdate(@.state, reading),
                         rangeValid |-> reading \notin InvalidReading]]
      stopped == [StopWheels(r) EXCEPT !.saved = "STOPPED"]
  IN IF r.drive.mode # "FORWARD" \/ ~BlocksForward(r) THEN r
     ELSE IF reading = "failed"
     THEN [stopped EXCEPT
             !.sup = EmergencyStopped(@, "RANGE_SENSOR_INVALID")]
     ELSE stopped

-----------------------------------------------------------------------------
(* ControlRouter. *)

Inputs(r) ==
  [bootComplete |-> r.booted, hardwareReady |-> r.drive.connected,
   driveAvailable |-> r.drive.connected,
   rangeValid |-> r.obstacle.rangeValid,
   forwardMotionBlocked |-> BlocksForward(r),
   driveForward |-> r.drive.connected /\ r.drive.mode = "FORWARD",
   imu |-> r.imu, imuSampleTimeMs |-> FreshSampleMs]

DisableAutonomy(r) ==
  [r EXCEPT !.autonomy = [enabled |-> FALSE, state |-> "IDLE"]]

\* The bench diagnostics stay unlocked.
ServiceDisarmUnlocked(r) ==
  DisarmMotors(DisableAutonomy([r EXCEPT !.sup.disarmRequested = FALSE]))

\* What follows a disarm request that updateSafety consumed.
ServiceDisarm(r) ==
  DisarmMotors(LockDiagnostics(DisableAutonomy(
    [r EXCEPT !.sup.disarmRequested = FALSE])))

\* A request is consumed only while the drive is armed.
UpdateSafetyWhenArmed(r) ==
  LET u == [r EXCEPT !.sup = Updated(@, Inputs(r), Now)]
  IN IF r.booted /\ u.sup.disarmRequested /\ u.drive.armed
     THEN ServiceDisarm(u) ELSE u

UpdateSafety(r) ==
  LET u == [r EXCEPT !.sup = Updated(@, Inputs(r), Now)]
  IN IF ~r.booted THEN r
     ELSE IF u.sup.disarmRequested THEN ServiceDisarm(u) ELSE u

ShutDown(r) == DisarmMotors(StopAll(LockDiagnostics(DisableAutonomy(r))))

EmergencyStop(r, fault) ==
  ShutDown([r EXCEPT !.sup = EmergencyStopped(@, fault)])

PhysicalEmergencyStop(r) == ShutDown([r EXCEPT !.sup = PhysicallyStopped(@)])

ClearPhysicalEmergencyStop(r) ==
  LET c == [r EXCEPT !.sup = EstopCleared(@, Inputs(r))]
  IN IF EstopClearable(r.sup, Inputs(r)) THEN DisarmMotors(c) ELSE c

RouterCompleteBoot(r0) ==
  LET r == [r0 EXCEPT !.booted = TRUE]
      c == [r EXCEPT !.sup = BootCompleted(@, Inputs(r))]
  IN IF c.sup.disarmRequested
     THEN DisarmMotors([c EXCEPT !.sup.disarmRequested = FALSE]) ELSE c

\* The cases of execute(), each after its updateSafety().
ExecuteArm(r0) ==
  LET r == UpdateSafety(r0)
      asked == [r EXCEPT !.sup = ArmRequested(@, Inputs(r))]
  IN IF ArmGranted(r.sup, Inputs(r)) THEN ArmMotors(asked)
     ELSE UpdateSafety(asked)

ExecuteDisarm(r0) ==
  LET r == UpdateSafety(r0)
  IN DisarmMotors(DisableAutonomy([r EXCEPT !.sup = DisarmRequested(@)]))

ExecuteStop(r0) == StopAll(UpdateSafety(r0))

ExecuteMove(r0, mode, autonomous) ==
  LET r == UpdateSafety(r0)
      m == Move(r, mode, TRUE, autonomous)
  IN IF Moved(r, mode, autonomous) THEN m ELSE UpdateSafety(m)

ExecuteAction(r0, action) == StartAction(UpdateSafety(r0), action)

\* JOINT_MOVE and JOINT_REST of one joint; ACCESSORY sets it at once or rests.
ExecuteJoint(r0, joint) ==
  LET r == UpdateSafety(r0)
  IN IF ~MayMoveManipulators(r.sup) THEN r
     ELSE IF joint = "accessory" THEN [r EXCEPT !.accessory = "moving"]
     ELSE [r EXCEPT !.limbs = "moving"]

ExecuteAutonomySet(r0, flag) ==
  LET r == UpdateSafety(r0)
      asked == [r EXCEPT !.sup = AutonomyRequested(@, flag, Now)]
  IN IF ~AutonomyGranted(r.sup, flag, Now) THEN UpdateSafety(asked)
     ELSE IF flag THEN [asked EXCEPT !.autonomy.enabled = TRUE]
     ELSE DisableAutonomy(asked)

\* The supervisor disarms and the drive does not.
ExecuteUnlockArmed(r0) ==
  LET r == UpdateSafety(r0)
  IN IF r.sup.state \in {"BOOT"} \cup LatchedStates THEN r
     ELSE UnlockDiagnostics([r EXCEPT !.sup = DisarmRequested(@)])

\* SERVO TEST UNLOCK while no remote controller is paired.
ExecuteUnlock(r0) ==
  LET r == UpdateSafety(r0)
  IN IF r.sup.state \in {"BOOT"} \cup LatchedStates THEN r
     ELSE UnlockDiagnostics(
            DisarmMotors([r EXCEPT !.sup = DisarmRequested(@)]))

ExecuteLock(r0) ==
  LET r == UpdateSafety(r0)
  IN IF r.sup.state \in {"BOOT"} \cup LatchedStates THEN r
     ELSE LockDiagnostics(r)

ExecuteTest(r0, otherWheel, accepted) ==
  LET r == UpdateSafety(r0)
  IN IF r.sup.state \in {"BOOT"} \cup LatchedStates THEN r
     ELSE TestWheel(r, otherWheel, accepted)

-----------------------------------------------------------------------------
(* AutonomyManager::update; elapsed: the wait of its state is over. *)

AutonomyMayMove(r) ==
  r.autonomy.enabled /\ AutonomyMotionAllowed(r.sup, Now)

\* From reversing straight to the wait, without the turn and the stop.
EnterEarly(r, state) ==
  [r EXCEPT !.autonomy.state =
     IF state = "BACKING_UP" THEN "WAIT_FOR_CLEARANCE" ELSE state]

Enter(r, state) == [r EXCEPT !.autonomy.state = state]

AutonomyUpdate(r0, elapsed) ==
  LET state == IF r0.autonomy.state = "IDLE" THEN "MONITORING"
               ELSE r0.autonomy.state
      r == Enter(r0, state)
  IN IF ~AutonomyMayMove(r0) THEN Enter(r0, "IDLE")
     ELSE CASE state = "MONITORING" /\ r.obstacle.state = "BLOCKED" ->
                 Enter(r, "STOPPING")
            [] state = "STOPPING" /\ elapsed ->
                 ExecuteMove(Enter(r, "BACKING_UP"), "REVERSE", TRUE)
            [] state = "BACKING_UP" /\ elapsed ->
                 ExecuteMove(Enter(r, "TURNING"), "REVERSE", TRUE)
            [] state = "TURNING" /\ elapsed ->
                 ExecuteStop(Enter(r, "WAIT_FOR_CLEARANCE"))
            [] state = "WAIT_FOR_CLEARANCE" /\ r.obstacle.state = "CLEAR" ->
                 Enter(r, "RESUMING")
            [] state = "WAIT_FOR_CLEARANCE" /\ r.obstacle.state # "CLEAR"
               /\ elapsed ->
                 Enter([r EXCEPT !.saved = "STOPPED"], "MONITORING")
            [] state = "RESUMING" ->
                 IF r.saved = "STOPPED" THEN Enter(r, "MONITORING")
                 ELSE ExecuteMove(Enter(r, "MONITORING"), r.saved, TRUE)
            [] OTHER -> r

-----------------------------------------------------------------------------
(* loop(), one action for each call. *)

AfterButtons == at' = IF robot.booted THEN "robot" ELSE "boot"

NoButton == at = "buttons" /\ AfterButtons /\ UNCHANGED robot

\* A boot is over before the chord has been held for long enough.
HoldStopChord ==
  /\ at = "buttons"
  /\ robot.sup.state \notin {"BOOT", "ESTOP"}
  /\ robot' = PhysicalEmergencyStop(robot)
  /\ AfterButtons

HoldResetChord ==
  /\ at = "buttons"
  /\ robot.sup.state = "ESTOP"
  /\ robot' = ClearPhysicalEmergencyStop(robot)
  /\ AfterButtons

\* nextMood(): ALERT stops the robot and SLEEPY sends it to sleep.  The
\* command SET_MOOD does no more than CommandStop and CommandAction.
ClickMood ==
  /\ at = "buttons"
  /\ robot' \in {StopAll(robot), StartAction(robot, "SLEEP")}
  /\ AfterButtons

\* BootDiagnostics::update; one of its phases stops the drive.
BootPhase ==
  /\ at = "boot"
  /\ robot' \in {robot, StopAll(robot)}
  /\ at' = "buttons"

BootComplete ==
  /\ at = "boot"
  /\ robot' = RouterCompleteBoot(robot)
  /\ at' = "robot"

\* A time-out may have expired if it is running.
Expired(running) == IF running THEN BOOLEAN ELSE {FALSE}

\* RobotAPI::update.  An action moves the wheels before the new reading.
RobotUpdate ==
  /\ at = "robot"
  /\ \E driveTimedOut \in Expired(robot.drive.mode # "STOPPED"),
        jointsArrived \in Expired("moving" \in {robot.limbs, robot.accessory}),
        benchTimedOut \in Expired(robot.diagnostics.unlocked),
        progress \in IF robot.action = "NONE" THEN {"wait"} ELSE Progress,
        reading \in Reading, imu \in ImuSamples :
       LET acted == ActionUpdate(HalUpdate(robot, driveTimedOut, jointsArrived),
                                 progress)
           seen == LookAhead(acted, reading, imu)
       IN robot' = IF benchTimedOut THEN LockDiagnostics(seen) ELSE seen
  /\ at' = "safety"

RouterUpdateSafety ==
  /\ at = "safety"
  /\ robot' = UpdateSafety(robot)
  /\ at' = "autonomy"

\* handleAutonomy().  An override outlasts at least one pass of the loop, so
\* it lapses, if it does, after the autonomy manager has seen it.
HandleAutonomy ==
  /\ at = "autonomy"
  /\ \E elapsed \in Expired(robot.autonomy.enabled), lapsed \in BOOLEAN :
       LET r == AutonomyUpdate(robot, elapsed)
       IN robot' = IF lapsed THEN [r EXCEPT !.sup.manualOverrideUntilMs = Now]
                   ELSE r
  /\ at' = "wifi"

\* wifiControl.update(): a stop of its own, or the commands of its queue.
WifiStop ==
  /\ at = "wifi"
  /\ \E fault \in WifiFaults : robot' = EmergencyStop(robot, fault)
  /\ UNCHANGED at

Commanding == at \in {"wifi", "serial"} /\ UNCHANGED at

CommandArm == Commanding /\ robot' = ExecuteArm(robot)
CommandDisarm == Commanding /\ robot' = ExecuteDisarm(robot)
CommandStop == Commanding /\ robot' = ExecuteStop(robot)

CommandMove ==
  /\ Commanding
  /\ \E mode \in DriveMode : robot' = ExecuteMove(robot, mode, FALSE)

CommandAction ==
  /\ Commanding
  /\ \E action \in ActionId \ {"NONE"} : robot' = ExecuteAction(robot, action)

CommandJoint ==
  /\ Commanding
  /\ \E joint \in Joints : robot' = ExecuteJoint(robot, joint)

CommandAutonomy ==
  /\ Commanding
  /\ \E flag \in BOOLEAN : robot' = ExecuteAutonomySet(robot, flag)

\* SERVO TEST is a serial command.
SerialServoTest ==
  /\ at = "serial"
  /\ UNCHANGED at
  /\ \/ robot' \in {ExecuteUnlock(robot), ExecuteLock(robot)}
     \/ \E otherWheel, accepted \in BOOLEAN :
          robot' = ExecuteTest(robot, otherWheel, accepted)

CommandsDone ==
  /\ at \in {"wifi", "serial"}
  /\ at' = IF at = "wifi" THEN "serial" ELSE "buttons"
  /\ UNCHANGED robot

\* The wire to the rollers fails, or answers again: one answer for both, since
\* RollerDrive takes the failure of one for its own.  Which of the two wheels
\* still turns is not told apart; they do until a write arrives.
RollerWire ==
  /\ robot.drive.kind = "roller"
  /\ robot' = [robot EXCEPT !.drive.answers = ~@]
  /\ UNCHANGED at

Next ==
  \/ NoButton \/ HoldStopChord \/ HoldResetChord \/ ClickMood
  \/ BootPhase \/ BootComplete
  \/ RobotUpdate \/ RouterUpdateSafety \/ HandleAutonomy
  \/ WifiStop \/ CommandArm \/ CommandDisarm \/ CommandStop \/ CommandMove
  \/ CommandAction \/ CommandJoint \/ CommandAutonomy \/ SerialServoTest
  \/ CommandsDone
  \/ RollerWire

Spec == Init /\ [][Next]_vars

-----------------------------------------------------------------------------
(* Correctness. *)

Connected == robot.drive.connected

\* Once an incident has been serviced, and until boot is over, everything that
\* can set wheels going is off: the drive disarmed and stopped, the bench
\* diagnostics locked, no action running, autonomy disabled.  It takes every
\* command's own guard to keep it so (RobotAPI.cpp, ControlRouter.cpp).
LatchedIsStill ==
  robot.sup.state \in {"BOOT"} \cup LatchedStates /\ ~robot.sup.disarmRequested
    => /\ ~robot.drive.armed
       /\ robot.drive.mode = "STOPPED"
       /\ Connected => robot.drive.spin = {}
       /\ ~robot.diagnostics.unlocked
       /\ robot.action = "NONE"
       /\ ~robot.autonomy.enabled

\* The supervisor's view and the drive's never part for longer than it takes
\* updateSafety to consume a disarm request: an armed drive is one that the
\* supervisor armed, and a connected drive it believes armed is.
ArmedAgrees ==
  /\ robot.drive.armed =>
       robot.sup.state = "ARMED" \/ robot.sup.disarmRequested
  /\ robot.sup.state = "ARMED" /\ Connected => robot.drive.armed

\* Wheels that turn are answered for: by an armed drive whose time-out is
\* running (_mode is not STOPPED), or by a wheel test that will be stopped when
\* the diagnostics are locked or time out.
WheelsSupervised ==
  Connected =>
    /\ "drive" \in robot.drive.spin =>
         robot.drive.armed /\ robot.drive.mode # "STOPPED"
    /\ "test" \in robot.drive.spin =>
         robot.diagnostics.unlocked /\ robot.diagnostics.testingWheel

\* No call of loop() leaves a forward drive behind that the last reading
\* forbids, whoever asked for it: a command, an action or the autonomy.
NoForwardIntoObstacle ==
  robot.drive.mode = "FORWARD" => ~BlocksForward(robot)

\* An avoidance manoeuvre ends with nothing to resume: by the time the way is
\* clear its own stop has erased every remembered command, and a command given
\* since then keeps the autonomy from moving until it is back to IDLE
\* (AutonomyManager.cpp:57-92).
NothingToResume ==
  /\ robot.autonomy.state \in {"WAIT_FOR_CLEARANCE", "RESUMING"}
  /\ AutonomyMayMove(robot)
  => robot.saved = "STOPPED"

\* Manual drive has precedence: while an override is pending the autonomy
\* neither moves the wheels nor stops them (docs/CONFIGURATION.md:49).
AutonomyYields ==
  [][at = "autonomy" /\ robot.sup.manualOverrideUntilMs # Now
       => robot'.drive.mode = robot.drive.mode]_vars

\* Whoever latches a fault, in whatever call of a pass, the robot has been
\* disarmed for it before the autonomy or a command gets to act in the next.
IncidentServiced == at = "autonomy" => ~robot.sup.disarmRequested

=============================================================================

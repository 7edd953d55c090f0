---------------------------- MODULE SafetyPolicy ----------------------------
(***************************************************************************)
(* The decisions of SafetySupervisor.cpp as operators without variables:   *)
(* every member function of the supervisor maps the supervisor's fields    *)
(* (a record s), its arguments and the clock to the fields it leaves       *)
(* behind.  SafetySupervisor.tla runs them on their own, with the flash    *)
(* record and restarts; RobotControl.tla runs them inside the router.      *)
(*                                                                         *)
(* Abstracted: _stateChangedAtMs (telemetry only) and the float arithmetic *)
(* of the IMU check, of which only the verdict of each test is kept.       *)
(***************************************************************************)
EXTENDS Integers

CONSTANTS
  ClockModulus,       \* millis() is a uint32_t: 2^32 on the device
  ManualOverrideMs,   \* SafetyPolicyConfig.manualOverrideMs
  ImuMaxSampleAgeMs   \* SafetyPolicyConfig.imuMaxSampleAgeMs

ASSUME PolicyAssumption ==
  /\ ClockModulus \in Nat \ {0}
  /\ ManualOverrideMs \in Nat
  /\ ImuMaxSampleAgeMs \in Nat

-----------------------------------------------------------------------------
(* The types of SafetySupervisor.h. *)

Clock == 0 .. ClockModulus - 1

SafetyState == {"BOOT", "DISARMED", "ARMED", "FAULT", "ESTOP"}

\* The states that persistLatchedState records and only a person may leave.
LatchedStates == {"FAULT", "ESTOP"}

SafetyFault ==
  {"NONE", "BOOT_INCOMPLETE", "HARDWARE_UNAVAILABLE", "DRIVE_UNAVAILABLE",
   "OBSTACLE_BLOCKED", "RANGE_SENSOR_INVALID", "IMU_UNAVAILABLE",
   "IMU_INVALID", "IMU_STALE", "IMU_TILT", "IMU_ACCELERATION", "IMU_GYRO",
   "CONTROLLER_DISCONNECTED", "CONTROLLER_LEASE_EXPIRED", "DRIVE_WATCHDOG",
   "AUTONOMY_TIMEOUT", "PHYSICAL_ESTOP"}

\* What the float tests of faultForAutonomy find in one IMU sample, in the
\* order in which they look.
ImuSample == {"unavailable", "invalid", "nonfinite", "acceleration", "tilt",
              "gyro", "good"}

SafetyInputs ==
  [bootComplete: BOOLEAN, hardwareReady: BOOLEAN, driveAvailable: BOOLEAN,
   rangeValid: BOOLEAN, forwardMotionBlocked: BOOLEAN, driveForward: BOOLEAN,
   imu: ImuSample, imuSampleTimeMs: Clock]

\* The member initialisers of SafetyInputs.
NoInputs ==
  [bootComplete |-> FALSE, hardwareReady |-> FALSE, driveAvailable |-> FALSE,
   rangeValid |-> FALSE, forwardMotionBlocked |-> TRUE, driveForward |-> FALSE,
   imu |-> "unavailable", imuSampleTimeMs |-> 0]

Supervisor ==
  [state: SafetyState, fault: SafetyFault,
   restoredState: {"BOOT"} \cup LatchedStates, restoredFault: SafetyFault,
   manualOverrideUntilMs: Clock, autonomyEnabled: BOOLEAN,
   disarmRequested: BOOLEAN, inputs: SafetyInputs]

-----------------------------------------------------------------------------
(* uint32_t time. *)

\* later - earlier in uint32_t arithmetic.
Elapsed(later, earlier) == (later - earlier) % ClockModulus

\* Deadlines compared as plain unsigned numbers.
ReachedUnsigned(now, deadline) == now >= deadline

\* static_cast<int32_t>(now - deadline) >= 0
Reached(now, deadline) == 2 * Elapsed(now, deadline) < ClockModulus

-----------------------------------------------------------------------------
(* The three fault checks; each returns the first fault it meets. *)

FaultForArm(s) ==
  IF ~s.inputs.bootComplete THEN "BOOT_INCOMPLETE"
  ELSE IF ~s.inputs.hardwareReady THEN "HARDWARE_UNAVAILABLE"
  ELSE IF ~s.inputs.driveAvailable THEN "DRIVE_UNAVAILABLE"
  ELSE IF /\ s.fault \in {"RANGE_SENSOR_INVALID", "OBSTACLE_BLOCKED"}
          /\ ~s.inputs.rangeValid
  THEN "RANGE_SENSOR_INVALID"
  ELSE IF s.fault = "OBSTACLE_BLOCKED" /\ s.inputs.forwardMotionBlocked
  THEN "OBSTACLE_BLOCKED"
  ELSE "NONE"

ImuStale(in, now) ==
  \/ in.imuSampleTimeMs = 0
  \/ Elapsed(now, in.imuSampleTimeMs) > ImuMaxSampleAgeMs

FaultForAutonomy(in, now) ==
  IF ~in.rangeValid THEN "RANGE_SENSOR_INVALID"
  ELSE IF in.imu = "unavailable" THEN "IMU_UNAVAILABLE"
  ELSE IF in.imu = "invalid" THEN "IMU_INVALID"
  ELSE IF ImuStale(in, now) THEN "IMU_STALE"
  ELSE IF in.imu = "nonfinite" THEN "IMU_INVALID"
  ELSE IF in.imu = "acceleration" THEN "IMU_ACCELERATION"
  ELSE IF in.imu = "tilt" THEN "IMU_TILT"
  ELSE IF in.imu = "gyro" THEN "IMU_GYRO"
  ELSE "NONE"

FaultForDrive(in, forward, autonomous, now) ==
  IF ~in.hardwareReady \/ ~in.driveAvailable THEN "DRIVE_UNAVAILABLE"
  ELSE IF forward /\ ~in.rangeValid THEN "RANGE_SENSOR_INVALID"
  ELSE IF forward /\ in.forwardMotionBlocked THEN "OBSTACLE_BLOCKED"
  ELSE IF autonomous THEN FaultForAutonomy(in, now)
  ELSE "NONE"

-----------------------------------------------------------------------------
(* latchFault and the requests. *)

\* An emergency stop that a later fault overwrites.
LatchFaultOverEstop(s, fault) ==
  IF s.state = "FAULT" /\ s.fault = fault
  THEN [s EXCEPT !.disarmRequested = TRUE]
  ELSE [s EXCEPT !.state = "FAULT", !.fault = fault,
                 !.manualOverrideUntilMs = 0, !.autonomyEnabled = FALSE,
                 !.disarmRequested = TRUE]

\* ESTOP outranks every fault, and a repeated fault keeps its first record.
LatchFault(s, fault) ==
  IF s.state = "ESTOP" \/ (s.state = "FAULT" /\ s.fault = fault)
  THEN [s EXCEPT !.disarmRequested = TRUE]
  ELSE [s EXCEPT !.state = "FAULT", !.fault = fault,
                 !.manualOverrideUntilMs = 0, !.autonomyEnabled = FALSE,
                 !.disarmRequested = TRUE]

\* Only a change of state is written to flash.
LatchesAnewState(s, t) == t.state \in LatchedStates /\ t.state # s.state

\* persistLatchedState runs on the path of LatchFault that changes the record.
LatchesAnew(s, t) ==
  /\ t.state \in LatchedStates
  /\ <<t.state, t.fault>> # <<s.state, s.fault>>

\* begin(): what a restart makes of the flash record n.
BeginWith(n) ==
  [state |-> "BOOT", fault |-> "NONE",
   restoredState |-> IF n.state \in LatchedStates THEN n.state ELSE "BOOT",
   restoredFault |-> IF n.state = "ESTOP" THEN "PHYSICAL_ESTOP"
                     ELSE IF n.state = "FAULT" /\ n.fault # "absent"
                          THEN n.fault ELSE "NONE",
   manualOverrideUntilMs |-> 0, autonomyEnabled |-> FALSE,
   disarmRequested |-> FALSE, inputs |-> NoInputs]

\* A restored fault without its second key stays unnamed.
BootCompletedUnnamed(s0, in) ==
  LET s == [s0 EXCEPT !.inputs = [in EXCEPT !.bootComplete = TRUE]]
  IN IF s.restoredState = "ESTOP"
     THEN [s EXCEPT !.state = "ESTOP", !.fault = "PHYSICAL_ESTOP",
                    !.disarmRequested = TRUE]
     ELSE IF s.restoredState = "FAULT"
     THEN [s EXCEPT !.state = "FAULT", !.fault = s.restoredFault,
                    !.disarmRequested = TRUE]
     ELSE IF FaultForArm(s) # "NONE" THEN LatchFault(s, FaultForArm(s))
     ELSE [s EXCEPT !.state = "DISARMED", !.fault = "NONE"]

\* completeBoot(): a restored incident is taken up again before anything else.
BootCompleted(s0, in) ==
  LET s == [s0 EXCEPT !.inputs = [in EXCEPT !.bootComplete = TRUE]]
  IN IF s.restoredState = "ESTOP"
     THEN [s EXCEPT !.state = "ESTOP", !.fault = "PHYSICAL_ESTOP",
                    !.disarmRequested = TRUE]
     ELSE IF s.restoredState = "FAULT"
     THEN [s EXCEPT !.state = "FAULT",
                    !.fault = IF s.restoredFault = "NONE"
                              THEN "HARDWARE_UNAVAILABLE"
                              ELSE s.restoredFault,
                    !.disarmRequested = TRUE]
     ELSE IF FaultForArm(s) # "NONE" THEN LatchFault(s, FaultForArm(s))
     ELSE [s EXCEPT !.state = "DISARMED", !.fault = "NONE"]

\* update(): a fault found in the standing inputs, or NONE.
StandingFault(s, now) ==
  IF s.state \notin {"DISARMED", "ARMED"} THEN "NONE"
  ELSE IF ~s.inputs.hardwareReady \/ ~s.inputs.driveAvailable
  THEN "DRIVE_UNAVAILABLE"
  ELSE LET drive == FaultForDrive(s.inputs, TRUE, FALSE, now)
       IN IF s.state = "ARMED" /\ s.inputs.driveForward
             /\ drive \notin {"NONE", "OBSTACLE_BLOCKED"}
          THEN drive
          ELSE IF s.state = "ARMED" /\ s.autonomyEnabled
               THEN FaultForAutonomy(s.inputs, now)
               ELSE "NONE"

Updated(s0, in, now) ==
  LET s == [s0 EXCEPT !.inputs = in]
  IN IF StandingFault(s, now) = "NONE" THEN s
     ELSE LatchFault(s, StandingFault(s, now))

\* requestArm(): granted unless BOOT, ESTOP or a reason not to arm.
ArmGranted(s0, in) ==
  /\ s0.state \notin {"BOOT", "ESTOP"}
  /\ FaultForArm([s0 EXCEPT !.inputs = in]) = "NONE"

ArmRequested(s0, in) ==
  LET s == [s0 EXCEPT !.inputs = in]
  IN IF s.state \in {"BOOT", "ESTOP"} THEN s
     ELSE IF FaultForArm(s) # "NONE" THEN LatchFault(s, FaultForArm(s))
     ELSE [s EXCEPT !.state = "ARMED", !.fault = "NONE",
                    !.autonomyEnabled = FALSE, !.disarmRequested = FALSE]

DisarmRequested(s) ==
  IF s.state \in LatchedStates
  THEN [s EXCEPT !.disarmRequested = TRUE]
  ELSE [s EXCEPT !.state = "DISARMED", !.fault = "NONE",
                 !.manualOverrideUntilMs = 0, !.autonomyEnabled = FALSE,
                 !.disarmRequested = FALSE]

AutonomyMotionAllowed(s, now) ==
  /\ s.state = "ARMED"
  /\ s.autonomyEnabled
  /\ Reached(now, s.manualOverrideUntilMs)

\* requestDrive() judges with the inputs the supervisor was last given.
DriveGranted(s, forward, autonomous, now) ==
  /\ s.state = "ARMED"
  /\ FaultForDrive(s.inputs, forward, autonomous, now) = "NONE"
  /\ autonomous => AutonomyMotionAllowed(s, now)

\* The override deadline overflows instead of wrapping.
DriveRequestedOverflow(s, forward, autonomous, now) ==
  LET fault == FaultForDrive(s.inputs, forward, autonomous, now)
  IN IF s.state # "ARMED" THEN s
     ELSE IF fault \notin {"NONE", "OBSTACLE_BLOCKED"} THEN LatchFault(s, fault)
     ELSE IF fault = "NONE" /\ ~autonomous
     THEN [s EXCEPT !.manualOverrideUntilMs = now + ManualOverrideMs]
     ELSE s

DriveRequested(s, forward, autonomous, now) ==
  LET fault == FaultForDrive(s.inputs, forward, autonomous, now)
  IN IF s.state # "ARMED" THEN s
     ELSE IF fault \notin {"NONE", "OBSTACLE_BLOCKED"} THEN LatchFault(s, fault)
     ELSE IF fault = "NONE" /\ ~autonomous
     THEN [s EXCEPT !.manualOverrideUntilMs =
                      (now + ManualOverrideMs) % ClockModulus]
     ELSE s

AutonomyGranted(s, enabled, now) ==
  enabled => s.state = "ARMED" /\ FaultForAutonomy(s.inputs, now) = "NONE"

AutonomyRequested(s, enabled, now) ==
  IF ~enabled THEN [s EXCEPT !.autonomyEnabled = FALSE]
  ELSE IF s.state # "ARMED" THEN s
  ELSE IF FaultForAutonomy(s.inputs, now) # "NONE"
  THEN LatchFault(s, FaultForAutonomy(s.inputs, now))
  ELSE [s EXCEPT !.autonomyEnabled = TRUE]

EmergencyStopped(s, fault) ==
  LatchFault(s, IF fault = "NONE" THEN "DRIVE_WATCHDOG" ELSE fault)

\* The chord forgets the autonomy permission.
PhysicallyStoppedKeepingAutonomy(s) ==
  [s EXCEPT !.state = "ESTOP", !.fault = "PHYSICAL_ESTOP",
            !.manualOverrideUntilMs = 0, !.disarmRequested = TRUE]

PhysicallyStopped(s) ==
  [s EXCEPT !.state = "ESTOP", !.fault = "PHYSICAL_ESTOP",
            !.manualOverrideUntilMs = 0, !.autonomyEnabled = FALSE,
            !.disarmRequested = TRUE]

EstopClearable(s, in) ==
  /\ s.state = "ESTOP"
  /\ in.bootComplete /\ in.hardwareReady /\ in.driveAvailable

EstopCleared(s0, in) ==
  LET s == [s0 EXCEPT !.inputs = in]
  IN IF EstopClearable(s, in)
     THEN [s EXCEPT !.state = "DISARMED", !.fault = "NONE",
                    !.disarmRequested = FALSE]
     ELSE s

MayEnableDrive(s) == s.state = "ARMED"

MayMoveManipulators(s) == s.state \in {"DISARMED", "ARMED"}

=============================================================================

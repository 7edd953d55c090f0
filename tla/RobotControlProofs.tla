------------------------- MODULE RobotControlProofs -------------------------
(***************************************************************************)
(* TLAPS proofs about RobotControl and, at the end, Embodiment, for every  *)
(* way to start, every set of IMU verdicts, joints, faults and intents,    *)
(* and both settings of the build options.                                 *)
(*                                                                         *)
(* The handlers of RobotControl are operators from robot to robot.  The    *)
(* proofs follow them: first what each operator on the wheels, each call   *)
(* of the supervisor and each part of a handler leaves behind, then that   *)
(* every handler keeps a robot in order (RobotOK), that every step of the  *)
(* loop keeps the invariant (RobotInv), and last that an intent is one     *)
(* more way to call the handlers.                                          *)
(***************************************************************************)
EXTENDS Embodiment, SafetyPolicyProofs

-----------------------------------------------------------------------------
(* The invariant of one robot between two calls. *)

\* Nothing can set the wheels going.
Still(r) ==
  /\ ~r.drive.armed
  /\ r.drive.mode = "STOPPED"
  /\ r.drive.connected => r.drive.spin = {}
  /\ ~r.diagnostics.unlocked
  /\ r.action = "NONE"
  /\ ~r.autonomy.enabled

StillWhenLatched(r) ==
  r.sup.state \in {"BOOT"} \cup LatchedStates /\ ~r.sup.disarmRequested
    => Still(r)

Agrees(r) ==
  /\ r.drive.armed => r.sup.state = "ARMED" \/ r.sup.disarmRequested
  /\ r.sup.state = "ARMED" /\ r.drive.connected => r.drive.armed

Supervised(r) ==
  r.drive.connected =>
    /\ "drive" \in r.drive.spin => r.drive.armed /\ r.drive.mode # "STOPPED"
    /\ "test" \in r.drive.spin =>
         r.diagnostics.unlocked /\ r.diagnostics.testingWheel

Unblocked(r) == r.drive.mode = "FORWARD" => ~BlocksForward(r)

\* Why an avoidance has nothing to resume: whatever remembers a command, while
\* the robot waits for the way to clear, also starts a manual override, and
\* whatever ends the override forgets the command, or is an incident.
Forgotten(r) ==
  /\ r.autonomy.state \in {"WAIT_FOR_CLEARANCE", "RESUMING"}
  /\ r.sup.manualOverrideUntilMs = 0
  /\ ~r.sup.disarmRequested
  => r.saved = "STOPPED"

\* The supervisor's part: boot is over for both or for none, and at the frozen
\* clock an override is over or has all its time left.
SupervisorOK(r) ==
  /\ WellFormed(r.sup)
  /\ r.sup.state = "BOOT" <=> ~r.booted
  /\ r.sup.manualOverrideUntilMs \in {0, ManualOverrideMs}

Sound(r) ==
  /\ r \in Robot
  /\ SupervisorOK(r)
  /\ StillWhenLatched(r)
  /\ Agrees(r)
  /\ Supervised(r)
  /\ Unblocked(r)

RobotOK(r) == Sound(r) /\ Forgotten(r)

\* And where it is in loop().
LoopOK ==
  /\ at \in Call
  /\ at \notin {"buttons", "boot"} => robot.booted
  /\ at = "boot" => ~robot.booted
  /\ at = "autonomy" => ~robot.sup.disarmRequested

RobotInv == RobotOK(robot) /\ LoopOK

-----------------------------------------------------------------------------
(* What the operators on the wheels leave behind. *)

\* Only the drive has changed, and no connection has come back.
DriveOnly(r, t) ==
  /\ t \in Robot
  /\ t.sup = r.sup /\ t.booted = r.booted
  /\ t.saved = r.saved /\ t.action = r.action
  /\ t.limbs = r.limbs /\ t.accessory = r.accessory
  /\ t.obstacle = r.obstacle /\ t.imu = r.imu
  /\ t.diagnostics = r.diagnostics /\ t.autonomy = r.autonomy
  /\ t.drive.connected => r.drive.connected

\* Wheels that can be told have been told to stand.
AtRest(t) == t.drive.mode = "STOPPED" /\ (t.drive.connected => t.drive.spin = {})

\* Changes of the drive add up.
LEMMA DriveOnlyAddsUp ==
  ASSUME NEW r, NEW s, NEW t, DriveOnly(r, s), DriveOnly(s, t)
  PROVE  DriveOnly(r, t)
BY DEF DriveOnly

\* The drive's own fields, each changed on its own.
WithArmed(r, armed) == [r EXCEPT !.drive.armed = armed]
WithMode(r, mode) == [r EXCEPT !.drive.mode = mode]

LEMMA ArmedEffect ==
  ASSUME NEW r \in Robot, NEW armed \in BOOLEAN
  PROVE  LET t == WithArmed(r, armed)
         IN /\ DriveOnly(r, t)
            /\ t.drive.armed = armed /\ t.drive.mode = r.drive.mode
            /\ t.drive.connected = r.drive.connected
            /\ t.drive.spin = r.drive.spin
BY DEF WithArmed, DriveOnly, Robot, Drive

LEMMA ModeEffect ==
  ASSUME NEW r \in Robot, NEW mode \in DriveMode
  PROVE  LET t == WithMode(r, mode)
         IN /\ DriveOnly(r, t)
            /\ t.drive.mode = mode /\ t.drive.armed = r.drive.armed
            /\ t.drive.connected = r.drive.connected
            /\ t.drive.spin = r.drive.spin
BY DEF WithMode, DriveOnly, Robot, Drive

\* A write changes nothing but the wheels, if it arrives, or finds out that a
\* roller does not answer.
LEMMA WriteEffect ==
  ASSUME NEW r \in Robot, NEW wheels \in SUBSET {"drive", "test"}
  PROVE  LET t == Write(r, wheels)
         IN /\ DriveOnly(r, t)
            /\ t.drive.armed = r.drive.armed /\ t.drive.mode = r.drive.mode
            /\ t.drive.connected => t.drive.spin = wheels
BY DEF Write, WriteServos, WriteRollers, DriveOnly, Robot, Drive

\* The same of the two drives by name.
LEMMA WriteRollersEffect ==
  ASSUME NEW r \in Robot, NEW wheels \in SUBSET {"drive", "test"}
  PROVE  LET t == WriteRollers(r, wheels)
         IN /\ DriveOnly(r, t)
            /\ t.drive.armed = r.drive.armed /\ t.drive.mode = r.drive.mode
            /\ t.drive.connected => t.drive.spin = wheels
BY DEF WriteRollers, DriveOnly, Robot, Drive

LEMMA WriteServosEffect ==
  ASSUME NEW r \in Robot, NEW wheels \in SUBSET {"drive", "test"}
  PROVE  LET t == WriteServos(r, wheels)
         IN /\ DriveOnly(r, t)
            /\ t.drive.armed = r.drive.armed /\ t.drive.mode = r.drive.mode
            /\ t.drive.connected = r.drive.connected
            /\ t.drive.connected => t.drive.spin = wheels
BY DEF WriteServos, DriveOnly, Robot, Drive

\* emergencyStop() of a drive.
LEMMA StopWheelsEffect ==
  ASSUME NEW r \in Robot
  PROVE  LET t == StopWheels(r)
         IN DriveOnly(r, t) /\ AtRest(t) /\ t.drive.armed = r.drive.armed
<1> DEFINE w == Write(r, {})
<1>1. /\ DriveOnly(r, w) /\ w.drive.armed = r.drive.armed
      /\ w.drive.connected => w.drive.spin = {}
  BY WriteEffect
<1>2. QED
  BY <1>1 DEF StopWheels, DriveOnly, AtRest, Robot, Drive, DriveMode

\* disarm() of a drive.
LEMMA DisarmWheelsEffect ==
  ASSUME NEW r \in Robot
  PROVE  LET t == DisarmWheels(r)
         IN DriveOnly(r, t) /\ AtRest(t) /\ ~t.drive.armed
<1> DEFINE w == StopWheels(r)
<1>1. DriveOnly(r, w) /\ AtRest(w)
  BY StopWheelsEffect
<1>2. QED
  BY <1>1 DEF DisarmWheels, DriveOnly, AtRest, Robot, Drive

\* arm() of a drive: it is armed if it can be reached, and its wheels stand or
\* are left as they were.
LEMMA ArmWheelsEffect ==
  ASSUME NEW r \in Robot
  PROVE  LET t == ArmWheels(r)
         IN /\ DriveOnly(r, t)
            /\ t.drive.armed = t.drive.connected /\ t.drive.mode = r.drive.mode
            /\ t.drive.connected => t.drive.spin \in {{}, r.drive.spin}
<1>1. CASE ~r.drive.connected
  BY <1>1 DEF ArmWheels, DriveOnly, Robot, Drive
<1>2. CASE r.drive.connected /\ r.drive.kind = "servo"
  <2> DEFINE w == WriteServos(r, {})
  <2>1. /\ DriveOnly(r, w) /\ w.drive.mode = r.drive.mode
        /\ w.drive.connected /\ w.drive.spin = {}
    BY <1>2, WriteServosEffect
  <2>2. ArmWheels(r) = WithArmed(w, TRUE)
    BY <1>2 DEF ArmWheels, ArmServos, WithArmed
  <2>3. w \in Robot
    BY <2>1 DEF DriveOnly
  <2>4. QED
    BY <2>1, <2>2, <2>3, ArmedEffect, DriveOnlyAddsUp
<1>3. CASE r.drive.connected /\ r.drive.kind # "servo"
  <2> DEFINE w == WriteRollers(r, r.drive.spin)
  <2>1. /\ DriveOnly(r, w) /\ w.drive.mode = r.drive.mode
        /\ w.drive.connected => w.drive.spin = r.drive.spin
    <3>1. r.drive.spin \in SUBSET {"drive", "test"}
      BY DEF Robot, Drive
    <3>2. QED
      BY <3>1, WriteRollersEffect
  <2>2. ArmWheels(r) = [w EXCEPT !.drive.armed = w.drive.connected]
    BY <1>3 DEF ArmWheels, ArmRollers
  <2>3. QED
    BY <2>1, <2>2 DEF DriveOnly, Robot, Drive
<1>4. QED
  BY <1>1, <1>2, <1>3

\* drive() of a drive: only an armed one that can be reached drives, and one
\* that cannot be reached is no longer armed or no longer connected.
LEMMA DriveWheelsEffect ==
  ASSUME NEW r \in Robot, NEW mode \in DriveMode \ {"STOPPED"}
  PROVE  LET t == DriveWheels(r, mode)
         IN /\ DriveOnly(r, t)
            /\ t.drive.armed => r.drive.armed
            /\ t.drive.connected /\ r.drive.armed =>
                 t.drive.armed /\ t.drive.mode = mode
            /\ t.drive.mode \in {"STOPPED", mode}
            /\ t.drive.connected =>
                 \/ t.drive.spin = {}
                 \/ /\ t.drive.spin = {"drive"}
                    /\ t.drive.armed /\ t.drive.mode = mode
<1>1. LET t == StopWheels(r)
      IN DriveOnly(r, t) /\ AtRest(t) /\ t.drive.armed = r.drive.armed
  BY StopWheelsEffect
<1>2. CASE r.drive.kind = "servo"
  <2> DEFINE w == WriteServos(r, {"drive"})
  <2>1. CASE ~r.drive.armed
    BY <1>1, <1>2, <2>1 DEF DriveWheels, DriveServos, AtRest
  <2>2. CASE r.drive.armed
    <3>1. /\ DriveOnly(r, w) /\ w.drive.armed = r.drive.armed
          /\ w.drive.connected => w.drive.spin = {"drive"}
      BY WriteServosEffect
    <3>2. DriveWheels(r, mode) = WithMode(w, mode)
      BY <1>2, <2>2 DEF DriveWheels, DriveServos, WithMode
    <3>3. w \in Robot
      BY <3>1 DEF DriveOnly
    <3>4. LET t == WithMode(w, mode)
          IN /\ DriveOnly(w, t) /\ t.drive.mode = mode
             /\ t.drive.armed = w.drive.armed /\ t.drive.spin = w.drive.spin
             /\ t.drive.connected = w.drive.connected
      BY <3>3, ModeEffect
    <3>5. DriveOnly(r, WithMode(w, mode))
      BY <3>1, <3>4, DriveOnlyAddsUp
    <3>6. QED
      BY <2>2, <3>1, <3>2, <3>4, <3>5
  <2>3. QED
    BY <2>1, <2>2
<1>3. CASE r.drive.kind # "servo"
  <2> DEFINE w == WriteRollers(r, {"drive"})
  <2>1. /\ DriveOnly(r, w) /\ w.drive.armed = r.drive.armed
        /\ w.drive.connected => w.drive.spin = {"drive"}
    BY WriteRollersEffect
  <2>2. CASE ~r.drive.armed \/ ~r.drive.connected
    <3>1. DriveWheels(r, mode) = StopWheels(r)
      BY <1>3, <2>2 DEF DriveWheels, DriveRollers
    <3>2. QED
      BY <1>1, <2>2, <3>1 DEF AtRest, DriveOnly
  <2>3. CASE r.drive.armed /\ r.drive.connected /\ ~w.drive.connected
    <3>1. DriveWheels(r, mode) = DisarmWheels(w)
      BY <1>3, <2>3 DEF DriveWheels, DriveRollers
    <3>2. w \in Robot
      BY <2>1 DEF DriveOnly
    <3>3. LET t == DisarmWheels(w)
          IN DriveOnly(w, t) /\ AtRest(t) /\ ~t.drive.armed
      BY <3>2, DisarmWheelsEffect
    <3>4. QED
      BY <2>1, <2>3, <3>1, <3>3 DEF AtRest, DriveOnly
  <2>4. CASE r.drive.armed /\ r.drive.connected /\ w.drive.connected
    <3>1. DriveWheels(r, mode) = WithMode(w, mode)
      BY <1>3, <2>4 DEF DriveWheels, DriveRollers, WithMode
    <3>2. w \in Robot
      BY <2>1 DEF DriveOnly
    <3>3. LET t == WithMode(w, mode)
          IN /\ DriveOnly(w, t) /\ t.drive.mode = mode
             /\ t.drive.armed = w.drive.armed /\ t.drive.spin = w.drive.spin
             /\ t.drive.connected = w.drive.connected
      BY <3>2, ModeEffect
    <3>4. DriveOnly(r, WithMode(w, mode))
      BY <2>1, <3>3, DriveOnlyAddsUp
    <3>5. QED
      BY <2>1, <2>4, <3>1, <3>3, <3>4
  <2>5. QED
    BY <2>2, <2>3, <2>4
<1>4. QED
  BY <1>2, <1>3

-----------------------------------------------------------------------------
(* What the calls of the supervisor leave behind, as far as it matters here. *)

\* An incident is latched and the disarming asked for.
LatchedBy(s, t) ==
  /\ t \in Supervisor
  /\ WellFormed(t)
  /\ t.state \in LatchedStates
  /\ t.disarmRequested
  /\ t.manualOverrideUntilMs \in {0, s.manualOverrideUntilMs}

\* The autonomy permission and the inputs may be new, everything else is as
\* before.
SameState(s, t) ==
  /\ t \in Supervisor
  /\ WellFormed(t)
  /\ t.state = s.state
  /\ t.disarmRequested = s.disarmRequested
  /\ t.manualOverrideUntilMs = s.manualOverrideUntilMs

\* A manual drive begins an override.
Overriding(s, t) ==
  /\ t \in Supervisor
  /\ WellFormed(t)
  /\ t.state = s.state
  /\ t.disarmRequested = s.disarmRequested
  /\ t.manualOverrideUntilMs = ManualOverrideMs

\* latchFault
LEMMA LatchFaultEffect ==
  ASSUME NEW s \in Supervisor, WellFormed(s), NEW fault \in SafetyFault \ {"NONE"}
  PROVE  LatchedBy(s, LatchFault(s, fault))
<1> DEFINE t == LatchFault(s, fault)
<1>1. t \in Supervisor
  BY LatchFaultType
<1>2. QED
  BY <1>1 DEF t, LatchedBy, WellFormed, LatchFault, Supervisor, SafetyState,
              LatchedStates

\* _inputs = inputs
LEMMA NewInputsEffect ==
  ASSUME NEW s \in Supervisor, WellFormed(s), NEW in \in SafetyInputs
  PROVE  LET t == [s EXCEPT !.inputs = in]
         IN /\ t \in Supervisor /\ WellFormed(t) /\ t.state = s.state
            /\ t.disarmRequested = s.disarmRequested
            /\ t.manualOverrideUntilMs = s.manualOverrideUntilMs
            /\ SameState(s, t)
            /\ \A u : LatchedBy(t, u) => LatchedBy(s, u)
BY DEF WellFormed, SameState, LatchedBy, Supervisor

\* update()
LEMMA UpdatedEffect ==
  ASSUME NEW s \in Supervisor, WellFormed(s), NEW in \in SafetyInputs
  PROVE  LET t == Updated(s, in, Now) IN SameState(s, t) \/ LatchedBy(s, t)
<1> DEFINE u == [s EXCEPT !.inputs = in]
<1>1. /\ u \in Supervisor /\ WellFormed(u) /\ SameState(s, u)
      /\ \A t : LatchedBy(u, t) => LatchedBy(s, t)
  BY NewInputsEffect
<1>2. CASE StandingFault(u, Now) = "NONE"
  BY <1>1, <1>2 DEF Updated
<1>3. CASE StandingFault(u, Now) # "NONE"
  BY <1>1, <1>3, StandingFaultType, LatchFaultEffect DEF Updated
<1>4. QED
  BY <1>2, <1>3

\* requestArm()
LEMMA ArmRequestedEffect ==
  ASSUME NEW s \in Supervisor, WellFormed(s), NEW in \in SafetyInputs
  PROVE  LET t == ArmRequested(s, in)
         IN IF ArmGranted(s, in)
            THEN /\ t \in Supervisor /\ WellFormed(t) /\ t.state = "ARMED"
                 /\ ~t.disarmRequested
                 /\ t.manualOverrideUntilMs = s.manualOverrideUntilMs
            ELSE SameState(s, t) \/ LatchedBy(s, t)
<1> DEFINE u == [s EXCEPT !.inputs = in]
<1>1. /\ u \in Supervisor /\ WellFormed(u) /\ u.state = s.state
      /\ u.manualOverrideUntilMs = s.manualOverrideUntilMs
      /\ SameState(s, u)
      /\ \A t : LatchedBy(u, t) => LatchedBy(s, t)
  BY NewInputsEffect
<1>2. CASE ArmGranted(s, in)
  <2>1. ArmRequested(s, in) =
          [u EXCEPT !.state = "ARMED", !.fault = "NONE",
                    !.autonomyEnabled = FALSE, !.disarmRequested = FALSE]
    BY <1>1, <1>2 DEF ArmRequested, ArmGranted
  <2>2. ArmRequested(s, in) \in Supervisor
    BY ArmRequestedType
  <2>3. QED
    BY <1>1, <1>2, <2>1, <2>2 DEF WellFormed, Supervisor, LatchedStates
<1>3. CASE ~ArmGranted(s, in) /\ s.state \in {"BOOT", "ESTOP"}
  BY <1>1, <1>3 DEF ArmRequested
<1>4. CASE ~ArmGranted(s, in) /\ s.state \notin {"BOOT", "ESTOP"}
  <2>1. FaultForArm(u) # "NONE"
    BY <1>4 DEF ArmGranted
  <2>2. ArmRequested(s, in) = LatchFault(u, FaultForArm(u))
    BY <1>1, <1>4, <2>1 DEF ArmRequested
  <2>3. QED
    BY <1>1, <1>4, <2>1, <2>2, FaultForArmType, LatchFaultEffect
<1>5. QED
  BY <1>2, <1>3, <1>4

\* requestDisarm()
LEMMA DisarmRequestedEffect ==
  ASSUME NEW s \in Supervisor, WellFormed(s)
  PROVE  LET t == DisarmRequested(s)
         IN IF s.state \in LatchedStates THEN LatchedBy(s, t)
            ELSE /\ t \in Supervisor /\ WellFormed(t) /\ t.state = "DISARMED"
                 /\ ~t.disarmRequested /\ t.manualOverrideUntilMs = 0
<1>1. DisarmRequested(s) \in Supervisor
  BY DisarmRequestedType
<1>2. QED
  BY <1>1 DEF DisarmRequested, LatchedBy, WellFormed, Supervisor, LatchedStates

\* requestDrive()
LEMMA DriveRequestedEffect ==
  ASSUME NEW s \in Supervisor, WellFormed(s),
         NEW forward \in BOOLEAN, NEW autonomous \in BOOLEAN
  PROVE  LET t == DriveRequested(s, forward, autonomous, Now)
         IN /\ t = s \/ LatchedBy(s, t) \/ Overriding(s, t)
            /\ DriveGranted(s, forward, autonomous, Now) =>
                 /\ s.state = "ARMED"
                 /\ IF autonomous THEN t = s ELSE Overriding(s, t)
<1> DEFINE fault == FaultForDrive(s.inputs, forward, autonomous, Now)
           t == DriveRequested(s, forward, autonomous, Now)
           g == [s EXCEPT !.manualOverrideUntilMs =
                            (Now + ManualOverrideMs) % ClockModulus]
<1>1. Overriding(s, g)
  <2>1. (Now + ManualOverrideMs) % ClockModulus = ManualOverrideMs
    BY PolicyAssumption, FrozenClockAssumption DEF Now
  <2>2. ManualOverrideMs \in Clock
    BY PolicyAssumption, FrozenClockAssumption DEF Clock
  <2>3. QED
    BY <2>1, <2>2 DEF Overriding, WellFormed, Supervisor
<1>2. fault # "NONE" => LatchedBy(s, LatchFault(s, fault))
  BY FaultForDriveType, LatchFaultEffect
<1>3. t = s \/ LatchedBy(s, t) \/ t = g
  BY <1>2 DEF DriveRequested
<1>4. ASSUME DriveGranted(s, forward, autonomous, Now)
      PROVE  /\ s.state = "ARMED"
             /\ IF autonomous THEN t = s ELSE t = g
  BY <1>4 DEF DriveGranted, DriveRequested
<1>5. QED
  BY <1>1, <1>3, <1>4

\* requestAutonomy()
LEMMA AutonomyRequestedEffect ==
  ASSUME NEW s \in Supervisor, WellFormed(s), NEW flag \in BOOLEAN
  PROVE  LET t == AutonomyRequested(s, flag, Now)
         IN /\ SameState(s, t) \/ LatchedBy(s, t)
            /\ AutonomyGranted(s, flag, Now) =>
                 SameState(s, t) /\ (flag => s.state = "ARMED")
<1> DEFINE fault == FaultForAutonomy(s.inputs, Now)
<1>1. SameState(s, s) /\ SameState(s, [s EXCEPT !.autonomyEnabled = FALSE])
  BY DEF SameState, WellFormed, Supervisor
<1>2. s.state = "ARMED" => SameState(s, [s EXCEPT !.autonomyEnabled = TRUE])
  BY DEF SameState, WellFormed, Supervisor
<1>3. fault # "NONE" => LatchedBy(s, LatchFault(s, fault))
  BY FaultForAutonomyType, LatchFaultEffect
<1>4. QED
  BY <1>1, <1>2, <1>3 DEF AutonomyRequested, AutonomyGranted

\* emergencyStop(), physicalEstop()
LEMMA StoppedEffect ==
  ASSUME NEW s \in Supervisor, WellFormed(s), NEW fault \in SafetyFault
  PROVE  /\ LatchedBy(s, EmergencyStopped(s, fault))
         /\ LatchedBy(s, PhysicallyStopped(s))
<1>1. LatchedBy(s, EmergencyStopped(s, fault))
  BY LatchFaultEffect DEF EmergencyStopped, SafetyFault
<1>2. PhysicallyStopped(s) \in Supervisor
  BY StoppedType
<1>3. LatchedBy(s, PhysicallyStopped(s))
  BY <1>2 DEF PhysicallyStopped, LatchedBy, WellFormed, Supervisor, LatchedStates
<1>4. QED
  BY <1>1, <1>3

\* clearPhysicalEstop()
LEMMA EstopClearedEffect ==
  ASSUME NEW s \in Supervisor, WellFormed(s), NEW in \in SafetyInputs
  PROVE  LET t == EstopCleared(s, in)
         IN IF EstopClearable(s, in)
            THEN /\ t \in Supervisor /\ WellFormed(t) /\ t.state = "DISARMED"
                 /\ ~t.disarmRequested
                 /\ t.manualOverrideUntilMs = s.manualOverrideUntilMs
            ELSE SameState(s, t)
<1> DEFINE u == [s EXCEPT !.inputs = in]
<1>1. /\ u \in Supervisor /\ WellFormed(u) /\ u.state = s.state
      /\ u.manualOverrideUntilMs = s.manualOverrideUntilMs
      /\ SameState(s, u)
  BY NewInputsEffect
<1>2. EstopClearable(u, in) = EstopClearable(s, in)
  BY <1>1 DEF EstopClearable
<1>3. EstopCleared(s, in) \in Supervisor
  BY EstopClearedType
<1>4. CASE EstopClearable(s, in)
  <2>1. EstopCleared(s, in) =
          [u EXCEPT !.state = "DISARMED", !.fault = "NONE",
                    !.disarmRequested = FALSE]
    BY <1>2, <1>4 DEF EstopCleared
  <2>2. ~u.autonomyEnabled
    BY <1>1, <1>4 DEF WellFormed, EstopClearable
  <2>3. QED
    BY <1>1, <1>3, <1>4, <2>1, <2>2 DEF WellFormed, Supervisor
<1>5. CASE ~EstopClearable(s, in)
  BY <1>1, <1>2, <1>5 DEF EstopCleared
<1>6. QED
  BY <1>4, <1>5

\* completeBoot()
LEMMA BootCompletedEffect ==
  ASSUME NEW s \in Supervisor, WellFormed(s), s.state = "BOOT",
         NEW in \in SafetyInputs
  PROVE  LET t == BootCompleted(s, in)
         IN \/ LatchedBy(s, t)
            \/ /\ t \in Supervisor /\ WellFormed(t) /\ t.state = "DISARMED"
               /\ ~t.disarmRequested
               /\ t.manualOverrideUntilMs = s.manualOverrideUntilMs
<1> DEFINE stamped == [in EXCEPT !.bootComplete = TRUE]
           u == [s EXCEPT !.inputs = stamped]
           t == BootCompleted(s, in)
<1>1. stamped \in SafetyInputs
  BY DEF SafetyInputs
<1>2. /\ u \in Supervisor /\ WellFormed(u) /\ u.state = s.state
      /\ u.disarmRequested = s.disarmRequested
      /\ u.manualOverrideUntilMs = s.manualOverrideUntilMs
      /\ \A v : LatchedBy(u, v) => LatchedBy(s, v)
  BY <1>1, NewInputsEffect
<1>3. ~u.autonomyEnabled /\ ~u.disarmRequested
  BY <1>2 DEF WellFormed, LatchedStates
<1>4. t \in Supervisor
  BY BootCompletedType
<1>5. CASE u.restoredState \in LatchedStates
  BY <1>2, <1>3, <1>4, <1>5
  DEF BootCompleted, LatchedBy, WellFormed, Supervisor, LatchedStates
<1>6. CASE u.restoredState \notin LatchedStates /\ FaultForArm(u) # "NONE"
  <2>1. t = LatchFault(u, FaultForArm(u))
    BY <1>6 DEF BootCompleted, LatchedStates
  <2>2. QED
    BY <1>2, <1>6, <2>1, FaultForArmType, LatchFaultEffect
<1>7. CASE u.restoredState \notin LatchedStates /\ FaultForArm(u) = "NONE"
  <2>1. t = [u EXCEPT !.state = "DISARMED", !.fault = "NONE"]
    BY <1>7 DEF BootCompleted, LatchedStates
  <2>2. QED
    BY <1>2, <1>3, <1>4, <2>1 DEF WellFormed, Supervisor
<1>8. QED
  BY <1>5, <1>6, <1>7

-----------------------------------------------------------------------------
(* The parts of the handlers.  Each lemma says which fields an operator      *)
(* leaves alone and what it makes of the others.                             *)

\* The inputs that the router builds are inputs (buildSafetyInputs).
LEMMA InputsOfRobot ==
  ASSUME NEW r \in Robot
  PROVE  Inputs(r) \in SafetyInputs
<1>1. FreshSampleMs \in Clock
  BY PolicyAssumption, FrozenClockAssumption DEF FreshSampleMs, Clock
<1>2. QED
  BY <1>1 DEF Inputs, SafetyInputs, Robot, Drive, BlocksForward

\* Only the supervisor has changed.
WithSupervisor(r, t) == [r EXCEPT !.sup = t]

SupervisorOnly(r, u) ==
  /\ u \in Robot
  /\ u.booted = r.booted /\ u.drive = r.drive
  /\ u.saved = r.saved /\ u.action = r.action
  /\ u.limbs = r.limbs /\ u.accessory = r.accessory
  /\ u.obstacle = r.obstacle /\ u.imu = r.imu
  /\ u.diagnostics = r.diagnostics /\ u.autonomy = r.autonomy

LEMMA WithSupervisorEffect ==
  ASSUME NEW r \in Robot, NEW t \in Supervisor
  PROVE  SupervisorOnly(r, WithSupervisor(r, t)) /\ WithSupervisor(r, t).sup = t
BY DEF WithSupervisor, SupervisorOnly, Robot

\* cancel() of RobotActions.
LEMMA CancelActionEffect ==
  ASSUME NEW r \in Robot, NEW stopDrive \in BOOLEAN, NEW rest \in BOOLEAN
  PROVE  LET t == CancelAction(r, stopDrive, rest)
         IN /\ t \in Robot
            /\ t.sup = r.sup /\ t.booted = r.booted /\ t.saved = r.saved
            /\ t.obstacle = r.obstacle /\ t.imu = r.imu
            /\ t.diagnostics = r.diagnostics /\ t.autonomy = r.autonomy
            /\ t.drive.connected => r.drive.connected
            /\ t.drive.armed = r.drive.armed
            /\ IF stopDrive THEN AtRest(t) ELSE t.drive = r.drive
            /\ t.action = "NONE"
<1> DEFINE w == IF stopDrive THEN StopWheels(r) ELSE r
<1>1. /\ w \in Robot
      /\ w.sup = r.sup /\ w.booted = r.booted /\ w.saved = r.saved
      /\ w.obstacle = r.obstacle /\ w.imu = r.imu
      /\ w.diagnostics = r.diagnostics /\ w.autonomy = r.autonomy
      /\ w.drive.connected => r.drive.connected
      /\ w.drive.armed = r.drive.armed
      /\ IF stopDrive THEN AtRest(w) ELSE w.drive = r.drive
  BY StopWheelsEffect DEF DriveOnly
<1>2. CancelAction(r, stopDrive, rest) =
        [w EXCEPT !.action = "NONE",
                  !.limbs = IF rest THEN "moving" ELSE "still"]
  BY DEF CancelAction
<1> HIDE DEF w
<1>3. QED
  BY <1>1, <1>2 DEF Robot, ActionId, AtRest

\* What stopAll() and disarmMotors() have in common.
HaltedBy(r, t) ==
  /\ t \in Robot
  /\ t.sup = r.sup /\ t.booted = r.booted
  /\ t.obstacle = r.obstacle /\ t.imu = r.imu
  /\ t.diagnostics = r.diagnostics /\ t.autonomy = r.autonomy
  /\ t.drive.connected => r.drive.connected
  /\ AtRest(t)
  /\ t.saved = "STOPPED" /\ t.action = "NONE"

\* Forgetting the remembered command.
WithoutSaved(r) == [r EXCEPT !.saved = "STOPPED"]

LEMMA WithoutSavedEffect ==
  ASSUME NEW r \in Robot
  PROVE  LET t == WithoutSaved(r)
         IN /\ t \in Robot
            /\ t.sup = r.sup /\ t.booted = r.booted /\ t.drive = r.drive
            /\ t.action = r.action /\ t.obstacle = r.obstacle /\ t.imu = r.imu
            /\ t.diagnostics = r.diagnostics /\ t.autonomy = r.autonomy
            /\ t.saved = "STOPPED"
BY DEF WithoutSaved, Robot, DriveMode

LEMMA StopAllEffect ==
  ASSUME NEW r \in Robot
  PROVE  LET t == StopAll(r)
         IN HaltedBy(r, t) /\ t.drive.armed = r.drive.armed
<1> DEFINE f == WithoutSaved(r)
           c == CancelAction(f, TRUE, MayMoveManipulators(r.sup))
<1>1. MayMoveManipulators(r.sup) \in BOOLEAN
  BY DEF MayMoveManipulators
<1>2. /\ f \in Robot
      /\ f.sup = r.sup /\ f.booted = r.booted /\ f.drive = r.drive
      /\ f.obstacle = r.obstacle /\ f.imu = r.imu
      /\ f.diagnostics = r.diagnostics /\ f.autonomy = r.autonomy
      /\ f.saved = "STOPPED"
  BY WithoutSavedEffect
<1>3. HaltedBy(r, c)
  BY <1>1, <1>2, CancelActionEffect DEF HaltedBy
<1>4. c.drive.armed = r.drive.armed
  <2>1. c.drive.armed = f.drive.armed
    <3> HIDE DEF f
    <3>1. QED
      BY <1>1, <1>2, CancelActionEffect, Zenon
  <2>2. QED
    BY <1>2, <2>1
<1>5. StopAll(r) = StopWheels(c)
  BY DEF StopAll, WithoutSaved
<1> HIDE DEF c
<1>6. LET t == StopWheels(c)
      IN DriveOnly(c, t) /\ AtRest(t) /\ t.drive.armed = c.drive.armed
  BY <1>3, StopWheelsEffect DEF HaltedBy
<1>7. QED
  BY <1>3, <1>4, <1>5, <1>6 DEF HaltedBy, DriveOnly

LEMMA DisarmMotorsEffect ==
  ASSUME NEW r \in Robot
  PROVE  LET t == DisarmMotors(r) IN HaltedBy(r, t) /\ ~t.drive.armed
<1> DEFINE f == WithoutSaved(r)
           c == CancelAction(f, TRUE, MayMoveManipulators(r.sup))
<1>1. MayMoveManipulators(r.sup) \in BOOLEAN
  BY DEF MayMoveManipulators
<1>2. /\ f \in Robot
      /\ f.sup = r.sup /\ f.booted = r.booted /\ f.drive = r.drive
      /\ f.obstacle = r.obstacle /\ f.imu = r.imu
      /\ f.diagnostics = r.diagnostics /\ f.autonomy = r.autonomy
      /\ f.saved = "STOPPED"
  BY WithoutSavedEffect
<1>3. HaltedBy(r, c)
  BY <1>1, <1>2, CancelActionEffect DEF HaltedBy
<1>4. DisarmMotors(r) = DisarmWheels(c)
  BY DEF DisarmMotors, WithoutSaved
<1> HIDE DEF c
<1>5. LET t == DisarmWheels(c)
      IN DriveOnly(c, t) /\ AtRest(t) /\ ~t.drive.armed
  BY <1>3, DisarmWheelsEffect DEF HaltedBy
<1>6. QED
  BY <1>3, <1>4, <1>5 DEF HaltedBy, DriveOnly

\* lock() of the bench diagnostics; a wheel test that is remembered is stopped.
LEMMA LockDiagnosticsEffect ==
  ASSUME NEW r \in Robot
  PROVE  LET t == LockDiagnostics(r)
         IN /\ t \in Robot
            /\ t.sup = r.sup /\ t.booted = r.booted /\ t.saved = r.saved
            /\ t.action = r.action /\ t.obstacle = r.obstacle
            /\ t.autonomy = r.autonomy
            /\ t.drive.connected = r.drive.connected
            /\ t.drive.armed = r.drive.armed /\ t.drive.mode = r.drive.mode
            /\ ~t.diagnostics.unlocked
            /\ t.drive.spin \subseteq r.drive.spin
            /\ r.diagnostics.testingWheel /\ r.drive.connected =>
                 "test" \notin t.drive.spin
BY DEF LockDiagnostics, StopTest, Robot, Drive

\* setAutonomyEnabled(false)
LEMMA DisableAutonomyEffect ==
  ASSUME NEW r \in Robot
  PROVE  LET t == DisableAutonomy(r)
         IN /\ t \in Robot
            /\ t.sup = r.sup /\ t.booted = r.booted /\ t.drive = r.drive
            /\ t.saved = r.saved /\ t.action = r.action
            /\ t.obstacle = r.obstacle /\ t.diagnostics = r.diagnostics
            /\ ~t.autonomy.enabled /\ t.autonomy.state = "IDLE"
BY DEF DisableAutonomy, Robot, AutonomyState

-----------------------------------------------------------------------------
(* What keeps a robot in order. *)

\* A halt does, whatever was remembered before.
LEMMA HaltKeeps ==
  ASSUME NEW r, NEW t, Sound(r), HaltedBy(r, t), t.drive.armed = r.drive.armed
  PROVE  RobotOK(t)
BY DEF RobotOK, Sound, HaltedBy, AtRest, SupervisorOK, StillWhenLatched, Still, Agrees,
       Supervised, Unblocked, Forgotten

\* A halt that disarms makes one of a robot whose supervisor does not believe it
\* armed, if autonomy and bench are off as far as they have to be.
LEMMA DisarmingHalt ==
  ASSUME NEW r \in Robot, NEW t, SupervisorOK(r), r.sup.state # "ARMED",
         r.sup.state \in {"BOOT"} \cup LatchedStates /\ ~r.sup.disarmRequested =>
           ~r.diagnostics.unlocked /\ ~r.autonomy.enabled,
         HaltedBy(r, t), ~t.drive.armed
  PROVE  RobotOK(t)
BY DEF RobotOK, Sound, HaltedBy, AtRest, SupervisorOK, StillWhenLatched, Still,
       Agrees, Supervised, Unblocked, Forgotten

\* An incident does: it only asks for the disarming that will follow.
LEMMA IncidentKeeps ==
  ASSUME NEW r, NEW u, Sound(r), r.booted, SupervisorOnly(r, u),
         LatchedBy(r.sup, u.sup)
  PROVE  RobotOK(u)
BY DEF RobotOK, Sound, SupervisorOnly, LatchedBy, SupervisorOK, StillWhenLatched, Still,
       Agrees, Supervised, Unblocked, BlocksForward, Forgotten, LatchedStates

\* So does a call that changes no state of the supervisor.
LEMMA SameStateKeeps ==
  ASSUME NEW r, NEW u, Sound(r), SupervisorOnly(r, u), SameState(r.sup, u.sup)
  PROVE  Sound(u) /\ (Forgotten(r) => Forgotten(u))
BY DEF Sound, SupervisorOnly, SameState, SupervisorOK, StillWhenLatched, Still,
       Agrees, Supervised, Unblocked, BlocksForward, Forgotten

\* And the beginning of an override.
LEMMA OverrideKeeps ==
  ASSUME NEW r, NEW u, Sound(r), r.booted, SupervisorOnly(r, u),
         Overriding(r.sup, u.sup)
  PROVE  RobotOK(u)
<1>1. ManualOverrideMs # 0
  BY PolicyAssumption, FrozenClockAssumption
<1>2. QED
  BY <1>1 DEF RobotOK, Sound, SupervisorOnly, Overriding, SupervisorOK, StillWhenLatched,
     Still, Agrees, Supervised, Unblocked, BlocksForward, Forgotten

\* So do wheels that are stopped, or disarmed because they cannot be reached:
\* that alone answers for what turned and for what drove forward.
LEMMA WheelsStoppedKeep ==
  ASSUME NEW r, NEW t, SupervisorOK(r), StillWhenLatched(r), Agrees(r), Forgotten(r),
         DriveOnly(r, t), AtRest(t),
         \/ t.drive.armed = r.drive.armed
         \/ ~t.drive.armed /\ ~r.drive.connected
  PROVE  RobotOK(t)
BY DEF RobotOK, Sound, DriveOnly, AtRest, SupervisorOK, StillWhenLatched, Still,
       Agrees, Supervised, Unblocked, Forgotten

-----------------------------------------------------------------------------
(* The handlers of ControlRouter and RobotAPI. *)

\* Clearing the disarm request.
WithoutRequest(r) == [r EXCEPT !.sup.disarmRequested = FALSE]

LEMMA WithoutRequestEffect ==
  ASSUME NEW r \in Robot, SupervisorOK(r)
  PROVE  LET u == WithoutRequest(r)
         IN /\ SupervisorOnly(r, u) /\ SupervisorOK(u)
            /\ u.sup.state = r.sup.state /\ ~u.sup.disarmRequested
            /\ u.sup.manualOverrideUntilMs = r.sup.manualOverrideUntilMs
BY DEF WithoutRequest, SupervisorOnly, SupervisorOK, WellFormed, Robot, Supervisor

\* What ServiceDisarm and ShutDown have in common before they halt the robot.
LEMMA LockedAndDisabled ==
  ASSUME NEW r \in Robot
  PROVE  LET t == LockDiagnostics(DisableAutonomy(r))
         IN /\ t \in Robot /\ t.sup = r.sup /\ t.booted = r.booted
            /\ t.drive.connected => r.drive.connected
            /\ ~t.diagnostics.unlocked /\ ~t.autonomy.enabled
            /\ t.autonomy.state = "IDLE"
<1> DEFINE d == DisableAutonomy(r)
<1>1. /\ d \in Robot /\ d.sup = r.sup /\ d.booted = r.booted /\ d.drive = r.drive
      /\ ~d.autonomy.enabled /\ d.autonomy.state = "IDLE"
  BY DisableAutonomyEffect
<1> HIDE DEF d
<1>2. LET t == LockDiagnostics(d)
      IN /\ t \in Robot /\ t.sup = d.sup /\ t.booted = d.booted
         /\ t.drive.connected = d.drive.connected
         /\ ~t.diagnostics.unlocked /\ t.autonomy = d.autonomy
  BY <1>1, LockDiagnosticsEffect
<1>3. QED
  BY <1>1, <1>2 DEF d

\* The end of updateSafety(): a request that is serviced leaves a latched robot
\* still.
LEMMA ServiceDisarmKeeps ==
  ASSUME NEW r \in Robot, SupervisorOK(r), r.sup.disarmRequested
  PROVE  LET t == ServiceDisarm(r)
         IN /\ RobotOK(t) /\ t.booted = r.booted /\ ~t.sup.disarmRequested
            /\ t.autonomy.state = "IDLE"
<1> DEFINE u == WithoutRequest(r)
           l == LockDiagnostics(DisableAutonomy(u))
           t == DisarmMotors(l)
<1>1. /\ u \in Robot /\ SupervisorOK(u) /\ u.booted = r.booted
      /\ u.sup.state = r.sup.state /\ ~u.sup.disarmRequested
  BY WithoutRequestEffect DEF SupervisorOnly
<1>2. ServiceDisarm(r) = t
  BY DEF ServiceDisarm, WithoutRequest
<1>3. r.sup.state \in LatchedStates
  BY DEF SupervisorOK, WellFormed
<1> HIDE DEF u
<1>4. /\ l \in Robot /\ l.sup = u.sup /\ l.booted = u.booted
      /\ ~l.diagnostics.unlocked /\ ~l.autonomy.enabled
      /\ l.autonomy.state = "IDLE"
  BY <1>1, LockedAndDisabled
<1> HIDE DEF l
<1>5. HaltedBy(l, t) /\ ~t.drive.armed
  BY <1>4, DisarmMotorsEffect
<1> HIDE DEF t
<1>6. SupervisorOK(l) /\ l.sup.state # "ARMED"
  BY <1>1, <1>3, <1>4 DEF SupervisorOK, LatchedStates
<1>7. RobotOK(t)
  BY <1>4, <1>5, <1>6, DisarmingHalt
<1>8. QED
  BY <1>1, <1>2, <1>4, <1>5, <1>7 DEF HaltedBy

\* updateSafety() keeps a robot in order and leaves no request unserviced; it
\* disables the autonomy or leaves it as it is.
UpdateSafetyEffect(r, t) ==
  /\ Sound(t) /\ (Forgotten(r) => Forgotten(t))
  /\ t.booted = r.booted /\ ~t.sup.disarmRequested
  /\ t.autonomy.state \in {"IDLE", r.autonomy.state}

LEMMA UpdateSafetyKeeps ==
  ASSUME NEW r, Sound(r)
  PROVE  UpdateSafetyEffect(r, UpdateSafety(r))
<1> DEFINE v == Updated(r.sup, Inputs(r), Now)
           u == WithSupervisor(r, v)
<1>1. r \in Robot /\ SupervisorOK(r) /\ r.sup \in Supervisor /\ WellFormed(r.sup)
  BY DEF Sound, SupervisorOK, Robot
<1>2. CASE ~r.booted
  <2>1. ~r.sup.disarmRequested
    BY <1>1, <1>2 DEF SupervisorOK, WellFormed, LatchedStates
  <2>2. QED
    BY <1>2, <2>1 DEF UpdateSafety, UpdateSafetyEffect
<1>3. CASE r.booted
  <2>1. SameState(r.sup, v) \/ LatchedBy(r.sup, v)
    BY <1>1, UpdatedEffect, InputsOfRobot
  <2>2. v \in Supervisor
    BY <2>1 DEF SameState, LatchedBy
  <2>3. SupervisorOnly(r, u) /\ u.sup = v
    BY <1>1, <2>2, WithSupervisorEffect
  <2>4. UpdateSafety(r) = IF v.disarmRequested THEN ServiceDisarm(u) ELSE u
    BY <1>3, <2>3 DEF UpdateSafety, WithSupervisor
  <2> HIDE DEF u, v
  <2>5. CASE v.disarmRequested
    <3>1. u \in Robot /\ u.booted = r.booted
      BY <2>3 DEF SupervisorOnly
    <3>2. SupervisorOK(u)
      BY <1>1, <1>3, <2>1, <2>3, <3>1
      DEF SupervisorOK, SameState, LatchedBy, LatchedStates
    <3>3. LET t == ServiceDisarm(u)
          IN /\ RobotOK(t) /\ t.booted = u.booted /\ ~t.sup.disarmRequested
             /\ t.autonomy.state = "IDLE"
      BY <2>3, <2>5, <3>1, <3>2, ServiceDisarmKeeps
    <3>4. QED
      BY <2>4, <2>5, <3>1, <3>3 DEF UpdateSafetyEffect, RobotOK
  <2>6. CASE ~v.disarmRequested
    <3>1. SameState(r.sup, u.sup)
      BY <2>1, <2>3, <2>6 DEF LatchedBy
    <3>2. QED
      BY <2>3, <2>4, <2>6, <3>1, SameStateKeeps
      DEF UpdateSafetyEffect, SupervisorOnly
  <2>7. QED
    BY <2>5, <2>6
<1>4. QED
  BY <1>2, <1>3

\* emergencyStop() and physicalEmergencyStop() after the supervisor's part.
LEMMA ShutDownKeeps ==
  ASSUME NEW r \in Robot, SupervisorOK(r), r.sup.state # "ARMED"
  PROVE  LET t == ShutDown(r) IN RobotOK(t) /\ t.booted = r.booted
<1> DEFINE l == LockDiagnostics(DisableAutonomy(r))
           h == StopAll(l)
           t == DisarmMotors(h)
<1>1. /\ l \in Robot /\ l.sup = r.sup /\ l.booted = r.booted
      /\ ~l.diagnostics.unlocked /\ ~l.autonomy.enabled
  BY LockedAndDisabled
<1>2. ShutDown(r) = t
  BY DEF ShutDown
<1> HIDE DEF l
<1>3. HaltedBy(l, h)
  BY <1>1, StopAllEffect
<1> HIDE DEF h
<1>4. /\ h \in Robot /\ h.sup = r.sup /\ h.booted = r.booted
      /\ ~h.diagnostics.unlocked /\ ~h.autonomy.enabled
  BY <1>1, <1>3 DEF HaltedBy
<1>5. HaltedBy(h, t) /\ ~t.drive.armed
  BY <1>4, DisarmMotorsEffect
<1> HIDE DEF t
<1>6. SupervisorOK(h) /\ h.sup.state # "ARMED"
  BY <1>4 DEF SupervisorOK
<1>7. RobotOK(t)
  BY <1>4, <1>5, <1>6, DisarmingHalt
<1>8. QED
  BY <1>2, <1>4, <1>5, <1>7 DEF HaltedBy

\* A latched supervisor in the robot.
LEMMA LatchedRobot ==
  ASSUME NEW r \in Robot, SupervisorOK(r), r.booted, NEW v, LatchedBy(r.sup, v)
  PROVE  LET u == WithSupervisor(r, v)
         IN SupervisorOnly(r, u) /\ SupervisorOK(u) /\ u.sup = v
<1>1. SupervisorOnly(r, WithSupervisor(r, v)) /\ WithSupervisor(r, v).sup = v
  BY WithSupervisorEffect DEF LatchedBy
<1>2. QED
  BY <1>1 DEF SupervisorOnly, SupervisorOK, LatchedBy, LatchedStates

LEMMA EmergencyStopKeeps ==
  ASSUME NEW r, RobotOK(r), r.booted, NEW fault \in SafetyFault
  PROVE  LET t == EmergencyStop(r, fault) IN RobotOK(t) /\ t.booted
<1> DEFINE v == EmergencyStopped(r.sup, fault)
           u == WithSupervisor(r, v)
<1>1. r \in Robot /\ SupervisorOK(r) /\ r.sup \in Supervisor /\ WellFormed(r.sup)
  BY DEF RobotOK, Sound, SupervisorOK, Robot
<1>2. LatchedBy(r.sup, v)
  BY <1>1, StoppedEffect
<1>3. SupervisorOnly(r, u) /\ SupervisorOK(u) /\ u.sup = v
  BY <1>1, <1>2, LatchedRobot
<1>4. EmergencyStop(r, fault) = ShutDown(u)
  BY DEF EmergencyStop, WithSupervisor
<1> HIDE DEF u
<1>5. u \in Robot /\ u.booted /\ u.sup.state # "ARMED"
  BY <1>2, <1>3 DEF SupervisorOnly, LatchedBy, LatchedStates
<1>6. QED
  BY <1>3, <1>4, <1>5, ShutDownKeeps

LEMMA PhysicalEmergencyStopKeeps ==
  ASSUME NEW r, RobotOK(r), r.booted
  PROVE  LET t == PhysicalEmergencyStop(r) IN RobotOK(t) /\ t.booted
<1> DEFINE v == PhysicallyStopped(r.sup)
           u == WithSupervisor(r, v)
<1>1. r \in Robot /\ SupervisorOK(r) /\ r.sup \in Supervisor /\ WellFormed(r.sup)
  BY DEF RobotOK, Sound, SupervisorOK, Robot
<1>2. LatchedBy(r.sup, v)
  BY <1>1, StoppedEffect DEF SafetyFault
<1>3. SupervisorOnly(r, u) /\ SupervisorOK(u) /\ u.sup = v
  BY <1>1, <1>2, LatchedRobot
<1>4. PhysicalEmergencyStop(r) = ShutDown(u)
  BY DEF PhysicalEmergencyStop, WithSupervisor
<1> HIDE DEF u
<1>5. u \in Robot /\ u.booted /\ u.sup.state # "ARMED"
  BY <1>2, <1>3 DEF SupervisorOnly, LatchedBy, LatchedStates
<1>6. QED
  BY <1>3, <1>4, <1>5, ShutDownKeeps

\* The reset chord: a stop that may be cleared ends in a robot that is halted.
LEMMA ClearPhysicalEmergencyStopKeeps ==
  ASSUME NEW r, RobotOK(r), r.booted
  PROVE  LET t == ClearPhysicalEmergencyStop(r) IN RobotOK(t) /\ t.booted
<1> DEFINE v == EstopCleared(r.sup, Inputs(r))
           c == WithSupervisor(r, v)
<1>1. r \in Robot /\ SupervisorOK(r) /\ r.sup \in Supervisor /\ WellFormed(r.sup)
  BY DEF RobotOK, Sound, SupervisorOK, Robot
<1>2. Inputs(r) \in SafetyInputs
  BY <1>1, InputsOfRobot
<1>3. CASE EstopClearable(r.sup, Inputs(r))
  <2>1. /\ v \in Supervisor /\ WellFormed(v) /\ v.state = "DISARMED"
        /\ ~v.disarmRequested
        /\ v.manualOverrideUntilMs = r.sup.manualOverrideUntilMs
    BY <1>1, <1>2, <1>3, EstopClearedEffect
  <2>2. SupervisorOnly(r, c) /\ c.sup = v
    BY <1>1, <2>1, WithSupervisorEffect
  <2>3. ClearPhysicalEmergencyStop(r) = DisarmMotors(c)
    BY <1>3 DEF ClearPhysicalEmergencyStop, WithSupervisor
  <2> HIDE DEF c, v
  <2>4. c \in Robot /\ c.booted /\ SupervisorOK(c) /\ c.sup.state = "DISARMED"
    BY <1>1, <2>1, <2>2 DEF SupervisorOnly, SupervisorOK
  <2>5. HaltedBy(c, DisarmMotors(c)) /\ ~DisarmMotors(c).drive.armed
    BY <2>4, DisarmMotorsEffect
  <2>6. RobotOK(DisarmMotors(c))
    BY <2>4, <2>5, DisarmingHalt DEF LatchedStates
  <2>7. QED
    BY <2>3, <2>4, <2>5, <2>6 DEF HaltedBy
<1>4. CASE ~EstopClearable(r.sup, Inputs(r))
  <2>1. SameState(r.sup, v)
    BY <1>1, <1>2, <1>4, EstopClearedEffect
  <2>2. SupervisorOnly(r, c) /\ c.sup = v
    BY <1>1, <2>1, WithSupervisorEffect DEF SameState
  <2>3. ClearPhysicalEmergencyStop(r) = c
    BY <1>4 DEF ClearPhysicalEmergencyStop, WithSupervisor
  <2> HIDE DEF c, v
  <2>4. QED
    BY <2>1, <2>2, <2>3, SameStateKeeps DEF RobotOK, SupervisorOnly
<1>5. QED
  BY <1>3, <1>4

\* completeBoot(): before it everything is still, so that it may leave
\* everything as it is.
WithBoot(r) == [r EXCEPT !.booted = TRUE]

LEMMA RouterCompleteBootKeeps ==
  ASSUME NEW r0, RobotOK(r0), ~r0.booted
  PROVE  LET t == RouterCompleteBoot(r0) IN RobotOK(t) /\ t.booted
<1> DEFINE r == WithBoot(r0)
           v == BootCompleted(r.sup, Inputs(r))
           c == WithSupervisor(r, v)
<1>1. /\ r0 \in Robot /\ r0.sup \in Supervisor /\ WellFormed(r0.sup)
      /\ r0.sup.state = "BOOT" /\ SupervisorOK(r0)
  BY DEF RobotOK, Sound, SupervisorOK, Robot
<1>2. ~r0.sup.disarmRequested /\ Still(r0) /\ Forgotten(r0)
  BY <1>1 DEF RobotOK, Sound, WellFormed, LatchedStates, StillWhenLatched
<1>3. /\ r \in Robot /\ r.sup = r0.sup /\ r.booted /\ r.drive = r0.drive
      /\ r.saved = r0.saved /\ r.action = r0.action /\ r.obstacle = r0.obstacle
      /\ r.diagnostics = r0.diagnostics /\ r.autonomy = r0.autonomy
  BY <1>1 DEF WithBoot, Robot
<1>4. RouterCompleteBoot(r0) = IF c.sup.disarmRequested
                               THEN DisarmMotors(WithoutRequest(c)) ELSE c
  BY DEF RouterCompleteBoot, WithBoot, WithSupervisor, WithoutRequest
<1> HIDE DEF r
<1>5. \/ LatchedBy(r0.sup, v)
      \/ /\ v \in Supervisor /\ WellFormed(v) /\ v.state = "DISARMED"
         /\ ~v.disarmRequested
         /\ v.manualOverrideUntilMs = r0.sup.manualOverrideUntilMs
  <2>1. Inputs(r) \in SafetyInputs
    BY <1>3, InputsOfRobot
  <2>2. QED
    BY <1>1, <1>3, <2>1, BootCompletedEffect
<1>6. SupervisorOnly(r, c) /\ c.sup = v
  BY <1>3, <1>5, WithSupervisorEffect DEF LatchedBy
<1> HIDE DEF c, v
<1>7. /\ c \in Robot /\ c.booted /\ SupervisorOK(c) /\ c.sup.state # "ARMED"
      /\ ~c.diagnostics.unlocked /\ ~c.autonomy.enabled
  BY <1>1, <1>2, <1>3, <1>5, <1>6
  DEF SupervisorOnly, SupervisorOK, LatchedBy, LatchedStates, Still
<1>8. CASE c.sup.disarmRequested
  <2> DEFINE u == WithoutRequest(c)
  <2>1. /\ u \in Robot /\ u.booted /\ SupervisorOK(u) /\ u.sup.state # "ARMED"
        /\ ~u.diagnostics.unlocked /\ ~u.autonomy.enabled
    BY <1>7, WithoutRequestEffect DEF SupervisorOnly
  <2> HIDE DEF u
  <2>2. HaltedBy(u, DisarmMotors(u)) /\ ~DisarmMotors(u).drive.armed
    BY <2>1, DisarmMotorsEffect
  <2>3. RobotOK(DisarmMotors(u))
    BY <2>1, <2>2, DisarmingHalt
  <2>4. QED
    BY <1>4, <1>8, <2>1, <2>2, <2>3 DEF HaltedBy, u
<1>9. CASE ~c.sup.disarmRequested
  <2>1. c.sup.state = "DISARMED"
    BY <1>5, <1>6, <1>9 DEF LatchedBy
  <2>2. Forgotten(c)
    BY <1>1, <1>2, <1>3, <1>5, <1>6, <1>9
    DEF Forgotten, SupervisorOnly, LatchedBy, SupervisorOK
  <2>3. Still(c)
    BY <1>2, <1>3, <1>6 DEF Still, SupervisorOnly
  <2>4. RobotOK(c)
    BY <1>7, <2>1, <2>2, <2>3
    DEF RobotOK, Sound, Still, StillWhenLatched, Agrees, Supervised, Unblocked
  <2>5. QED
    BY <1>4, <1>7, <1>9, <2>4
<1>10. QED
  BY <1>8, <1>9

\* An ARM command.
LEMMA ArmMotorsKeeps ==
  ASSUME NEW r, RobotOK(r), r.booted, ~r.sup.disarmRequested,
         NEW u, SupervisorOnly(r, u), u.sup \in Supervisor, WellFormed(u.sup),
         u.sup.state = "ARMED", ~u.sup.disarmRequested,
         u.sup.manualOverrideUntilMs = r.sup.manualOverrideUntilMs
  PROVE  LET t == ArmMotors(u) IN RobotOK(t) /\ t.booted
<1> DEFINE a == ArmWheels(u)
           v == LatchFault(a.sup, "DRIVE_UNAVAILABLE")
           f == WithSupervisor(a, v)
<1>1. u \in Robot /\ SupervisorOK(u) /\ u.booted
  BY DEF SupervisorOnly, SupervisorOK, RobotOK, Sound
<1>2. /\ DriveOnly(u, a)
      /\ a.drive.armed = a.drive.connected /\ a.drive.mode = u.drive.mode
      /\ a.drive.connected => a.drive.spin \in {{}, u.drive.spin}
  BY <1>1, ArmWheelsEffect
<1>3. ArmMotors(u) = IF a.drive.armed THEN a ELSE f
  BY DEF ArmMotors, MayEnableDrive, WithSupervisor
<1> HIDE DEF a
<1>4. a \in Robot /\ a.booted /\ SupervisorOK(a) /\ a.sup = u.sup
  BY <1>1, <1>2 DEF DriveOnly, SupervisorOK
<1>5. Unblocked(a)
  BY <1>2 DEF RobotOK, Sound, Unblocked, BlocksForward, DriveOnly, SupervisorOnly
<1>6. Supervised(a)
  BY <1>2 DEF RobotOK, Sound, Supervised, DriveOnly, SupervisorOnly
<1>7. CASE a.drive.armed
  <2>1. Forgotten(a)
    BY <1>2, <1>4 DEF RobotOK, Forgotten, DriveOnly, SupervisorOnly
  <2>2. Agrees(a) /\ StillWhenLatched(a)
    BY <1>4, <1>7 DEF Agrees, StillWhenLatched, LatchedStates
  <2>3. QED
    BY <1>3, <1>4, <1>5, <1>6, <1>7, <2>1, <2>2 DEF RobotOK, Sound
<1>8. CASE ~a.drive.armed
  <2>1. LatchedBy(a.sup, v)
    BY <1>4, LatchFaultEffect DEF SafetyFault
  <2>2. SupervisorOnly(a, f) /\ SupervisorOK(f) /\ f.sup = v
    BY <1>4, <2>1, LatchedRobot
  <2> HIDE DEF f, v
  <2>3. /\ f \in Robot /\ f.booted /\ f.drive = a.drive
        /\ f.sup.disarmRequested /\ f.sup.state # "ARMED"
    BY <1>4, <2>1, <2>2 DEF SupervisorOnly, LatchedBy, LatchedStates
  <2>4. Unblocked(f)
    BY <1>5, <2>2 DEF Unblocked, BlocksForward, SupervisorOnly
  <2>5. QED
    BY <1>2, <1>3, <1>8, <2>2, <2>3, <2>4
    DEF RobotOK, Sound, StillWhenLatched, Agrees, Supervised, Forgotten
<1>9. QED
  BY <1>7, <1>8

LEMMA ExecuteArmKeeps ==
  ASSUME NEW r0, RobotOK(r0), r0.booted
  PROVE  LET t == ExecuteArm(r0) IN RobotOK(t) /\ t.booted
<1> DEFINE r == UpdateSafety(r0)
           v == ArmRequested(r.sup, Inputs(r))
           u == WithSupervisor(r, v)
<1>1. RobotOK(r) /\ r.booted /\ ~r.sup.disarmRequested
  BY UpdateSafetyKeeps DEF UpdateSafetyEffect, RobotOK
<1>2. ExecuteArm(r0) = IF ArmGranted(r.sup, Inputs(r)) THEN ArmMotors(u)
                       ELSE UpdateSafety(u)
  BY DEF ExecuteArm, WithSupervisor
<1> HIDE DEF r
<1>3. /\ r \in Robot /\ r.sup \in Supervisor /\ WellFormed(r.sup)
      /\ Inputs(r) \in SafetyInputs
  BY <1>1, InputsOfRobot DEF RobotOK, Sound, SupervisorOK, Robot
<1>4. IF ArmGranted(r.sup, Inputs(r))
      THEN /\ v \in Supervisor /\ WellFormed(v) /\ v.state = "ARMED"
           /\ ~v.disarmRequested
           /\ v.manualOverrideUntilMs = r.sup.manualOverrideUntilMs
      ELSE SameState(r.sup, v) \/ LatchedBy(r.sup, v)
  BY <1>3, ArmRequestedEffect
<1>5. SupervisorOnly(r, u) /\ u.sup = v
  BY <1>3, <1>4, WithSupervisorEffect DEF SameState, LatchedBy
<1> HIDE DEF u, v
<1>6. CASE ArmGranted(r.sup, Inputs(r))
  BY <1>1, <1>2, <1>4, <1>5, <1>6, ArmMotorsKeeps
<1>7. CASE ~ArmGranted(r.sup, Inputs(r))
  <2>1. RobotOK(u) /\ u.booted
    BY <1>1, <1>4, <1>5, <1>7, SameStateKeeps, IncidentKeeps
    DEF RobotOK, SupervisorOnly
  <2>2. QED
    BY <1>2, <1>7, <2>1, UpdateSafetyKeeps DEF RobotOK, UpdateSafetyEffect
<1>8. QED
  BY <1>6, <1>7

\* DISARM, and what unlocking the bench does before: a supervisor that disarms
\* and a drive that follows.
LEMMA DisarmingKeeps ==
  ASSUME NEW r, RobotOK(r), r.booted, ~r.sup.disarmRequested,
         NEW u, u \in Robot, u.booted, u.sup = DisarmRequested(r.sup),
         r.sup.state \in LatchedStates =>
           u.diagnostics = r.diagnostics /\ ~u.autonomy.enabled
  PROVE  LET t == DisarmMotors(u)
         IN /\ RobotOK(t) /\ t.booted /\ t.sup = u.sup
<1>1. /\ r \in Robot /\ SupervisorOK(r) /\ r.sup \in Supervisor
      /\ WellFormed(r.sup)
  BY DEF RobotOK, Sound, SupervisorOK, Robot
<1>2. /\ WellFormed(u.sup) /\ u.sup.state \notin {"BOOT", "ARMED"}
      /\ u.sup.manualOverrideUntilMs \in {0, r.sup.manualOverrideUntilMs}
      /\ u.sup.state \in LatchedStates => r.sup.state \in LatchedStates
  BY <1>1, DisarmRequestedEffect DEF LatchedBy, LatchedStates
<1>3. SupervisorOK(u)
  BY <1>1, <1>2 DEF SupervisorOK
<1>4. r.sup.state \in LatchedStates => ~r.diagnostics.unlocked
  BY DEF RobotOK, Sound, StillWhenLatched, Still
<1>5. HaltedBy(u, DisarmMotors(u)) /\ ~DisarmMotors(u).drive.armed
  BY DisarmMotorsEffect
<1>6. RobotOK(DisarmMotors(u))
  BY <1>2, <1>3, <1>4, <1>5, DisarmingHalt
<1>7. QED
  BY <1>5, <1>6 DEF HaltedBy

LEMMA ExecuteDisarmKeeps ==
  ASSUME NEW r0, RobotOK(r0), r0.booted
  PROVE  LET t == ExecuteDisarm(r0) IN RobotOK(t) /\ t.booted
<1> DEFINE r == UpdateSafety(r0)
           v == DisarmRequested(r.sup)
           w == WithSupervisor(r, v)
           u == DisableAutonomy(w)
<1>1. RobotOK(r) /\ r.booted /\ ~r.sup.disarmRequested
  BY UpdateSafetyKeeps DEF UpdateSafetyEffect, RobotOK
<1>2. ExecuteDisarm(r0) = DisarmMotors(u)
  BY DEF ExecuteDisarm, WithSupervisor
<1> HIDE DEF r
<1>3. r \in Robot /\ r.sup \in Supervisor /\ v \in Supervisor
  BY <1>1, DisarmRequestedType DEF RobotOK, Sound, Robot
<1>4. SupervisorOnly(r, w) /\ w.sup = v
  BY <1>3, WithSupervisorEffect
<1> HIDE DEF w
<1>5. /\ u \in Robot /\ u.booted /\ u.sup = v /\ u.diagnostics = r.diagnostics
      /\ ~u.autonomy.enabled
  BY <1>1, <1>4, DisableAutonomyEffect DEF SupervisorOnly
<1> HIDE DEF u
<1>6. QED
  BY <1>1, <1>2, <1>5, DisarmingKeeps

\* SERVO TEST UNLOCK, LOCK and a test of a wheel: none of them is heard before
\* the boot is over or while an incident stands.
Heard(r) == r.sup.state \notin {"BOOT"} \cup LatchedStates

\* What a call of the bench diagnostics may do to a robot that hears it.
BenchOnly(r, t) ==
  /\ t \in Robot
  /\ t.sup = r.sup /\ t.booted = r.booted /\ t.saved = r.saved
  /\ t.action = r.action /\ t.obstacle = r.obstacle /\ t.autonomy = r.autonomy
  /\ t.drive.connected = r.drive.connected
  /\ t.drive.armed = r.drive.armed /\ t.drive.mode = r.drive.mode
  /\ t.drive.spin \subseteq r.drive.spin \cup {"test"}
  /\ t.drive.connected /\ "test" \in t.drive.spin =>
       t.diagnostics.unlocked /\ t.diagnostics.testingWheel

LEMMA BenchKeeps ==
  ASSUME NEW r, RobotOK(r), Heard(r), NEW t, BenchOnly(r, t)
  PROVE  RobotOK(t) /\ t.booted = r.booted
<1>1. SupervisorOK(t) /\ Agrees(t) /\ Unblocked(t) /\ Forgotten(t)
  BY DEF BenchOnly, RobotOK, Sound, SupervisorOK, Agrees, Unblocked, BlocksForward,
         Forgotten
<1>2. Supervised(t)
  BY DEF BenchOnly, RobotOK, Sound, Supervised
<1>3. StillWhenLatched(t)
  BY DEF BenchOnly, StillWhenLatched, Heard
<1>4. QED
  BY <1>1, <1>2, <1>3 DEF BenchOnly, RobotOK, Sound

LEMMA UnlockDiagnosticsKeeps ==
  ASSUME NEW r, RobotOK(r), Heard(r)
  PROVE  LET t == UnlockDiagnostics(r) IN RobotOK(t) /\ t.booted = r.booted
<1> DEFINE t == UnlockDiagnostics(r)
<1>1. r \in Robot /\ Supervised(r)
  BY DEF RobotOK, Sound
<1>2. /\ t \in Robot
      /\ t.sup = r.sup /\ t.booted = r.booted /\ t.saved = r.saved
      /\ t.action = r.action /\ t.obstacle = r.obstacle /\ t.autonomy = r.autonomy
      /\ t.drive = r.drive
      /\ t.diagnostics.testingWheel = r.diagnostics.testingWheel
      /\ r.diagnostics.unlocked => t.diagnostics.unlocked
  BY <1>1 DEF UnlockDiagnostics, Robot
<1> HIDE DEF t
<1>3. BenchOnly(r, t)
  BY <1>1, <1>2 DEF BenchOnly, Supervised
<1>4. QED
  BY <1>3, BenchKeeps DEF t

LEMMA ExecuteUnlockKeeps ==
  ASSUME NEW r0, RobotOK(r0), r0.booted
  PROVE  LET t == ExecuteUnlock(r0) IN RobotOK(t) /\ t.booted
<1> DEFINE r == UpdateSafety(r0)
           v == DisarmRequested(r.sup)
           u == WithSupervisor(r, v)
           d == DisarmMotors(u)
<1>1. RobotOK(r) /\ r.booted /\ ~r.sup.disarmRequested
  BY UpdateSafetyKeeps DEF UpdateSafetyEffect, RobotOK
<1>2. ExecuteUnlock(r0) = IF ~Heard(r) THEN r ELSE UnlockDiagnostics(d)
  BY DEF ExecuteUnlock, WithSupervisor, Heard
<1> HIDE DEF r
<1>3. CASE ~Heard(r)
  BY <1>1, <1>2, <1>3
<1>4. CASE Heard(r)
  <2>1. r \in Robot /\ r.sup \in Supervisor /\ v \in Supervisor /\ WellFormed(r.sup)
    BY <1>1, DisarmRequestedType DEF RobotOK, Sound, SupervisorOK, Robot
  <2>2. SupervisorOnly(r, u) /\ u.sup = v
    BY <2>1, WithSupervisorEffect
  <2> HIDE DEF u
  <2>3. r.sup.state \notin LatchedStates
    BY <1>4 DEF Heard
  <2>4. RobotOK(d) /\ d.booted /\ d.sup = v
    BY <1>1, <2>2, <2>3, DisarmingKeeps DEF SupervisorOnly
  <2> HIDE DEF d
  <2>5. v.state = "DISARMED"
    BY <2>1, <2>3, DisarmRequestedEffect
  <2>6. Heard(d)
    BY <2>4, <2>5 DEF Heard, LatchedStates
  <2>7. QED
    BY <1>2, <1>4, <2>4, <2>6, UnlockDiagnosticsKeeps
<1>5. QED
  BY <1>3, <1>4

LEMMA LockDiagnosticsKeeps ==
  ASSUME NEW r, RobotOK(r)
  PROVE  LET t == LockDiagnostics(r) IN RobotOK(t) /\ t.booted = r.booted
<1> DEFINE t == LockDiagnostics(r)
<1>1. r \in Robot
  BY DEF RobotOK, Sound
<1>2. /\ t \in Robot
      /\ t.sup = r.sup /\ t.booted = r.booted /\ t.saved = r.saved
      /\ t.action = r.action /\ t.obstacle = r.obstacle
      /\ t.autonomy = r.autonomy
      /\ t.drive.connected = r.drive.connected
      /\ t.drive.armed = r.drive.armed /\ t.drive.mode = r.drive.mode
      /\ ~t.diagnostics.unlocked
      /\ t.drive.spin \subseteq r.drive.spin
      /\ r.diagnostics.testingWheel /\ r.drive.connected =>
           "test" \notin t.drive.spin
  BY <1>1, LockDiagnosticsEffect
<1> HIDE DEF t
<1>3. SupervisorOK(t) /\ Agrees(t) /\ Unblocked(t) /\ Forgotten(t)
  BY <1>2 DEF RobotOK, Sound, SupervisorOK, Agrees, Unblocked, BlocksForward,
              Forgotten
<1>4. Supervised(t)
  BY <1>2 DEF RobotOK, Sound, Supervised
<1>5. StillWhenLatched(t)
  BY <1>2 DEF RobotOK, Sound, StillWhenLatched, Still
<1>6. QED
  BY <1>2, <1>3, <1>4, <1>5 DEF RobotOK, Sound, t

LEMMA ExecuteLockKeeps ==
  ASSUME NEW r0, RobotOK(r0), r0.booted
  PROVE  LET t == ExecuteLock(r0) IN RobotOK(t) /\ t.booted
<1> DEFINE r == UpdateSafety(r0)
<1>1. RobotOK(r) /\ r.booted
  BY UpdateSafetyKeeps DEF UpdateSafetyEffect, RobotOK
<1>2. ExecuteLock(r0) \in {r, LockDiagnostics(r)}
  BY DEF ExecuteLock
<1> HIDE DEF r
<1>3. QED
  BY <1>1, <1>2, LockDiagnosticsKeeps

LEMMA StopTestEffect ==
  ASSUME NEW r \in Robot, Supervised(r)
  PROVE  LET t == StopTest(r)
         IN BenchOnly(r, t) /\ t.diagnostics.unlocked = r.diagnostics.unlocked
<1> DEFINE t == StopTest(r)
<1>1. /\ t \in Robot
      /\ t.sup = r.sup /\ t.booted = r.booted /\ t.saved = r.saved
      /\ t.action = r.action /\ t.obstacle = r.obstacle /\ t.autonomy = r.autonomy
      /\ t.drive.connected = r.drive.connected
      /\ t.drive.armed = r.drive.armed /\ t.drive.mode = r.drive.mode
      /\ t.drive.spin \subseteq r.drive.spin
      /\ r.diagnostics.testingWheel /\ r.drive.connected =>
           "test" \notin t.drive.spin
      /\ t.diagnostics.unlocked = r.diagnostics.unlocked
  BY DEF StopTest, Robot, Drive
<1> HIDE DEF t
<1>2. QED
  BY <1>1 DEF BenchOnly, Supervised, t

\* A wheel under test.
WithTest(s) == [s EXCEPT !.diagnostics.testingWheel = TRUE,
                         !.drive.spin = @ \cup {"test"}]

LEMMA WithTestEffect ==
  ASSUME NEW r, NEW s, BenchOnly(r, s), s.diagnostics.unlocked
  PROVE  BenchOnly(r, WithTest(s))
<1> DEFINE t == WithTest(s)
<1>1. s \in Robot
  BY DEF BenchOnly
<1>2. /\ t \in Robot
      /\ t.sup = s.sup /\ t.booted = s.booted /\ t.saved = s.saved
      /\ t.action = s.action /\ t.obstacle = s.obstacle /\ t.autonomy = s.autonomy
      /\ t.drive.connected = s.drive.connected
      /\ t.drive.armed = s.drive.armed /\ t.drive.mode = s.drive.mode
      /\ t.drive.spin = s.drive.spin \cup {"test"}
      /\ t.diagnostics.unlocked = s.diagnostics.unlocked
      /\ t.diagnostics.testingWheel
  BY <1>1 DEF WithTest, Robot, Drive
<1> HIDE DEF t
<1>3. QED
  BY <1>2 DEF BenchOnly, t

LEMMA TestWheelKeeps ==
  ASSUME NEW r, RobotOK(r), Heard(r),
         NEW otherWheel \in BOOLEAN, NEW accepted \in BOOLEAN
  PROVE  LET t == TestWheel(r, otherWheel, accepted)
         IN RobotOK(t) /\ t.booted = r.booted
<1> DEFINE s == IF r.diagnostics.testingWheel /\ otherWheel THEN StopTest(r) ELSE r
           t == TestWheel(r, otherWheel, accepted)
<1>1. r \in Robot /\ Supervised(r)
  BY DEF RobotOK, Sound
<1>2. BenchOnly(r, r)
  BY <1>1 DEF BenchOnly, Supervised
<1>3. BenchOnly(r, s) /\ s.diagnostics.unlocked = r.diagnostics.unlocked
  BY <1>1, <1>2, StopTestEffect
<1>4. t = IF ~r.diagnostics.unlocked THEN r
          ELSE IF accepted /\ r.drive.kind = "servo" /\ r.drive.connected
          THEN WithTest(s) ELSE s
  BY DEF TestWheel, WithTest
<1> HIDE DEF s, t
<1>5. r.diagnostics.unlocked => BenchOnly(r, WithTest(s))
  BY <1>3, WithTestEffect
<1>6. BenchOnly(r, t)
  BY <1>2, <1>3, <1>4, <1>5
<1>7. QED
  BY <1>6, BenchKeeps DEF t

LEMMA ExecuteTestKeeps ==
  ASSUME NEW r0, RobotOK(r0), r0.booted,
         NEW otherWheel \in BOOLEAN, NEW accepted \in BOOLEAN
  PROVE  LET t == ExecuteTest(r0, otherWheel, accepted)
         IN RobotOK(t) /\ t.booted
<1> DEFINE r == UpdateSafety(r0)
<1>1. RobotOK(r) /\ r.booted
  BY UpdateSafetyKeeps DEF UpdateSafetyEffect, RobotOK
<1>2. ExecuteTest(r0, otherWheel, accepted) =
        IF ~Heard(r) THEN r ELSE TestWheel(r, otherWheel, accepted)
  BY DEF ExecuteTest, Heard
<1> HIDE DEF r
<1>3. QED
  BY <1>1, <1>2, TestWheelKeeps

\* STOP.
LEMMA StopAllKeeps ==
  ASSUME NEW r, Sound(r)
  PROVE  LET t == StopAll(r)
         IN /\ RobotOK(t) /\ t.booted = r.booted /\ t.saved = "STOPPED"
            /\ t.autonomy = r.autonomy
<1>1. HaltedBy(r, StopAll(r)) /\ StopAll(r).drive.armed = r.drive.armed
  BY StopAllEffect DEF Sound
<1>2. QED
  BY <1>1, HaltKeeps DEF HaltedBy

LEMMA ExecuteStopKeeps ==
  ASSUME NEW r0, Sound(r0)
  PROVE  LET t == ExecuteStop(r0)
         IN RobotOK(t) /\ t.booted = r0.booted /\ t.saved = "STOPPED"
<1> DEFINE r == UpdateSafety(r0)
<1>1. Sound(r) /\ r.booted = r0.booted
  BY UpdateSafetyKeeps DEF UpdateSafetyEffect
<1>2. ExecuteStop(r0) = StopAll(r)
  BY DEF ExecuteStop
<1> HIDE DEF r
<1>3. QED
  BY <1>1, <1>2, StopAllKeeps

\* A joint that moves is no concern of the wheels.
LimbsOnly(r, t) ==
  /\ t \in Robot
  /\ t.sup = r.sup /\ t.booted = r.booted /\ t.drive = r.drive
  /\ t.saved = r.saved /\ t.obstacle = r.obstacle
  /\ t.diagnostics = r.diagnostics /\ t.autonomy = r.autonomy
  /\ t.action = "NONE" \/ t.action = r.action

LEMMA LimbsKeep ==
  ASSUME NEW r, RobotOK(r), NEW t, LimbsOnly(r, t)
  PROVE  RobotOK(t)
BY DEF LimbsOnly, RobotOK, Sound, SupervisorOK, StillWhenLatched, Still, Agrees,
       Supervised, Unblocked, BlocksForward, Forgotten

\* JOINT MOVE, JOINT REST and ACCESSORY.
LEMMA ExecuteJointKeeps ==
  ASSUME NEW r0, RobotOK(r0), r0.booted, NEW joint
  PROVE  LET t == ExecuteJoint(r0, joint) IN RobotOK(t) /\ t.booted
<1> DEFINE r == UpdateSafety(r0)
           t == ExecuteJoint(r0, joint)
<1>1. RobotOK(r) /\ r.booted
  BY UpdateSafetyKeeps DEF UpdateSafetyEffect, RobotOK
<1>2. t \in {r, [r EXCEPT !.accessory = "moving"], [r EXCEPT !.limbs = "moving"]}
  BY DEF ExecuteJoint
<1> HIDE DEF r, t
<1>3. r \in Robot
  BY <1>1 DEF RobotOK, Sound
<1>4. LimbsOnly(r, t)
  BY <1>2, <1>3 DEF LimbsOnly, Robot
<1>5. RobotOK(t) /\ t.booted
  BY <1>1, <1>4, LimbsKeep DEF LimbsOnly
<1>6. QED
  BY <1>5 DEF t

\* AUTONOMY: permission comes with an armed supervisor.
WithAutonomy(r) == [r EXCEPT !.autonomy.enabled = TRUE]

LEMMA ExecuteAutonomySetKeeps ==
  ASSUME NEW r0, RobotOK(r0), r0.booted, NEW flag \in BOOLEAN
  PROVE  LET t == ExecuteAutonomySet(r0, flag) IN RobotOK(t) /\ t.booted
<1> DEFINE r == UpdateSafety(r0)
           v == AutonomyRequested(r.sup, flag, Now)
           u == WithSupervisor(r, v)
           t == ExecuteAutonomySet(r0, flag)
<1>1. RobotOK(r) /\ r.booted
  BY UpdateSafetyKeeps DEF UpdateSafetyEffect, RobotOK
<1>2. t = IF ~AutonomyGranted(r.sup, flag, Now) THEN UpdateSafety(u)
          ELSE IF flag THEN WithAutonomy(u) ELSE DisableAutonomy(u)
  BY DEF ExecuteAutonomySet, WithSupervisor, WithAutonomy
<1> HIDE DEF r, t
<1>3. r \in Robot /\ r.sup \in Supervisor /\ WellFormed(r.sup)
  BY <1>1 DEF RobotOK, Sound, SupervisorOK, Robot
<1>4. /\ SameState(r.sup, v) \/ LatchedBy(r.sup, v)
      /\ AutonomyGranted(r.sup, flag, Now) =>
           SameState(r.sup, v) /\ (flag => r.sup.state = "ARMED")
  BY <1>3, AutonomyRequestedEffect
<1>5. SupervisorOnly(r, u) /\ u.sup = v
  BY <1>3, <1>4, WithSupervisorEffect DEF SameState, LatchedBy
<1> HIDE DEF u, v
<1>6. RobotOK(u) /\ u.booted
  BY <1>1, <1>4, <1>5, SameStateKeeps, IncidentKeeps DEF RobotOK, SupervisorOnly
<1>7. u \in Robot
  BY <1>6 DEF RobotOK, Sound
<1>8. CASE ~AutonomyGranted(r.sup, flag, Now)
  BY <1>2, <1>6, <1>8, UpdateSafetyKeeps DEF RobotOK, UpdateSafetyEffect, t
<1>9. CASE AutonomyGranted(r.sup, flag, Now) /\ flag
  <2> DEFINE w == WithAutonomy(u)
  <2>1. u.sup.state = "ARMED"
    BY <1>4, <1>5, <1>9 DEF SameState
  <2>2. /\ w \in Robot /\ w.sup = u.sup /\ w.booted = u.booted
        /\ w.drive = u.drive /\ w.saved = u.saved /\ w.action = u.action
        /\ w.obstacle = u.obstacle /\ w.diagnostics = u.diagnostics
        /\ w.autonomy.state = u.autonomy.state
    BY <1>7 DEF WithAutonomy, Robot
  <2> HIDE DEF w
  <2>3. RobotOK(w) /\ w.booted
    BY <1>6, <2>1, <2>2
    DEF RobotOK, Sound, SupervisorOK, StillWhenLatched, Agrees, Supervised,
        Unblocked, BlocksForward, Forgotten, LatchedStates
  <2>4. QED
    BY <1>2, <1>9, <2>3 DEF t, w
<1>10. CASE AutonomyGranted(r.sup, flag, Now) /\ ~flag
  <2> DEFINE w == DisableAutonomy(u)
  <2>1. /\ w \in Robot /\ w.sup = u.sup /\ w.booted = u.booted
        /\ w.drive = u.drive /\ w.saved = u.saved /\ w.action = u.action
        /\ w.obstacle = u.obstacle /\ w.diagnostics = u.diagnostics
        /\ ~w.autonomy.enabled /\ w.autonomy.state = "IDLE"
    BY <1>7, DisableAutonomyEffect
  <2> HIDE DEF w
  <2>2. RobotOK(w) /\ w.booted
    BY <1>6, <2>1
    DEF RobotOK, Sound, SupervisorOK, StillWhenLatched, Still, Agrees, Supervised,
        Unblocked, BlocksForward, Forgotten
  <2>3. QED
    BY <1>2, <1>10, <2>2 DEF t, w
<1>11. QED
  BY <1>8, <1>9, <1>10

\* cancel() of an action, with or without a stop of the wheels.
LEMMA CancelActionKeeps ==
  ASSUME NEW r, RobotOK(r), NEW stopDrive \in BOOLEAN, NEW rest \in BOOLEAN
  PROVE  LET t == CancelAction(r, stopDrive, rest)
         IN /\ RobotOK(t) /\ t.booted = r.booted /\ t.sup = r.sup
            /\ t.autonomy = r.autonomy
<1> DEFINE t == CancelAction(r, stopDrive, rest)
<1>1. r \in Robot
  BY DEF RobotOK, Sound
<1>2. /\ t \in Robot
      /\ t.sup = r.sup /\ t.booted = r.booted /\ t.saved = r.saved
      /\ t.obstacle = r.obstacle
      /\ t.diagnostics = r.diagnostics /\ t.autonomy = r.autonomy
      /\ t.drive.connected => r.drive.connected
      /\ IF stopDrive THEN AtRest(t) ELSE t.drive = r.drive
      /\ t.action = "NONE"
  BY <1>1, CancelActionEffect
<1>3. t.drive.armed = r.drive.armed
  BY <1>1, CancelActionEffect
<1> HIDE DEF t
<1>4. SupervisorOK(t) /\ Agrees(t) /\ Forgotten(t)
  BY <1>2, <1>3 DEF RobotOK, Sound, SupervisorOK, Agrees, Forgotten
<1>5. Supervised(t) /\ Unblocked(t)
  BY <1>2, <1>3
  DEF RobotOK, Sound, Supervised, Unblocked, BlocksForward, AtRest
<1>6. StillWhenLatched(t)
  BY <1>2, <1>3 DEF RobotOK, Sound, StillWhenLatched, Still, AtRest
<1>7. QED
  BY <1>2, <1>4, <1>5, <1>6 DEF RobotOK, Sound, t

\* A new action begins with the end of the one before, if the supervisor lets
\* the manipulators move.
LEMMA StartActionKeeps ==
  ASSUME NEW r, RobotOK(r), NEW action \in ActionId
  PROVE  LET t == StartAction(r, action) IN RobotOK(t) /\ t.booted = r.booted
<1> DEFINE c == CancelAction(r, OwnsDrive(r.action) \/ StopsDrive(action), TRUE)
           t == StartAction(r, action)
<1>1. t = IF ~MayMoveManipulators(r.sup) THEN r ELSE [c EXCEPT !.action = action]
  BY DEF StartAction
<1>2. OwnsDrive(r.action) \/ StopsDrive(action) \in BOOLEAN
  BY DEF OwnsDrive, StopsDrive
<1>3. RobotOK(c) /\ c.booted = r.booted /\ c.sup = r.sup
  BY <1>2, CancelActionKeeps DEF OwnsDrive, StopsDrive
<1> HIDE DEF c, t
<1>4. CASE MayMoveManipulators(r.sup)
  <2>1. c \in Robot /\ c.sup.state \notin {"BOOT"} \cup LatchedStates
    BY <1>3, <1>4 DEF MayMoveManipulators, LatchedStates, RobotOK, Sound
  <2>2. /\ t \in Robot /\ t.sup = c.sup /\ t.booted = c.booted
        /\ t.drive = c.drive /\ t.saved = c.saved /\ t.obstacle = c.obstacle
        /\ t.diagnostics = c.diagnostics /\ t.autonomy = c.autonomy
    BY <1>1, <1>4, <2>1 DEF Robot
  <2>3. RobotOK(t)
    BY <1>3, <2>1, <2>2
    DEF RobotOK, Sound, SupervisorOK, StillWhenLatched, Agrees, Supervised,
        Unblocked, BlocksForward, Forgotten
  <2>4. QED
    BY <1>3, <2>2, <2>3 DEF t
<1>5. CASE ~MayMoveManipulators(r.sup)
  BY <1>1, <1>5 DEF t
<1>6. QED
  BY <1>4, <1>5

LEMMA ExecuteActionKeeps ==
  ASSUME NEW r0, RobotOK(r0), r0.booted, NEW action \in ActionId
  PROVE  LET t == ExecuteAction(r0, action) IN RobotOK(t) /\ t.booted
<1> DEFINE r == UpdateSafety(r0)
<1>1. RobotOK(r) /\ r.booted
  BY UpdateSafetyKeeps DEF UpdateSafetyEffect, RobotOK
<1>2. ExecuteAction(r0, action) = StartAction(r, action)
  BY DEF ExecuteAction
<1> HIDE DEF r
<1>3. QED
  BY <1>1, <1>2, StartActionKeeps

\* A command that is granted and remembered, before the wheels hear of it.
Remembering(r, mode) == [r EXCEPT !.saved = mode]

\* move() of RobotAPI: whether it is granted or not, a robot in order stays so.
\* The autonomy does not ask while it waits for the way to clear.
LEMMA MoveKeeps ==
  ASSUME NEW r0, RobotOK(r0), r0.booted, NEW mode \in DriveMode,
         NEW cancelAction \in BOOLEAN, NEW autonomous \in BOOLEAN,
         autonomous => r0.autonomy.state \notin {"WAIT_FOR_CLEARANCE", "RESUMING"}
  PROVE  LET t == Move(r0, mode, cancelAction, autonomous)
         IN RobotOK(t) /\ t.booted /\ t.autonomy = r0.autonomy
<1> DEFINE r == IF cancelAction THEN CancelAction(r0, FALSE, TRUE) ELSE r0
           forward == mode = "FORWARD"
           v == DriveRequested(r.sup, forward, autonomous, Now)
           u == WithSupervisor(r, v)
           s == Remembering(u, mode)
           d == DriveWheels(s, mode)
           m == Move(r0, mode, cancelAction, autonomous)
<1>1. RobotOK(r) /\ r.booted /\ r.autonomy = r0.autonomy
  BY CancelActionKeeps
<1>2. m = IF ~r.drive.armed THEN r
          ELSE IF mode = "STOPPED" THEN StopAll(r)
          ELSE IF ~Moved(r, mode, autonomous) THEN StopWheels(u)
          ELSE d
  BY DEF Move, WithSupervisor, Remembering
<1> HIDE DEF r, m
<1>3. /\ r \in Robot /\ r.sup \in Supervisor /\ WellFormed(r.sup)
      /\ forward \in BOOLEAN
  BY <1>1 DEF RobotOK, Sound, SupervisorOK, Robot
<1> HIDE DEF forward
<1>4. /\ v = r.sup \/ LatchedBy(r.sup, v) \/ Overriding(r.sup, v)
      /\ DriveGranted(r.sup, forward, autonomous, Now) =>
           /\ r.sup.state = "ARMED"
           /\ IF autonomous THEN v = r.sup ELSE Overriding(r.sup, v)
  BY <1>3, DriveRequestedEffect
<1>5. SupervisorOnly(r, u) /\ u.sup = v
  BY <1>3, <1>4, WithSupervisorEffect DEF LatchedBy, Overriding
<1> HIDE DEF u, v
<1>6. RobotOK(u) /\ u.booted /\ u.autonomy = r0.autonomy
  <2>1. u.booted /\ u.autonomy = r0.autonomy
    BY <1>1, <1>5 DEF SupervisorOnly
  <2>2. CASE v = r.sup
    <3>1. SameState(r.sup, u.sup)
      BY <1>3, <1>5, <2>2 DEF SameState
    <3>2. QED
      BY <1>1, <1>5, <2>1, <3>1, SameStateKeeps DEF RobotOK
  <2>3. CASE LatchedBy(r.sup, v)
    <3>1. LatchedBy(r.sup, u.sup)
      BY <1>5, <2>3
    <3>2. RobotOK(u)
      BY <1>1, <1>5, <3>1, IncidentKeeps DEF RobotOK
    <3>3. QED
      BY <2>1, <3>2
  <2>4. CASE Overriding(r.sup, v)
    BY <1>1, <1>5, <2>1, <2>4, OverrideKeeps DEF RobotOK
  <2>5. QED
    BY <1>4, <2>2, <2>3, <2>4
<1>7. CASE ~r.drive.armed
  BY <1>1, <1>2, <1>7 DEF m
<1>8. CASE r.drive.armed /\ mode = "STOPPED"
  BY <1>1, <1>2, <1>8, StopAllKeeps DEF RobotOK, m
<1>9. CASE r.drive.armed /\ mode # "STOPPED" /\ ~Moved(r, mode, autonomous)
  <2>1. u \in Robot /\ SupervisorOK(u) /\ StillWhenLatched(u) /\ Agrees(u)
        /\ Forgotten(u)
    BY <1>6 DEF RobotOK, Sound
  <2>2. LET t == StopWheels(u)
        IN DriveOnly(u, t) /\ AtRest(t) /\ t.drive.armed = u.drive.armed
    BY <2>1, StopWheelsEffect
  <2>3. RobotOK(StopWheels(u))
    BY <2>1, <2>2, WheelsStoppedKeep
  <2>4. QED
    BY <1>2, <1>6, <1>9, <2>2, <2>3 DEF DriveOnly, m
<1>10. CASE r.drive.armed /\ mode # "STOPPED" /\ Moved(r, mode, autonomous)
  <2>1. DriveGranted(r.sup, forward, autonomous, Now)
        /\ (mode = "FORWARD" => ~BlocksForward(r))
    BY <1>10 DEF Moved, forward
  <2>2. u.sup.state = "ARMED"
    BY <1>4, <1>5, <2>1 DEF Overriding
  <2>3. mode = "FORWARD" => ~BlocksForward(u)
    BY <1>5, <2>1 DEF BlocksForward, SupervisorOnly
  <2>4. u.drive.armed
    BY <1>5, <1>10 DEF SupervisorOnly
  <2>5. autonomous \/ u.sup.manualOverrideUntilMs # 0
    <3>1. ManualOverrideMs # 0
      BY PolicyAssumption, FrozenClockAssumption
    <3>2. QED
      BY <1>4, <1>5, <2>1, <3>1 DEF Overriding
  <2>6. /\ s \in Robot /\ s.sup = u.sup /\ s.booted = u.booted
        /\ s.drive = u.drive /\ s.obstacle = u.obstacle
        /\ s.diagnostics = u.diagnostics /\ s.autonomy = u.autonomy
    BY <1>6 DEF Remembering, RobotOK, Sound, Robot
  <2> HIDE DEF s
  <2>7. /\ DriveOnly(s, d)
        /\ d.drive.armed => s.drive.armed
        /\ d.drive.connected /\ s.drive.armed => d.drive.armed
        /\ d.drive.mode \in {"STOPPED", mode}
        /\ d.drive.connected =>
             \/ d.drive.spin = {}
             \/ /\ d.drive.spin = {"drive"}
                /\ d.drive.armed /\ d.drive.mode = mode
    BY <1>10, <2>6, DriveWheelsEffect
  <2> HIDE DEF d
  <2>8. Forgotten(d)
    BY <1>6, <2>5, <2>6, <2>7 DEF Forgotten, DriveOnly
  <2>9. SupervisorOK(d) /\ StillWhenLatched(d)
    BY <1>6, <2>2, <2>6, <2>7
    DEF SupervisorOK, StillWhenLatched, DriveOnly, RobotOK, Sound, LatchedStates
  <2>10. Agrees(d)
    BY <2>2, <2>4, <2>6, <2>7 DEF Agrees, DriveOnly
  <2>11. Supervised(d)
    BY <1>10, <2>7 DEF Supervised
  <2>12. Unblocked(d)
    BY <2>3, <2>6, <2>7 DEF Unblocked, BlocksForward, DriveOnly
  <2>13. RobotOK(d)
    BY <2>7, <2>8, <2>9, <2>10, <2>11, <2>12 DEF RobotOK, Sound, DriveOnly
  <2>14. QED
    BY <1>2, <1>6, <1>10, <2>6, <2>7, <2>13 DEF DriveOnly, m
<1>11. QED
  BY <1>7, <1>8, <1>9, <1>10

LEMMA ExecuteMoveKeeps ==
  ASSUME NEW r0, Sound(r0), r0.booted, NEW mode \in DriveMode,
         NEW autonomous \in BOOLEAN,
         IF autonomous
         THEN r0.autonomy.state \notin {"WAIT_FOR_CLEARANCE", "RESUMING"}
         ELSE Forgotten(r0)
  PROVE  LET t == ExecuteMove(r0, mode, autonomous)
         IN /\ RobotOK(t) /\ t.booted
            /\ t.autonomy.state \in {"IDLE", r0.autonomy.state}
<1> DEFINE r == UpdateSafety(r0)
           m == Move(r, mode, TRUE, autonomous)
           t == ExecuteMove(r0, mode, autonomous)
<1>1. /\ RobotOK(r) /\ r.booted
      /\ r.autonomy.state \in {"IDLE", r0.autonomy.state}
  <2>1. Forgotten(r0)
    BY DEF Forgotten
  <2>2. QED
    BY <2>1, UpdateSafetyKeeps DEF RobotOK, UpdateSafetyEffect
<1>2. t = IF Moved(r, mode, autonomous) THEN m ELSE UpdateSafety(m)
  BY DEF ExecuteMove
<1> HIDE DEF r, t
<1>3. RobotOK(m) /\ m.booted /\ m.autonomy = r.autonomy
  BY <1>1, MoveKeeps
<1> HIDE DEF m
<1>4. UpdateSafetyEffect(m, UpdateSafety(m))
  BY <1>3, UpdateSafetyKeeps DEF RobotOK
<1>5. QED
  BY <1>1, <1>2, <1>3, <1>4 DEF UpdateSafetyEffect, RobotOK, t

-----------------------------------------------------------------------------
(* The calls of RobotAPI::update(). *)

\* RobotHal::update
LEMMA HalUpdateKeeps ==
  ASSUME NEW r, RobotOK(r), NEW timedOut \in BOOLEAN, NEW arrived \in BOOLEAN
  PROVE  LET t == HalUpdate(r, timedOut, arrived)
         IN RobotOK(t) /\ t.booted = r.booted
<1> DEFINE d == IF r.drive.kind = "servo" THEN ServosUpdate(r, timedOut)
                ELSE RollersUpdate(r, timedOut)
           t == HalUpdate(r, timedOut, arrived)
<1>1. r \in Robot /\ SupervisorOK(r) /\ StillWhenLatched(r) /\ Agrees(r) /\ Forgotten(r)
  BY DEF RobotOK, Sound
<1>2. t = IF arrived THEN [d EXCEPT !.limbs = "still", !.accessory = "still"] ELSE d
  BY DEF HalUpdate
<1>3. \/ d = r \/ d = StopWheels(r)
      \/ d = DisarmWheels(r) /\ ~r.drive.connected
  BY DEF ServosUpdate, RollersUpdate
<1> HIDE DEF d, t
<1>4. LET w == StopWheels(r)
      IN DriveOnly(r, w) /\ AtRest(w) /\ w.drive.armed = r.drive.armed
  BY <1>1, StopWheelsEffect
<1>5. LET w == DisarmWheels(r) IN DriveOnly(r, w) /\ AtRest(w) /\ ~w.drive.armed
  BY <1>1, DisarmWheelsEffect
<1>6. RobotOK(d) /\ d.booted = r.booted
  <2>1. CASE d = r
    BY <2>1
  <2>2. CASE d = StopWheels(r)
    BY <1>1, <1>4, <2>2, WheelsStoppedKeep DEF DriveOnly
  <2>3. CASE d = DisarmWheels(r) /\ ~r.drive.connected
    BY <1>1, <1>5, <2>3, WheelsStoppedKeep DEF DriveOnly
  <2>4. QED
    BY <1>3, <2>1, <2>2, <2>3
<1>7. d \in Robot
  BY <1>6 DEF RobotOK, Sound
<1>8. LimbsOnly(d, t)
  BY <1>2, <1>7 DEF LimbsOnly, Robot
<1>9. QED
  BY <1>6, <1>8, LimbsKeep DEF LimbsOnly, t

\* RobotActions::update; the drive an action asks for is a manual one.
LEMMA ActionUpdateKeeps ==
  ASSUME NEW r, RobotOK(r), r.booted, NEW progress \in Progress
  PROVE  LET t == ActionUpdate(r, progress) IN RobotOK(t) /\ t.booted
<1> DEFINE stops == OwnsDrive(r.action) \/ StopsDrive(r.action)
           stepped == [r EXCEPT !.limbs = "moving"]
           t == ActionUpdate(r, progress)
<1>1. \/ t \in {r, CancelAction(r, TRUE, FALSE), CancelAction(r, stops, TRUE), stepped}
      \/ t = Move(stepped, progress, FALSE, FALSE) /\ progress \in {"FORWARD", "REVERSE"}
  BY DEF ActionUpdate, Progress
<1>2. stops \in BOOLEAN
  BY DEF OwnsDrive, StopsDrive
<1> HIDE DEF stops, t
<1>3. r \in Robot
  BY DEF RobotOK, Sound
<1>4. LimbsOnly(r, stepped)
  BY <1>3 DEF LimbsOnly, Robot
<1> HIDE DEF stepped
<1>5. RobotOK(stepped) /\ stepped.booted
  BY <1>4, LimbsKeep DEF LimbsOnly
<1>6. CASE t \in {r, stepped}
  BY <1>5, <1>6 DEF t
<1>7. CASE t \in {CancelAction(r, TRUE, FALSE), CancelAction(r, stops, TRUE)}
  BY <1>2, <1>7, CancelActionKeeps DEF t
<1>8. CASE t = Move(stepped, progress, FALSE, FALSE)
           /\ progress \in {"FORWARD", "REVERSE"}
  BY <1>5, <1>8, MoveKeeps DEF DriveMode, t
<1>9. QED
  BY <1>1, <1>6, <1>7, <1>8

\* The look ahead: a forward drive that the new reading forbids is stopped and
\* forgotten before the call ends.
WithReading(r, reading, imu) ==
  [r EXCEPT !.imu = imu,
            !.obstacle = [state |-> ObstacleUpdate(@.state, reading),
                          rangeValid |-> reading \notin InvalidReading]]

LEMMA LookAheadKeeps ==
  ASSUME NEW r0, RobotOK(r0), r0.booted, NEW reading \in Reading,
         NEW imu \in ImuSample
  PROVE  LET t == LookAhead(r0, reading, imu) IN RobotOK(t) /\ t.booted
<1> DEFINE r == WithReading(r0, reading, imu)
           w == StopWheels(r)
           s == WithoutSaved(w)
           v == EmergencyStopped(s.sup, "RANGE_SENSOR_INVALID")
           u == WithSupervisor(s, v)
           t == LookAhead(r0, reading, imu)
<1>1. /\ r \in Robot /\ r.sup = r0.sup /\ r.booted = r0.booted
      /\ r.drive = r0.drive /\ r.saved = r0.saved /\ r.action = r0.action
      /\ r.diagnostics = r0.diagnostics /\ r.autonomy = r0.autonomy
  <2>1. r0 \in Robot
    BY DEF RobotOK, Sound
  <2>2. ObstacleUpdate(r0.obstacle.state, reading) \in ObstacleSafetyState
    BY <2>1 DEF ObstacleUpdate, ObstacleSafetyState, Reading, InvalidReading, Robot
  <2>3. QED
    BY <2>1, <2>2 DEF WithReading, Robot
<1>2. t = IF r.drive.mode # "FORWARD" \/ ~BlocksForward(r) THEN r
          ELSE IF reading = "failed" THEN u ELSE s
  BY DEF LookAhead, WithReading, WithoutSaved, WithSupervisor
<1> HIDE DEF r, t
<1>3. /\ SupervisorOK(r) /\ StillWhenLatched(r) /\ Agrees(r) /\ Supervised(r)
      /\ Forgotten(r) /\ r.booted
  BY <1>1 DEF RobotOK, Sound, SupervisorOK, StillWhenLatched, Still, Agrees,
              Supervised, Forgotten
<1>4. CASE r.drive.mode # "FORWARD" \/ ~BlocksForward(r)
  BY <1>1, <1>2, <1>3, <1>4 DEF RobotOK, Sound, Unblocked, t
<1>5. CASE r.drive.mode = "FORWARD" /\ BlocksForward(r)
  <2>1. DriveOnly(r, w) /\ AtRest(w) /\ w.drive.armed = r.drive.armed
    BY <1>1, StopWheelsEffect
  <2> HIDE DEF w
  <2>2. RobotOK(w) /\ w.booted /\ w \in Robot
    BY <1>3, <2>1, WheelsStoppedKeep DEF DriveOnly
  <2>3. /\ s \in Robot
        /\ s.sup = w.sup /\ s.booted = w.booted /\ s.drive = w.drive
        /\ s.action = w.action /\ s.obstacle = w.obstacle /\ s.imu = w.imu
        /\ s.diagnostics = w.diagnostics /\ s.autonomy = w.autonomy
        /\ s.saved = "STOPPED"
    BY <2>2, WithoutSavedEffect
  <2> HIDE DEF s
  <2>4. RobotOK(s) /\ s.booted
    BY <2>2, <2>3
    DEF RobotOK, Sound, SupervisorOK, StillWhenLatched, Still, Agrees, Supervised,
        Unblocked, BlocksForward, Forgotten
  <2>5. SupervisorOK(s) /\ s.sup \in Supervisor /\ WellFormed(s.sup)
    BY <2>4 DEF RobotOK, Sound, SupervisorOK, Robot
  <2>6. LatchedBy(s.sup, v)
    BY <2>5, StoppedEffect DEF SafetyFault
  <2>7. SupervisorOnly(s, u) /\ u.sup = v
    BY <2>3, <2>4, <2>5, <2>6, LatchedRobot
  <2> HIDE DEF u, v
  <2>8. LatchedBy(s.sup, u.sup)
    BY <2>6, <2>7
  <2>9. RobotOK(u)
    BY <2>4, <2>7, <2>8, IncidentKeeps DEF RobotOK
  <2>10. u.booted
    BY <2>4, <2>7 DEF SupervisorOnly
  <2>11. QED
    BY <1>2, <1>5, <2>4, <2>9, <2>10 DEF t
<1>6. QED
  BY <1>4, <1>5

-----------------------------------------------------------------------------
(* The autonomy manager. *)

Waiting == {"WAIT_FOR_CLEARANCE", "RESUMING"}

\* setState() of the manager.  A robot in order stays so, except that one that
\* begins to wait has yet to forget its command.
LEMMA EnterKeeps ==
  ASSUME NEW r, Sound(r), NEW state \in AutonomyState
  PROVE  LET t == Enter(r, state)
         IN /\ Sound(t) /\ t.booted = r.booted /\ t.sup = r.sup
            /\ t.saved = r.saved /\ t.drive = r.drive /\ t.obstacle = r.obstacle
            /\ t.autonomy.enabled = r.autonomy.enabled
            /\ t.autonomy.state = state
            /\ state \notin Waiting => RobotOK(t)
<1> DEFINE t == Enter(r, state)
<1>1. /\ t \in Robot /\ t.booted = r.booted /\ t.sup = r.sup
      /\ t.saved = r.saved /\ t.drive = r.drive /\ t.obstacle = r.obstacle
      /\ t.action = r.action /\ t.diagnostics = r.diagnostics
      /\ t.autonomy.enabled = r.autonomy.enabled
      /\ t.autonomy.state = state
  BY DEF Enter, Sound, Robot
<1> HIDE DEF t
<1>2. Sound(t)
  BY <1>1 DEF Sound, SupervisorOK, StillWhenLatched, Still, Agrees, Supervised,
              Unblocked, BlocksForward
<1>3. state \notin Waiting => Forgotten(t)
  BY <1>1 DEF Forgotten, Waiting
<1>4. QED
  BY <1>1, <1>2, <1>3 DEF RobotOK, t

\* A robot that the autonomy may move has no override pending and no incident.
LEMMA MayMoveMeans ==
  ASSUME NEW r, Sound(r), AutonomyMayMove(r)
  PROVE  /\ r.sup.manualOverrideUntilMs = 0
         /\ ~r.sup.disarmRequested /\ r.sup.state = "ARMED"
<1>1. Reached(Now, r.sup.manualOverrideUntilMs) /\ r.sup.state = "ARMED"
  BY DEF AutonomyMayMove, AutonomyMotionAllowed
<1>2. ~Reached(Now, ManualOverrideMs)
  <2>1. (0 - ManualOverrideMs) % ClockModulus = ClockModulus - ManualOverrideMs
    BY PolicyAssumption, FrozenClockAssumption
  <2>2. ~(2 * (ClockModulus - ManualOverrideMs) < ClockModulus)
    BY PolicyAssumption, FrozenClockAssumption
  <2>3. QED
    BY <2>1, <2>2 DEF Reached, Elapsed, Now
<1>3. ~r.sup.disarmRequested
  BY <1>1 DEF Sound, SupervisorOK, WellFormed, LatchedStates
<1>4. QED
  BY <1>1, <1>2, <1>3 DEF Sound, SupervisorOK

\* What may remain of a command when the override ends.
NothingSaved(r) ==
  r.autonomy.state \in Waiting /\ ~r.sup.disarmRequested => r.saved = "STOPPED"

\* AutonomyManager::update
LEMMA AutonomyUpdateKeeps ==
  ASSUME NEW r0, RobotOK(r0), r0.booted, NEW elapsed \in BOOLEAN
  PROVE  LET t == AutonomyUpdate(r0, elapsed)
         IN /\ RobotOK(t) /\ t.booted /\ NothingSaved(t)
            /\ ~AutonomyMayMove(r0) => t.drive.mode = r0.drive.mode
<1> DEFINE state == IF r0.autonomy.state = "IDLE" THEN "MONITORING"
                    ELSE r0.autonomy.state
           r == Enter(r0, state)
           t == AutonomyUpdate(r0, elapsed)
<1>1. Sound(r0) /\ Forgotten(r0) /\ r0 \in Robot
  BY DEF RobotOK, Sound
<1>2. state \in AutonomyState \ {"IDLE"}
  BY <1>1 DEF Robot, AutonomyState
<1>3. CASE ~AutonomyMayMove(r0)
  <2>1. t = Enter(r0, "IDLE")
    BY <1>3 DEF AutonomyUpdate
  <2>2. /\ RobotOK(Enter(r0, "IDLE")) /\ Enter(r0, "IDLE").booted
        /\ Enter(r0, "IDLE").autonomy.state = "IDLE"
        /\ Enter(r0, "IDLE").drive = r0.drive
    BY <1>1, EnterKeeps DEF AutonomyState, Waiting
  <2> HIDE DEF t
  <2>3. QED
    BY <2>1, <2>2 DEF NothingSaved, Waiting, t
<1>4. CASE AutonomyMayMove(r0)
  <2> DEFINE Kept(u) == RobotOK(u) /\ u.booted /\ NothingSaved(u)
  <2>1. /\ Sound(r) /\ r.booted /\ r.sup = r0.sup /\ r.saved = r0.saved
        /\ r.autonomy.state = state
    BY <1>1, <1>2, EnterKeeps
  <2>2. t = CASE state = "MONITORING" /\ r.obstacle.state = "BLOCKED" ->
                   Enter(r, "STOPPING")
              [] state = "STOPPING" /\ elapsed ->
                   ExecuteMove(Enter(r, "BACKING_UP"), "REVERSE", TRUE)
              [] state = "BACKING_UP" /\ elapsed ->
                   ExecuteMove(Enter(r, "TURNING"), "REVERSE", TRUE)
              [] state = "TURNING" /\ elapsed ->
                   ExecuteStop(Enter(r, "WAIT_FOR_CLEARANCE"))
              [] state = "WAIT_FOR_CLEARANCE" /\ r.obstacle.state = "CLEAR" ->
                   Enter(r, "RESUMING")
              [] state = "WAIT_FOR_CLEARANCE" /\ r.obstacle.state # "CLEAR"
                 /\ elapsed ->
                   Enter(WithoutSaved(r), "MONITORING")
              [] state = "RESUMING" ->
                   IF r.saved = "STOPPED" THEN Enter(r, "MONITORING")
                   ELSE ExecuteMove(Enter(r, "MONITORING"), r.saved, TRUE)
              [] OTHER -> r
    BY <1>4 DEF AutonomyUpdate, WithoutSaved
  <2> HIDE DEF r, t
  <2>3. /\ r.sup.manualOverrideUntilMs = 0 /\ ~r.sup.disarmRequested
        /\ state \in Waiting => r.saved = "STOPPED"
    BY <1>1, <1>4, <2>1, MayMoveMeans DEF Forgotten, Waiting
  <2> HIDE DEF state
  <2>4. Kept(r)
    BY <2>1, <2>3 DEF RobotOK, Forgotten, NothingSaved, Waiting
  <2>5. \A s \in AutonomyState \ Waiting : Kept(Enter(r, s))
    BY <2>1, EnterKeeps DEF NothingSaved
  <2>6. \A s \in {"BACKING_UP", "TURNING", "MONITORING"}, mode \in DriveMode :
          Kept(ExecuteMove(Enter(r, s), mode, TRUE))
    <3> SUFFICES ASSUME NEW s \in {"BACKING_UP", "TURNING", "MONITORING"},
                        NEW mode \in DriveMode
                 PROVE  Kept(ExecuteMove(Enter(r, s), mode, TRUE))
      OBVIOUS
    <3> DEFINE e == Enter(r, s)
    <3>1. Sound(e) /\ e.booted /\ e.autonomy.state = s
      BY <2>1, EnterKeeps DEF AutonomyState
    <3> HIDE DEF e
    <3>2. LET m == ExecuteMove(e, mode, TRUE)
          IN RobotOK(m) /\ m.booted /\ m.autonomy.state \in {"IDLE", s}
      BY <3>1, ExecuteMoveKeeps
    <3>3. QED
      BY <3>2 DEF NothingSaved, Waiting, e
  <2>7. Kept(ExecuteStop(Enter(r, "WAIT_FOR_CLEARANCE")))
    <3> DEFINE e == Enter(r, "WAIT_FOR_CLEARANCE")
    <3>1. Sound(e) /\ e.booted
      BY <2>1, EnterKeeps DEF AutonomyState
    <3> HIDE DEF e
    <3>2. QED
      BY <3>1, ExecuteStopKeeps DEF NothingSaved, e
  <2>8. state = "WAIT_FOR_CLEARANCE" => Kept(Enter(r, "RESUMING"))
    BY <2>1, <2>3, EnterKeeps
    DEF RobotOK, Forgotten, NothingSaved, Waiting, AutonomyState
  <2>9. Kept(Enter(WithoutSaved(r), "MONITORING"))
    <3> DEFINE f == WithoutSaved(r)
    <3>1. /\ f \in Robot
          /\ f.sup = r.sup /\ f.booted = r.booted /\ f.drive = r.drive
          /\ f.action = r.action /\ f.obstacle = r.obstacle
          /\ f.diagnostics = r.diagnostics /\ f.autonomy = r.autonomy
      BY <2>1, WithoutSavedEffect DEF Sound
    <3> HIDE DEF f
    <3>2. Sound(f) /\ f.booted
      BY <2>1, <3>1
      DEF Sound, SupervisorOK, StillWhenLatched, Still, Agrees, Supervised,
          Unblocked, BlocksForward
    <3>3. QED
      BY <3>2, EnterKeeps DEF AutonomyState, Waiting, NothingSaved, f
  <2>10. r.saved \in DriveMode
    BY <2>1 DEF Sound, Robot
  <2> HIDE DEF Kept
  <2>11. /\ Kept(Enter(r, "STOPPING")) /\ Kept(Enter(r, "MONITORING"))
         /\ Kept(ExecuteMove(Enter(r, "BACKING_UP"), "REVERSE", TRUE))
         /\ Kept(ExecuteMove(Enter(r, "TURNING"), "REVERSE", TRUE))
         /\ Kept(ExecuteMove(Enter(r, "MONITORING"), r.saved, TRUE))
    BY <2>5, <2>6, <2>10 DEF AutonomyState, Waiting, DriveMode
  <2>12. Kept(t)
    BY <2>2, <2>4, <2>7, <2>8, <2>9, <2>11
  <2>13. QED
    BY <1>4, <2>12 DEF Kept, t
<1>5. QED
  BY <1>3, <1>4

\* The override lapses.
Lapsed(r) == [r EXCEPT !.sup.manualOverrideUntilMs = Now]

LEMMA LapsedKeeps ==
  ASSUME NEW r, RobotOK(r), NothingSaved(r)
  PROVE  LET t == Lapsed(r)
         IN RobotOK(t) /\ t.booted = r.booted /\ t.drive = r.drive
<1> DEFINE t == Lapsed(r)
<1>1. r \in Robot
  BY DEF RobotOK, Sound
<1>2. 0 \in Clock
  BY PolicyAssumption DEF Clock
<1>3. /\ t \in Robot /\ t.booted = r.booted /\ t.drive = r.drive
      /\ t.saved = r.saved /\ t.obstacle = r.obstacle /\ t.action = r.action
      /\ t.diagnostics = r.diagnostics /\ t.autonomy = r.autonomy
      /\ t.sup.state = r.sup.state /\ t.sup.manualOverrideUntilMs = 0
      /\ t.sup.disarmRequested = r.sup.disarmRequested
      /\ t.sup.fault = r.sup.fault
      /\ t.sup.autonomyEnabled = r.sup.autonomyEnabled
  BY <1>1, <1>2 DEF Lapsed, Robot, Supervisor, Now
<1> HIDE DEF t
<1>4. SupervisorOK(t)
  BY <1>3 DEF RobotOK, Sound, SupervisorOK, WellFormed
<1>5. Forgotten(t)
  BY <1>3 DEF Forgotten, NothingSaved, Waiting
<1>6. QED
  BY <1>3, <1>4, <1>5
  DEF RobotOK, Sound, StillWhenLatched, Still, Agrees, Supervised, Unblocked,
      BlocksForward, t

-----------------------------------------------------------------------------
(* The loop. *)

\* setup() leaves the robot in order, whatever flash holds.
LEMMA RobotInit == Init => RobotInv
<1> SUFFICES ASSUME Init PROVE RobotInv
  OBVIOUS
<1> PICK s \in Startups :
      robot =
        [sup |-> BeginWith([state |-> s.state, fault |-> "DRIVE_WATCHDOG"]),
         booted |-> FALSE,
         drive |-> [kind |-> s.kind, answers |-> TRUE,
                    connected |-> s.connected, armed |-> FALSE, mode |-> "STOPPED", spin |-> {}],
         saved |-> "STOPPED", action |-> "NONE",
         limbs |-> "still", accessory |-> "still",
         obstacle |-> [state |-> "SENSOR_UNAVAILABLE", rangeValid |-> FALSE],
         imu |-> "unavailable",
         diagnostics |-> [unlocked |-> FALSE, testingWheel |-> FALSE],
         autonomy |-> [enabled |-> FALSE, state |-> "IDLE"]]
  BY DEF Init
<1> DEFINE n == [state |-> s.state, fault |-> "DRIVE_WATCHDOG"]
           b == BeginWith(n)
<1>1. /\ s.kind \in {"servo", "roller"} /\ s.connected \in BOOLEAN
      /\ s.state \in {"absent"} \cup LatchedStates
  BY RobotAssumption
<1>2. b \in Supervisor
  BY <1>1, BeginWithType DEF SafetyFault
<1>3. /\ b.state = "BOOT" /\ ~b.autonomyEnabled /\ ~b.disarmRequested
      /\ b.manualOverrideUntilMs = 0
  BY DEF BeginWith
<1>4. robot.sup = b
  OBVIOUS
<1> HIDE DEF b
<1>5. robot \in Robot
  BY <1>1, <1>2, <1>4
  DEF Robot, Drive, DriveMode, ActionId, ObstacleSafetyState, ImuSample,
      AutonomyState
<1>6. SupervisorOK(robot)
  BY <1>3, <1>4 DEF SupervisorOK, WellFormed
<1>7. Still(robot) /\ robot.drive.mode = "STOPPED" /\ robot.drive.spin = {}
  BY DEF Still
<1>8. StillWhenLatched(robot) /\ Supervised(robot) /\ Unblocked(robot)
      /\ Forgotten(robot)
  BY <1>7 DEF StillWhenLatched, Supervised, Unblocked, Forgotten
<1>9. Agrees(robot)
  BY <1>3, <1>4 DEF Agrees
<1>10. at = "buttons"
  BY DEF Init
<1>11. QED
  BY <1>5, <1>6, <1>8, <1>9, <1>10 DEF RobotInv, RobotOK, Sound, LoopOK, Call

\* A handler called between two calls of loop() that may follow each other.
LEMMA CallKeeps ==
  ASSUME RobotInv, RobotOK(robot'), robot'.booted,
         at' \in Call \ {"boot", "autonomy"}
  PROVE  RobotInv'
BY DEF RobotInv, RobotOK, LoopOK

\* What the invariant says of the call that comes next.
LEMMA BootedUnlessBoot ==
  ASSUME RobotInv, at \notin {"buttons", "boot"}
  PROVE  RobotOK(robot) /\ robot.booted
BY DEF RobotInv, LoopOK

LEMMA BootStep ==
  ASSUME RobotInv, NoButton \/ BootPhase \/ BootComplete
  PROVE  RobotInv'
<1>1. RobotOK(robot)
  BY DEF RobotInv
<1>2. CASE NoButton
  BY <1>1, <1>2 DEF NoButton, AfterButtons, RobotInv, LoopOK, Call
<1>3. CASE BootPhase
  <2>1. RobotOK(StopAll(robot))
    BY <1>1, StopAllKeeps DEF RobotOK
  <2>2. RobotOK(robot')
    BY <1>1, <1>3, <2>1 DEF BootPhase
  <2>3. at' = "buttons"
    BY <1>3 DEF BootPhase
  <2>4. QED
    BY <2>2, <2>3 DEF RobotInv, RobotOK, LoopOK, Call
<1>4. CASE BootComplete
  <2>1. ~robot.booted
    BY <1>4 DEF BootComplete, RobotInv, LoopOK
  <2>2. RobotOK(robot') /\ robot'.booted
    BY <1>1, <1>4, <2>1, RouterCompleteBootKeeps DEF BootComplete
  <2>3. at' \in Call \ {"boot", "autonomy"}
    BY <1>4 DEF BootComplete, Call
  <2>4. QED
    BY <2>2, <2>3, CallKeeps
<1>5. QED
  BY <1>2, <1>3, <1>4

\* The buttons may be held before the boot is over, and a click is heard then.
LEMMA ButtonStep ==
  ASSUME RobotInv, HoldStopChord \/ HoldResetChord \/ ClickMood
  PROVE  RobotInv'
<1>1. RobotOK(robot) /\ SupervisorOK(robot)
  BY DEF RobotInv, RobotOK, Sound
<1>2. CASE HoldStopChord
  <2>1. robot.booted
    BY <1>1, <1>2 DEF HoldStopChord, SupervisorOK
  <2>2. RobotOK(robot') /\ robot'.booted
    BY <1>1, <1>2, <2>1, PhysicalEmergencyStopKeeps DEF HoldStopChord
  <2>3. at' \in Call \ {"boot", "autonomy"}
    BY <1>2, <2>1 DEF HoldStopChord, AfterButtons, Call
  <2>4. QED
    BY <2>2, <2>3, CallKeeps
<1>3. CASE HoldResetChord
  <2>1. robot.booted
    BY <1>1, <1>3 DEF HoldResetChord, SupervisorOK
  <2>2. RobotOK(robot') /\ robot'.booted
    BY <1>1, <1>3, <2>1, ClearPhysicalEmergencyStopKeeps DEF HoldResetChord
  <2>3. at' \in Call \ {"boot", "autonomy"}
    BY <1>3, <2>1 DEF HoldResetChord, AfterButtons, Call
  <2>4. QED
    BY <2>2, <2>3, CallKeeps
<1>4. CASE ClickMood
  <2>1. RobotOK(StopAll(robot)) /\ StopAll(robot).booted = robot.booted
    BY <1>1, StopAllKeeps DEF RobotOK
  <2>2. LET t == StartAction(robot, "SLEEP")
        IN RobotOK(t) /\ t.booted = robot.booted
    BY <1>1, StartActionKeeps DEF ActionId
  <2>3. RobotOK(robot') /\ robot'.booted = robot.booted
    BY <1>4, <2>1, <2>2 DEF ClickMood
  <2>4. at' = IF robot.booted THEN "robot" ELSE "boot"
    BY <1>4 DEF ClickMood, AfterButtons
  <2>5. QED
    BY <2>3, <2>4 DEF RobotInv, LoopOK, Call
<1>5. QED
  BY <1>2, <1>3, <1>4

LEMMA RobotUpdateStep ==
  ASSUME RobotInv, RobotUpdate
  PROVE  RobotInv'
<1>1. RobotOK(robot) /\ robot.booted
  BY BootedUnlessBoot DEF RobotUpdate
<1>2. PICK driveTimedOut \in Expired(robot.drive.mode # "STOPPED"),
           jointsArrived \in Expired("moving" \in {robot.limbs, robot.accessory}),
           benchTimedOut \in Expired(robot.diagnostics.unlocked),
           progress \in IF robot.action = "NONE" THEN {"wait"} ELSE Progress,
           reading \in Reading, imu \in ImuSamples :
        robot' =
          LET acted == ActionUpdate(HalUpdate(robot, driveTimedOut, jointsArrived),
                                    progress)
              seen == LookAhead(acted, reading, imu)
          IN IF benchTimedOut THEN LockDiagnostics(seen) ELSE seen
  BY DEF RobotUpdate
<1>. /\ driveTimedOut \in BOOLEAN /\ jointsArrived \in BOOLEAN
     /\ progress \in Progress
  BY DEF Expired, Progress
<1> DEFINE h == HalUpdate(robot, driveTimedOut, jointsArrived)
           acted == ActionUpdate(h, progress)
           seen == LookAhead(acted, reading, imu)
<1>3. robot' = IF benchTimedOut THEN LockDiagnostics(seen) ELSE seen
  BY <1>2
<1>4. RobotOK(h) /\ h.booted
  BY <1>1, HalUpdateKeeps
<1> HIDE DEF h
<1>5. RobotOK(acted) /\ acted.booted
  BY <1>4, ActionUpdateKeeps
<1> HIDE DEF acted
<1>6. imu \in ImuSample
  BY RobotAssumption
<1>7. RobotOK(seen) /\ seen.booted
  BY <1>5, <1>6, LookAheadKeeps
<1> HIDE DEF seen
<1>8. RobotOK(LockDiagnostics(seen)) /\ LockDiagnostics(seen).booted
  BY <1>7, LockDiagnosticsKeeps
<1>9. RobotOK(robot') /\ robot'.booted
  BY <1>3, <1>7, <1>8
<1>10. at' \in Call \ {"boot", "autonomy"}
  BY DEF RobotUpdate, Call
<1>11. QED
  BY <1>9, <1>10, CallKeeps

LEMMA RouterStep ==
  ASSUME RobotInv, RouterUpdateSafety
  PROVE  RobotInv'
<1>1. RobotOK(robot) /\ robot.booted
  BY BootedUnlessBoot DEF RouterUpdateSafety
<1>2. UpdateSafetyEffect(robot, UpdateSafety(robot))
  BY <1>1, UpdateSafetyKeeps DEF RobotOK
<1>3. robot' = UpdateSafety(robot) /\ at' = "autonomy"
  BY DEF RouterUpdateSafety
<1>4. RobotOK(robot') /\ robot'.booted /\ ~robot'.sup.disarmRequested
  BY <1>1, <1>2, <1>3 DEF UpdateSafetyEffect, RobotOK
<1>5. QED
  BY <1>3, <1>4 DEF RobotInv, LoopOK, Call

\* handleAutonomy() keeps the invariant, and leaves the wheels alone unless the
\* autonomy may move.
LEMMA AutonomyStep ==
  ASSUME RobotInv, HandleAutonomy
  PROVE  /\ RobotInv'
         /\ ~AutonomyMayMove(robot) => robot'.drive.mode = robot.drive.mode
<1>1. RobotOK(robot) /\ robot.booted
  BY BootedUnlessBoot DEF HandleAutonomy
<1>2. PICK elapsed \in BOOLEAN, lapsed \in BOOLEAN :
        robot' = IF lapsed THEN Lapsed(AutonomyUpdate(robot, elapsed))
                 ELSE AutonomyUpdate(robot, elapsed)
  BY DEF HandleAutonomy, Expired, Lapsed
<1> DEFINE r == AutonomyUpdate(robot, elapsed)
<1>3. /\ RobotOK(r) /\ r.booted /\ NothingSaved(r)
      /\ ~AutonomyMayMove(robot) => r.drive.mode = robot.drive.mode
  BY <1>1, AutonomyUpdateKeeps
<1> HIDE DEF r
<1>4. RobotOK(Lapsed(r)) /\ Lapsed(r).booted /\ Lapsed(r).drive = r.drive
  BY <1>3, LapsedKeeps
<1>5. robot' = IF lapsed THEN Lapsed(r) ELSE r
  BY <1>2 DEF r
<1>6. /\ RobotOK(robot') /\ robot'.booted
      /\ ~AutonomyMayMove(robot) => robot'.drive.mode = robot.drive.mode
  BY <1>3, <1>4, <1>5
<1>7. at' \in Call \ {"boot", "autonomy"}
  BY DEF HandleAutonomy, Call
<1>8. QED
  BY <1>6, <1>7, CallKeeps

\* The commands, whoever sends them, and the stops of WifiControl.
LEMMA CommandStep ==
  ASSUME RobotInv,
         \/ WifiStop \/ CommandArm \/ CommandDisarm \/ CommandStop \/ CommandMove
         \/ CommandAction \/ CommandJoint \/ CommandAutonomy \/ SerialServoTest
  PROVE  RobotInv'
<1>1. at \in {"wifi", "serial"} /\ at' = at
  BY DEF WifiStop, CommandArm, CommandDisarm, CommandStop, CommandMove,
         CommandAction, CommandJoint, CommandAutonomy, SerialServoTest, Commanding
<1>2. RobotOK(robot) /\ robot.booted
  BY <1>1, BootedUnlessBoot
<1>3. Sound(robot) /\ Forgotten(robot)
  BY <1>2 DEF RobotOK
<1>4. CASE WifiStop
  <2>1. \A fault \in WifiFaults : LET t == EmergencyStop(robot, fault)
                                  IN RobotOK(t) /\ t.booted
    BY <1>2, EmergencyStopKeeps, RobotAssumption
  <2>2. RobotOK(robot') /\ robot'.booted
    BY <1>4, <2>1 DEF WifiStop
  <2>3. QED
    BY <1>1, <2>2, CallKeeps DEF Call
<1>5. CASE CommandArm
  BY <1>1, <1>2, <1>5, ExecuteArmKeeps, CallKeeps DEF CommandArm, Call
<1>6. CASE CommandDisarm
  BY <1>1, <1>2, <1>6, ExecuteDisarmKeeps, CallKeeps DEF CommandDisarm, Call
<1>7. CASE CommandStop
  BY <1>1, <1>2, <1>3, <1>7, ExecuteStopKeeps, CallKeeps DEF CommandStop, Call
<1>8. CASE CommandMove
  <2>1. PICK mode \in DriveMode : robot' = ExecuteMove(robot, mode, FALSE)
    BY <1>8 DEF CommandMove
  <2>2. RobotOK(robot') /\ robot'.booted
    BY <1>2, <1>3, <2>1, ExecuteMoveKeeps
  <2>3. QED
    BY <1>1, <2>2, CallKeeps DEF Call
<1>9. CASE CommandAction
  <2>1. PICK action \in ActionId : robot' = ExecuteAction(robot, action)
    BY <1>9 DEF CommandAction
  <2>2. RobotOK(robot') /\ robot'.booted
    BY <1>2, <2>1, ExecuteActionKeeps
  <2>3. QED
    BY <1>1, <2>2, CallKeeps DEF Call
<1>10. CASE CommandJoint
  <2>1. PICK joint \in Joints : robot' = ExecuteJoint(robot, joint)
    BY <1>10 DEF CommandJoint
  <2>2. RobotOK(robot') /\ robot'.booted
    BY <1>2, <2>1, ExecuteJointKeeps
  <2>3. QED
    BY <1>1, <2>2, CallKeeps DEF Call
<1>11. CASE CommandAutonomy
  <2>1. PICK flag \in BOOLEAN : robot' = ExecuteAutonomySet(robot, flag)
    BY <1>11 DEF CommandAutonomy
  <2>2. RobotOK(robot') /\ robot'.booted
    BY <1>2, <2>1, ExecuteAutonomySetKeeps
  <2>3. QED
    BY <1>1, <2>2, CallKeeps DEF Call
<1>12. CASE SerialServoTest
  <2>1. \/ robot' \in {ExecuteUnlock(robot), ExecuteLock(robot)}
        \/ \E otherWheel \in BOOLEAN, accepted \in BOOLEAN :
             robot' = ExecuteTest(robot, otherWheel, accepted)
    BY <1>12 DEF SerialServoTest
  <2>2. /\ RobotOK(ExecuteUnlock(robot)) /\ ExecuteUnlock(robot).booted
        /\ RobotOK(ExecuteLock(robot)) /\ ExecuteLock(robot).booted
    BY <1>2, ExecuteUnlockKeeps, ExecuteLockKeeps
  <2>3. \A otherWheel \in BOOLEAN, accepted \in BOOLEAN :
          LET t == ExecuteTest(robot, otherWheel, accepted)
          IN RobotOK(t) /\ t.booted
    BY <1>2, ExecuteTestKeeps
  <2>4. RobotOK(robot') /\ robot'.booted
    BY <2>1, <2>2, <2>3
  <2>5. QED
    BY <1>1, <2>4, CallKeeps DEF Call
<1>13. QED
  BY <1>4, <1>5, <1>6, <1>7, <1>8, <1>9, <1>10, <1>11, <1>12

LEMMA RollerWireStep ==
  ASSUME RobotInv, RollerWire
  PROVE  RobotInv' /\ robot'.drive.mode = robot.drive.mode
<1>1. RobotOK(robot) /\ robot \in Robot
  BY DEF RobotInv, RobotOK, Sound
<1>2. /\ robot' = [robot EXCEPT !.drive.answers = ~@] /\ at' = at
  BY DEF RollerWire
<1>3. /\ robot' \in Robot /\ robot'.sup = robot.sup
      /\ robot'.booted = robot.booted /\ robot'.saved = robot.saved
      /\ robot'.action = robot.action /\ robot'.obstacle = robot.obstacle
      /\ robot'.diagnostics = robot.diagnostics
      /\ robot'.autonomy = robot.autonomy
      /\ robot'.drive.connected = robot.drive.connected
      /\ robot'.drive.armed = robot.drive.armed
      /\ robot'.drive.mode = robot.drive.mode
      /\ robot'.drive.spin = robot.drive.spin
  BY <1>1, <1>2 DEF Robot, Drive
<1>4. RobotOK(robot')
  BY <1>1, <1>3
  DEF RobotOK, Sound, SupervisorOK, StillWhenLatched, Still, Agrees, Supervised,
      Unblocked, BlocksForward, Forgotten
<1>5. QED
  BY <1>2, <1>3, <1>4 DEF RobotInv, LoopOK

\* The invariant is inductive.
LEMMA EveryStepKeeps == RobotInv /\ [Next]_vars => RobotInv'
<1> SUFFICES ASSUME RobotInv, [Next]_vars PROVE RobotInv'
  OBVIOUS
<1>1. CASE UNCHANGED vars
  BY <1>1 DEF vars, RobotInv, LoopOK
<1>2. CASE CommandsDone
  <2>1. RobotOK(robot) /\ robot.booted
    BY <1>2, BootedUnlessBoot DEF CommandsDone
  <2>2. QED
    BY <1>2, <2>1, CallKeeps DEF CommandsDone, Call
<1>3. QED
  BY <1>1, <1>2, BootStep, ButtonStep, RobotUpdateStep, RouterStep, AutonomyStep,
     CommandStep, RollerWireStep
  DEF Next

LEMMA RobotInvariant == Spec => []RobotInv
BY RobotInit, EveryStepKeeps, PTL DEF Spec

-----------------------------------------------------------------------------
(* The theorems. *)

\* Every field of every object keeps its type, whatever is called.
THEOREM RobotTypeCorrect == Spec => []TypeOK
<1>1. RobotInv => TypeOK
  BY DEF RobotInv, RobotOK, Sound, LoopOK, TypeOK
<1>2. QED
  BY <1>1, RobotInvariant, PTL

\* After an incident that has been serviced, and before the boot is over,
\* nothing can set the wheels going.
THEOREM LatchedRobotIsStill == Spec => []LatchedIsStill
<1>1. RobotInv => LatchedIsStill
  BY DEF RobotInv, RobotOK, Sound, StillWhenLatched, Still, LatchedIsStill,
         Connected
<1>2. QED
  BY <1>1, RobotInvariant, PTL

\* The supervisor and the drive never disagree about being armed for longer
\* than a disarm request is pending.
THEOREM SupervisorAndDriveAgree == Spec => []ArmedAgrees
<1>1. RobotInv => ArmedAgrees
  BY DEF RobotInv, RobotOK, Sound, Agrees, ArmedAgrees, Connected
<1>2. QED
  BY <1>1, RobotInvariant, PTL

\* No wheel turns without a time-out or a lock that will stop it.
THEOREM TurningWheelsAreSupervised == Spec => []WheelsSupervised
<1>1. RobotInv => WheelsSupervised
  BY DEF RobotInv, RobotOK, Sound, Supervised, WheelsSupervised, Connected
<1>2. QED
  BY <1>1, RobotInvariant, PTL

\* No forward drive outlives a reading that forbids it.
THEOREM ForwardIsClear == Spec => []NoForwardIntoObstacle
<1>1. RobotInv => NoForwardIntoObstacle
  BY DEF RobotInv, RobotOK, Sound, Unblocked, NoForwardIntoObstacle
<1>2. QED
  BY <1>1, RobotInvariant, PTL

\* An avoidance manoeuvre ends with nothing to resume.
THEOREM AvoidanceForgets == Spec => []NothingToResume
<1>1. RobotInv => NothingToResume
  <2> SUFFICES ASSUME RobotInv, AutonomyMayMove(robot),
                      robot.autonomy.state \in {"WAIT_FOR_CLEARANCE", "RESUMING"}
               PROVE  robot.saved = "STOPPED"
    BY DEF NothingToResume
  <2>1. Sound(robot) /\ Forgotten(robot)
    BY DEF RobotInv, RobotOK
  <2>2. QED
    BY <2>1, MayMoveMeans DEF Forgotten
<1>2. QED
  BY <1>1, RobotInvariant, PTL

\* Every fault is serviced before the autonomy or a command acts on the next
\* pass.
THEOREM IncidentsServiced == Spec => []IncidentServiced
<1>1. RobotInv => IncidentServiced
  BY DEF RobotInv, LoopOK, IncidentServiced
<1>2. QED
  BY <1>1, RobotInvariant, PTL

\* The autonomy leaves the wheels alone while a manual override is pending.
THEOREM ManualDriveHasPrecedence == Spec => AutonomyYields
<1>1. ASSUME RobotInv, [Next]_vars
      PROVE  [at = "autonomy" /\ robot.sup.manualOverrideUntilMs # Now
                => robot'.drive.mode = robot.drive.mode]_vars
  <2> SUFFICES ASSUME Next, at = "autonomy",
                      robot.sup.manualOverrideUntilMs # Now
               PROVE  robot'.drive.mode = robot.drive.mode
    BY <1>1
  <2>1. HandleAutonomy \/ RollerWire
    BY DEF Next, NoButton, HoldStopChord, HoldResetChord, ClickMood, BootPhase,
           BootComplete, RobotUpdate, RouterUpdateSafety, WifiStop, CommandArm,
           CommandDisarm, CommandStop, CommandMove, CommandAction, CommandJoint,
           CommandAutonomy, SerialServoTest, CommandsDone, Commanding
  <2>2. ~AutonomyMayMove(robot)
    <3>1. Sound(robot)
      BY <1>1 DEF RobotInv, RobotOK
    <3>2. QED
      BY <3>1, MayMoveMeans DEF Now
  <2>3. QED
    BY <1>1, <2>1, <2>2, AutonomyStep, RollerWireStep
<1>2. QED
  BY <1>1, RobotInvariant, PTL DEF Spec, AutonomyYields
-----------------------------------------------------------------------------
(* Embodiment: what an intent does to the robot.                             *)

LEMMA NothingStartedAddsUp ==
  ASSUME NEW r, NEW s, NEW t, NothingStarted(r, s), NothingStarted(s, t)
  PROVE  NothingStarted(r, t)
BY DEF NothingStarted

\* updateSafety() starts nothing: it disarms the robot or leaves it alone.
LEMMA UpdateSafetyStartsNothing ==
  ASSUME NEW r \in Robot
  PROVE  UpdateSafety(r) \in Robot /\ NothingStarted(r, UpdateSafety(r))
<1> DEFINE v == Updated(r.sup, Inputs(r), Now)
           u == WithSupervisor(r, v)
           w == WithoutRequest(u)
           l == LockDiagnostics(DisableAutonomy(w))
           t == DisarmMotors(l)
<1>1. v \in Supervisor
  <2>1. r.sup \in Supervisor
    BY DEF Robot
  <2>2. QED
    BY <2>1, InputsOfRobot, UpdatedType
<1>2. SupervisorOnly(r, u)
  BY <1>1, WithSupervisorEffect
<1>3. UpdateSafety(r) \in {r, u, ServiceDisarm(u)}
  BY DEF UpdateSafety, WithSupervisor
<1>4. ServiceDisarm(u) = t
  BY DEF ServiceDisarm, WithoutRequest
<1> HIDE DEF u
<1>5. w \in Robot
  BY <1>2 DEF WithoutRequest, SupervisorOnly, Robot, Supervisor
<1> HIDE DEF w
<1>6. l \in Robot
  BY <1>5, LockedAndDisabled
<1> HIDE DEF l
<1>7. HaltedBy(l, t) /\ ~t.drive.armed
  BY <1>6, DisarmMotorsEffect
<1> HIDE DEF t
<1>8. NothingStarted(r, t) /\ t \in Robot
  BY <1>7 DEF HaltedBy, AtRest, NothingStarted
<1>9. NothingStarted(r, u) /\ u \in Robot
  BY <1>2 DEF SupervisorOnly, NothingStarted
<1>10. NothingStarted(r, r)
  BY DEF NothingStarted
<1>11. QED
  BY <1>3, <1>4, <1>8, <1>9, <1>10

\* MOVE: if move() grants it the robot drives as asked, as long as it can be
\* reached; if not, nothing has started.
LEMMA MoveDrives ==
  ASSUME NEW r0, RobotOK(r0), NEW mode \in DriveMode \ {"STOPPED"}
  PROVE  LET t == Move(r0, mode, TRUE, FALSE)
         IN IF Moved(r0, mode, FALSE)
            THEN /\ t.sup.state = "ARMED"
                 /\ t.drive.connected => t.drive.mode = mode
            ELSE t \in Robot /\ NothingStarted(r0, t)
<1> DEFINE r == CancelAction(r0, FALSE, TRUE)
           forward == mode = "FORWARD"
           v == DriveRequested(r.sup, forward, FALSE, Now)
           u == WithSupervisor(r, v)
           s == Remembering(u, mode)
           d == DriveWheels(s, mode)
           m == Move(r0, mode, TRUE, FALSE)
<1>1. r0 \in Robot
  BY DEF RobotOK, Sound
<1>2. /\ r \in Robot /\ r.sup = r0.sup /\ r.obstacle = r0.obstacle
      /\ r.drive = r0.drive /\ r.action = "NONE"
  BY <1>1, CancelActionEffect
<1>3. m = IF ~r.drive.armed THEN r
          ELSE IF ~Moved(r, mode, FALSE) THEN StopWheels(u)
          ELSE d
  BY DEF Move, WithSupervisor, Remembering
<1> HIDE DEF r, m
<1>4. Moved(r, mode, FALSE) = Moved(r0, mode, FALSE)
  BY <1>2 DEF Moved, BlocksForward
<1>5. /\ r.sup \in Supervisor /\ WellFormed(r.sup) /\ forward \in BOOLEAN
  BY <1>2 DEF RobotOK, Sound, SupervisorOK, Robot
<1> HIDE DEF forward
<1>6. /\ v = r.sup \/ LatchedBy(r.sup, v) \/ Overriding(r.sup, v)
      /\ DriveGranted(r.sup, forward, FALSE, Now) =>
           r.sup.state = "ARMED" /\ Overriding(r.sup, v)
  BY <1>5, DriveRequestedEffect
<1>7. SupervisorOnly(r, u) /\ u.sup = v
  BY <1>2, <1>5, <1>6, WithSupervisorEffect DEF LatchedBy, Overriding
<1> HIDE DEF u, v
<1>8. NothingStarted(r0, r) /\ NothingStarted(r0, u) /\ u \in Robot
  BY <1>2, <1>7 DEF NothingStarted, SupervisorOnly
<1>9. CASE ~r.drive.armed
  <2>1. ~Moved(r0, mode, FALSE)
    BY <1>2, <1>9 DEF Moved
  <2>2. QED
    BY <1>2, <1>3, <1>8, <1>9, <2>1 DEF m
<1>10. CASE r.drive.armed /\ ~Moved(r, mode, FALSE)
  <2>1. LET t == StopWheels(u)
        IN DriveOnly(u, t) /\ AtRest(t) /\ t.drive.armed = u.drive.armed
    BY <1>8, StopWheelsEffect
  <2>2. StopWheels(u) \in Robot /\ NothingStarted(u, StopWheels(u))
    BY <2>1 DEF DriveOnly, AtRest, NothingStarted
  <2>3. NothingStarted(r0, StopWheels(u))
    BY <1>8, <2>2, NothingStartedAddsUp
  <2>4. QED
    BY <1>3, <1>4, <1>10, <2>2, <2>3 DEF m
<1>11. CASE r.drive.armed /\ Moved(r, mode, FALSE)
  <2>1. DriveGranted(r.sup, forward, FALSE, Now)
    BY <1>11 DEF Moved, forward
  <2>2. u.sup.state = "ARMED"
    BY <1>6, <1>7, <2>1 DEF Overriding
  <2>3. s \in Robot /\ s.sup = u.sup /\ s.drive = u.drive
    BY <1>8 DEF Remembering, Robot
  <2> HIDE DEF s
  <2>4. /\ DriveOnly(s, d)
        /\ d.drive.connected /\ s.drive.armed => d.drive.mode = mode
    BY <2>3, DriveWheelsEffect
  <2>5. s.drive.armed
    BY <1>7, <1>11, <2>3 DEF SupervisorOnly
  <2> HIDE DEF d
  <2>6. QED
    BY <1>3, <1>4, <1>11, <2>2, <2>3, <2>4, <2>5 DEF DriveOnly, m
<1>12. QED
  BY <1>9, <1>10, <1>11

LEMMA ExecuteMoveDrives ==
  ASSUME NEW r0, RobotOK(r0), r0.booted, NEW mode \in DriveMode \ {"STOPPED"}
  PROVE  LET t == ExecuteMove(r0, mode, FALSE)
         IN IF Moved(UpdateSafety(r0), mode, FALSE)
            THEN /\ t.sup.state = "ARMED"
                 /\ t.drive.connected => t.drive.mode = mode
            ELSE NothingStarted(r0, t)
<1> DEFINE r == UpdateSafety(r0)
           m == Move(r, mode, TRUE, FALSE)
<1>1. r0 \in Robot
  BY DEF RobotOK, Sound
<1>2. RobotOK(r) /\ NothingStarted(r0, r)
  BY <1>1, UpdateSafetyKeeps, UpdateSafetyStartsNothing
  DEF UpdateSafetyEffect, RobotOK
<1>3. ExecuteMove(r0, mode, FALSE) =
        IF Moved(r, mode, FALSE) THEN m ELSE UpdateSafety(m)
  BY DEF ExecuteMove
<1> HIDE DEF r
<1>4. IF Moved(r, mode, FALSE)
      THEN /\ m.sup.state = "ARMED"
           /\ m.drive.connected => m.drive.mode = mode
      ELSE m \in Robot /\ NothingStarted(r, m)
  BY <1>2, MoveDrives
<1> HIDE DEF m
<1>5. CASE Moved(r, mode, FALSE)
  BY <1>3, <1>4, <1>5 DEF r
<1>6. CASE ~Moved(r, mode, FALSE)
  <2>1. NothingStarted(m, UpdateSafety(m))
    BY <1>4, <1>6, UpdateSafetyStartsNothing
  <2>2. NothingStarted(r0, UpdateSafety(m))
    BY <1>2, <1>4, <1>6, <2>1, NothingStartedAddsUp
  <2>3. QED
    BY <1>3, <1>6, <2>2 DEF r
<1>7. QED
  BY <1>5, <1>6

\* ARM: the supervisor's answer and the drive's are the answer; without both
\* nothing has started.
LEMMA ExecuteArmArms ==
  ASSUME NEW r0, RobotOK(r0), r0.booted
  PROVE  LET t == ExecuteArm(r0)
             checked == UpdateSafety(r0)
         IN IF ArmGranted(checked.sup, Inputs(checked)) /\ t.drive.armed
            THEN t.sup.state = "ARMED"
            ELSE NothingStarted(r0, t)
<1> DEFINE r == UpdateSafety(r0)
           v == ArmRequested(r.sup, Inputs(r))
           u == WithSupervisor(r, v)
           a == ArmWheels(u)
           f == WithSupervisor(a, LatchFault(a.sup, "DRIVE_UNAVAILABLE"))
           t == ExecuteArm(r0)
<1>1. r0 \in Robot
  BY DEF RobotOK, Sound
<1>2. RobotOK(r) /\ NothingStarted(r0, r)
  BY <1>1, UpdateSafetyKeeps, UpdateSafetyStartsNothing
  DEF UpdateSafetyEffect, RobotOK
<1>3. t = IF ArmGranted(r.sup, Inputs(r)) THEN ArmMotors(u) ELSE UpdateSafety(u)
  BY DEF ExecuteArm, WithSupervisor
<1> HIDE DEF r, t
<1>4. /\ r \in Robot /\ r.sup \in Supervisor /\ WellFormed(r.sup)
      /\ Inputs(r) \in SafetyInputs
  BY <1>2, InputsOfRobot DEF RobotOK, Sound, SupervisorOK, Robot
<1>5. v \in Supervisor /\ (ArmGranted(r.sup, Inputs(r)) => v.state = "ARMED")
  BY <1>4, ArmRequestedEffect, ArmRequestedType
<1>6. SupervisorOnly(r, u) /\ u.sup = v
  BY <1>4, <1>5, WithSupervisorEffect
<1> HIDE DEF u, v
<1>7. u \in Robot /\ NothingStarted(r0, u)
  BY <1>2, <1>6 DEF SupervisorOnly, NothingStarted
<1>8. CASE ArmGranted(r.sup, Inputs(r))
  <2>1. DriveOnly(u, a) /\ a.drive.mode = u.drive.mode
    BY <1>7, ArmWheelsEffect
  <2>2. t = IF a.drive.armed THEN a ELSE f
    BY <1>3, <1>5, <1>6, <1>8 DEF ArmMotors, MayEnableDrive, WithSupervisor
  <2> HIDE DEF a
  <2>3. CASE a.drive.armed
    BY <1>5, <1>6, <1>8, <2>1, <2>2, <2>3 DEF DriveOnly, t, r
  <2>4. CASE ~a.drive.armed
    <3>1. f.drive = a.drive /\ f.action = a.action
      BY <2>1 DEF DriveOnly, Robot, WithSupervisor
    <3> HIDE DEF f
    <3>2. NothingStarted(u, f) /\ ~f.drive.armed
      BY <2>1, <2>4, <3>1 DEF DriveOnly, NothingStarted
    <3>3. NothingStarted(r0, f)
      BY <1>7, <3>2, NothingStartedAddsUp
    <3>4. QED
      BY <2>2, <2>4, <3>2, <3>3 DEF t
  <2>5. QED
    BY <2>3, <2>4
<1>9. CASE ~ArmGranted(r.sup, Inputs(r))
  <2>1. NothingStarted(u, UpdateSafety(u))
    BY <1>7, UpdateSafetyStartsNothing
  <2>2. NothingStarted(r0, UpdateSafety(u))
    BY <1>7, <2>1, NothingStartedAddsUp
  <2>3. QED
    BY <1>3, <1>9, <2>2 DEF t, r
<1>10. QED
  BY <1>8, <1>9

\* STOP and DISARM do what they say, whatever the robot was doing.
LEMMA ExecuteStopStops ==
  ASSUME NEW r0 \in Robot
  PROVE  ExecuteStop(r0).drive.mode = "STOPPED" /\ ExecuteStop(r0).action = "NONE"
<1>1. UpdateSafety(r0) \in Robot
  BY UpdateSafetyStartsNothing
<1>2. QED
  BY <1>1, StopAllEffect DEF ExecuteStop, HaltedBy, AtRest

LEMMA ExecuteDisarmDisarms ==
  ASSUME NEW r0, RobotOK(r0)
  PROVE  LET t == ExecuteDisarm(r0)
         IN t.sup.state # "ARMED" /\ ~t.drive.armed
<1> DEFINE r == UpdateSafety(r0)
           v == DisarmRequested(r.sup)
           w == WithSupervisor(r, v)
           u == DisableAutonomy(w)
           t == DisarmMotors(u)
<1>1. Sound(r)
  BY UpdateSafetyKeeps DEF UpdateSafetyEffect, RobotOK
<1>2. ExecuteDisarm(r0) = t
  BY DEF ExecuteDisarm, WithSupervisor
<1> HIDE DEF r
<1>3. r \in Robot /\ r.sup \in Supervisor /\ WellFormed(r.sup)
  BY <1>1 DEF Sound, SupervisorOK, Robot
<1>4. v \in Supervisor /\ v.state # "ARMED"
  BY <1>3, DisarmRequestedEffect DEF LatchedBy, LatchedStates
<1>5. SupervisorOnly(r, w) /\ w.sup = v
  BY <1>3, <1>4, WithSupervisorEffect
<1> HIDE DEF v, w
<1>6. u \in Robot /\ u.sup = v
  BY <1>5, DisableAutonomyEffect DEF SupervisorOnly
<1> HIDE DEF u
<1>7. HaltedBy(u, t) /\ ~t.drive.armed
  BY <1>6, DisarmMotorsEffect
<1>8. QED
  BY <1>2, <1>4, <1>6, <1>7 DEF HaltedBy

\* An action or an accessory moves if manipulators may, by the safety check that
\* the command itself makes (RobotAPI::action, setAccessoryPosition).
LEMMA ExecuteActionActs ==
  ASSUME NEW r0 \in Robot, NEW action \in ActionId
  PROVE  LET t == ExecuteAction(r0, action)
         IN MayMoveManipulators(t.sup) => t.action = action
<1> DEFINE r == UpdateSafety(r0)
           owns == OwnsDrive(r.action) \/ StopsDrive(action)
           c == CancelAction(r, owns, TRUE)
           s == [c EXCEPT !.action = action]
           t == ExecuteAction(r0, action)
<1>1. r \in Robot
  BY UpdateSafetyStartsNothing
<1>2. t = IF ~MayMoveManipulators(r.sup) THEN r ELSE s
  BY DEF ExecuteAction, StartAction
<1>3. owns \in BOOLEAN
  BY DEF OwnsDrive, StopsDrive
<1> HIDE DEF r, owns
<1>4. c \in Robot
  BY <1>1, <1>3, CancelActionEffect
<1> HIDE DEF c
<1>5. s.action = action
  BY <1>4 DEF Robot
<1> HIDE DEF s, t
<1>6. QED
  BY <1>2, <1>5 DEF t

LEMMA ExecuteJointMoves ==
  ASSUME NEW r0 \in Robot
  PROVE  LET t == ExecuteJoint(r0, "accessory")
         IN MayMoveManipulators(t.sup) => t.accessory = "moving"
<1> DEFINE r == UpdateSafety(r0)
           m == [r EXCEPT !.accessory = "moving"]
           t == ExecuteJoint(r0, "accessory")
<1>1. r \in Robot
  BY UpdateSafetyStartsNothing
<1>2. t = IF ~MayMoveManipulators(r.sup) THEN r ELSE m
  BY DEF ExecuteJoint
<1> HIDE DEF r
<1>3. m.accessory = "moving"
  BY <1>1 DEF Robot
<1> HIDE DEF m, t
<1>4. QED
  BY <1>2, <1>3 DEF t

\* An intent that is accepted is one with arguments (IntentResolver::resolve).
LEMMA AcceptedIntent ==
  ASSUME NEW intent \in Intents, NEW c, Resolved(intent, c) = "ACCEPTED"
  PROVE  /\ intent.kind \in IntentKind \ {"NONE"}
         /\ intent.kind = "MOVE" => intent.arg \in DriveMode \ {"STOPPED"}
         /\ intent.kind = "ACTION" => intent.arg \in ActionId \ {"NONE"}
         /\ intent.kind = "SET_MOOD" => intent.arg \in Mood
         /\ intent.kind = "ACCESSORY" => intent.arg \in AccessoryPlace
<1>1. /\ intent.kind \in IntentKind
      /\ intent.kind = "MOVE" =>
           intent.arg \in (DriveMode \ {"STOPPED"}) \cup {"malformed"}
      /\ intent.kind = "ACTION" =>
           intent.arg \in (ActionId \ {"NONE"}) \cup {"malformed"}
      /\ intent.kind = "SET_MOOD" => intent.arg \in Mood \cup {"malformed"}
      /\ intent.kind = "ACCESSORY" => intent.arg \in AccessoryPlace
  BY EmbodimentAssumption
<1>2. /\ intent.kind # "NONE"
      /\ intent.kind \in {"MOVE", "ACTION", "SET_MOOD"} => intent.arg # "malformed"
  BY DEF Resolved
<1>3. QED
  BY <1>1, <1>2

\* What the command of an intent is, one handler of the router for each kind.
LEMMA ExecutionOfKind ==
  ASSUME NEW r, NEW intent, intent.kind \in IntentKind \ {"NONE", "MOVE", "ARM"}
  PROVE  Execution(r, intent) =
           <<CASE intent.kind = "STOP" -> ExecuteStop(r)
               [] intent.kind = "DISARM" -> ExecuteDisarm(r)
               [] intent.kind = "ACTION" -> ExecuteAction(r, intent.arg)
               [] intent.kind = "SET_MOOD" -> ExecuteMood(r, intent.arg)
               [] intent.kind = "ACCESSORY" /\ intent.arg = "fitted" ->
                    ExecuteJoint(r, "accessory")
               [] OTHER -> UpdateSafety(r), TRUE>>
BY DEF Execution, IntentKind

LEMMA FirstAndSecond == \A e, a, b : e = <<a, b>> => e[1] = a /\ e[2] = b
OBVIOUS

LEMMA ExecuteMoodKeeps ==
  ASSUME NEW r, RobotOK(r), r.booted, NEW mood
  PROVE  RobotOK(ExecuteMood(r, mood)) /\ ExecuteMood(r, mood).booted
<1>1. ExecuteMood(r, mood)
        \in {UpdateSafety(r), ExecuteStop(r), ExecuteAction(r, "SLEEP")}
  BY DEF ExecuteMood
<1>2. RobotOK(UpdateSafety(r)) /\ UpdateSafety(r).booted
  BY UpdateSafetyKeeps DEF UpdateSafetyEffect, RobotOK
<1>3. RobotOK(ExecuteStop(r)) /\ ExecuteStop(r).booted
  BY ExecuteStopKeeps DEF RobotOK
<1>4. "SLEEP" \in ActionId
  BY DEF ActionId
<1>5. RobotOK(ExecuteAction(r, "SLEEP")) /\ ExecuteAction(r, "SLEEP").booted
  BY <1>4, ExecuteActionKeeps
<1>6. QED
  BY <1>1, <1>2, <1>3, <1>5

\* The command an intent becomes keeps a robot in order.
LEMMA ExecutionKeeps ==
  ASSUME NEW r, RobotOK(r), r.booted,
         NEW intent \in Intents, NEW c, Resolved(intent, c) = "ACCEPTED"
  PROVE  RobotOK(Execution(r, intent)[1]) /\ Execution(r, intent)[1].booted
<1> DEFINE e == Execution(r, intent)
<1>1. /\ intent.kind \in IntentKind \ {"NONE"}
      /\ intent.kind = "MOVE" => intent.arg \in DriveMode \ {"STOPPED"}
      /\ intent.kind = "ACTION" => intent.arg \in ActionId \ {"NONE"}
  BY AcceptedIntent
<1>2. Sound(r) /\ Forgotten(r)
  BY DEF RobotOK
<1>3. CASE intent.kind = "MOVE"
  <2>1. RobotOK(ExecuteMove(r, intent.arg, FALSE))
        /\ ExecuteMove(r, intent.arg, FALSE).booted
    BY <1>1, <1>2, <1>3, ExecuteMoveKeeps
  <2>2. e = <<ExecuteMove(r, intent.arg, FALSE),
              Moved(UpdateSafety(r), intent.arg, FALSE)>>
    BY <1>3 DEF Execution
  <2> HIDE DEF e
  <2>3. e[1] = ExecuteMove(r, intent.arg, FALSE)
    BY <2>2, FirstAndSecond, Zenon
  <2>4. QED
    BY <2>1, <2>3 DEF e
<1>4. CASE intent.kind = "ARM"
  <2>1. e[1] = ExecuteArm(r)
    BY <1>4 DEF Execution
  <2>2. QED
    BY <2>1, ExecuteArmKeeps
<1>5. CASE intent.kind \notin {"MOVE", "ARM"}
  <2> DEFINE t == CASE intent.kind = "STOP" -> ExecuteStop(r)
               [] intent.kind = "DISARM" -> ExecuteDisarm(r)
               [] intent.kind = "ACTION" -> ExecuteAction(r, intent.arg)
               [] intent.kind = "SET_MOOD" -> ExecuteMood(r, intent.arg)
               [] intent.kind = "ACCESSORY" /\ intent.arg = "fitted" ->
                    ExecuteJoint(r, "accessory")
               [] OTHER -> UpdateSafety(r)
  <2>1. e = <<t, TRUE>>
    BY <1>1, <1>5, ExecutionOfKind
  <2>2. \/ t = ExecuteStop(r) \/ t = ExecuteDisarm(r)
        \/ intent.kind = "ACTION" /\ t = ExecuteAction(r, intent.arg)
        \/ t = ExecuteMood(r, intent.arg) \/ t = ExecuteJoint(r, "accessory")
        \/ t = UpdateSafety(r)
    OBVIOUS
  <2> HIDE DEF e, t
  <2>3. e[1] = t
    BY <2>1, FirstAndSecond, Zenon
  <2>4. RobotOK(UpdateSafety(r)) /\ UpdateSafety(r).booted
    BY <1>2, UpdateSafetyKeeps DEF UpdateSafetyEffect, RobotOK
  <2>5. RobotOK(t) /\ t.booted
    BY <1>1, <1>2, <2>2, <2>4, ExecuteStopKeeps, ExecuteDisarmKeeps,
       ExecuteActionKeeps, ExecuteMoodKeeps, ExecuteJointKeeps
  <2>6. QED
    BY <2>3, <2>5 DEF e
<1>6. QED
  BY <1>3, <1>4, <1>5

\* The invariant of the loop is one of the loop with intents: whatever was
\* observed, and however long ago, an intent is carried out by the handlers of
\* the commands.
LEMMA SubmitKeeps ==
  ASSUME RobotInv, NEW intent \in Intents, Submit(intent)
  PROVE  RobotInv'
<1>1. at \in {"wifi", "serial"} /\ at' = at
  BY DEF Submit, Commanding
<1>2. RobotOK(robot) /\ robot.booted
  BY <1>1, BootedUnlessBoot
<1>3. robot' = Outcome(robot, intent, caps)[1]
  BY DEF Submit
<1>4. CASE Resolved(intent, caps) = "ACCEPTED"
  <2>1. robot' = Execution(robot, intent)[1]
    BY <1>3, <1>4 DEF Outcome, WithStatus
  <2>2. RobotOK(robot') /\ robot'.booted
    BY <1>2, <1>4, <2>1, ExecutionKeeps
  <2>3. QED
    BY <1>1, <2>2, CallKeeps DEF Call
<1>5. CASE Resolved(intent, caps) # "ACCEPTED"
  <2>1. robot' = robot
    BY <1>3, <1>5 DEF Outcome
  <2>2. QED
    BY <1>1, <1>2, <2>1, CallKeeps DEF Call
<1>6. QED
  BY <1>4, <1>5

LEMMA EmbodimentInvariant == EmbodimentSpec => []RobotInv
<1>1. EmbodimentInit => RobotInv
  BY RobotInit DEF EmbodimentInit
<1>2. RobotInv /\ [EmbodimentNext]_allVars => RobotInv'
  <2> SUFFICES ASSUME RobotInv, [EmbodimentNext]_allVars PROVE RobotInv'
    OBVIOUS
  <2>1. CASE RobotStep
    BY <2>1, EveryStepKeeps DEF RobotStep
  <2>2. CASE Observe \/ UNCHANGED allVars
    <3>1. UNCHANGED vars
      BY <2>2 DEF Observe, Commanding, allVars, vars
    <3>2. QED
      BY <3>1, EveryStepKeeps
  <2>3. CASE \E intent \in Intents : Submit(intent)
    BY <2>3, SubmitKeeps
  <2>4. QED
    BY <2>1, <2>2, <2>3 DEF EmbodimentNext
<1>3. QED
  BY <1>1, <1>2, PTL DEF EmbodimentSpec

\* The status is decided by the result alone (CommandExecutor::execute).
LEMMA StatusOfResult ==
  ASSUME NEW t, NEW result \in BOOLEAN
  PROVE  (Status(t, result) = "SUCCEEDED") <=> result
BY DEF Status

\* The same of a whole outcome, however old the capabilities are: each kind of
\* intent does what it asked, or is dropped unreported, or has started nothing.
LEMMA OutcomeIsReal ==
  ASSUME NEW r, RobotOK(r), r.booted, NEW intent \in Intents, NEW c
  PROVE  LET outcome == Outcome(r, intent, c)
         IN IF outcome[2] = "SUCCEEDED"
            THEN Fulfilled(intent, outcome[1]) \/ NotReported(intent, outcome[1])
            ELSE NothingStarted(r, outcome[1])
<1> DEFINE outcome == Outcome(r, intent, c)
           e == Execution(r, intent)
<1>1. CASE Resolved(intent, c) # "ACCEPTED"
  <2>1. outcome = <<r, "REJECTED">>
    BY <1>1 DEF Outcome
  <2>2. QED
    BY <2>1 DEF NothingStarted
<1>2. CASE Resolved(intent, c) = "ACCEPTED"
  <2>1. outcome = <<e[1], Status(e[1], e[2])>>
    BY <1>2 DEF Outcome, WithStatus
  <2>2. /\ intent.kind \in IntentKind \ {"NONE"}
        /\ intent.kind = "MOVE" => intent.arg \in DriveMode \ {"STOPPED"}
        /\ intent.kind = "ACTION" => intent.arg \in ActionId \ {"NONE"}
    BY <1>2, AcceptedIntent
  <2>3. r \in Robot
    BY DEF RobotOK, Sound
  <2> HIDE DEF outcome
  <2>4. outcome[1] = e[1] /\ outcome[2] = Status(e[1], e[2])
    BY <2>1, FirstAndSecond, Zenon
  <2>5. CASE intent.kind = "MOVE"
    <3> DEFINE t == ExecuteMove(r, intent.arg, FALSE)
               moved == Moved(UpdateSafety(r), intent.arg, FALSE)
    <3>1. e = <<t, moved>>
      BY <2>5 DEF Execution
    <3>2. IF moved
          THEN /\ t.sup.state = "ARMED"
               /\ t.drive.connected => t.drive.mode = intent.arg
          ELSE NothingStarted(r, t)
      BY <2>2, <2>5, ExecuteMoveDrives
    <3>3. moved \in BOOLEAN
      BY DEF Moved
    <3> HIDE DEF e, t, moved
    <3>4. outcome[1] = t /\ outcome[2] = Status(t, moved)
      BY <2>4, <3>1, FirstAndSecond, Zenon
    <3>5. (outcome[2] = "SUCCEEDED") <=> moved
      BY <3>3, <3>4, StatusOfResult, Zenon
    <3>6. QED
      BY <2>5, <3>2, <3>4, <3>5 DEF Fulfilled, NotReported, outcome
  <2>6. CASE intent.kind = "ARM"
    <3> DEFINE t == ExecuteArm(r)
               checked == UpdateSafety(r)
               granted == ArmGranted(checked.sup, Inputs(checked))
               armed == granted /\ t.drive.armed
    <3>1. e = <<t, armed>>
      BY <2>6 DEF Execution
    <3>2. IF armed THEN t.sup.state = "ARMED" /\ t.drive.armed
          ELSE NothingStarted(r, t)
      BY ExecuteArmArms
    <3>3. armed \in BOOLEAN
      OBVIOUS
    <3> HIDE DEF e, t, armed
    <3>4. outcome[1] = t /\ outcome[2] = Status(t, armed)
      BY <2>4, <3>1, FirstAndSecond, Zenon
    <3>5. (outcome[2] = "SUCCEEDED") <=> armed
      BY <3>3, <3>4, StatusOfResult, Zenon
    <3>6. QED
      BY <2>6, <3>2, <3>4, <3>5 DEF Fulfilled, outcome
  <2>7. CASE intent.kind \notin {"MOVE", "ARM"}
    <3> DEFINE t == CASE intent.kind = "STOP" -> ExecuteStop(r)
                 [] intent.kind = "DISARM" -> ExecuteDisarm(r)
                 [] intent.kind = "ACTION" -> ExecuteAction(r, intent.arg)
                 [] intent.kind = "SET_MOOD" -> ExecuteMood(r, intent.arg)
                 [] intent.kind = "ACCESSORY" /\ intent.arg = "fitted" ->
                      ExecuteJoint(r, "accessory")
                 [] OTHER -> UpdateSafety(r)
    <3>1. e = <<t, TRUE>>
      BY <2>2, <2>7, ExecutionOfKind
    <3>2. Fulfilled(intent, t) \/ NotReported(intent, t)
      <4>1. Standing(ExecuteStop(r))
        BY <2>3, ExecuteStopStops DEF Standing
      <4>2. CASE intent.kind = "STOP"
        BY <4>1, <4>2 DEF Fulfilled
      <4>3. CASE intent.kind = "DISARM"
        BY <4>3, ExecuteDisarmDisarms DEF Fulfilled
      <4>4. CASE intent.kind = "ACTION"
        BY <2>2, <2>3, <4>4, ExecuteActionActs DEF Fulfilled, NotReported
      <4>5. CASE intent.kind = "SET_MOOD" /\ intent.arg = "ALERT"
        BY <4>1, <4>5 DEF Fulfilled, ExecuteMood
      <4>6. CASE intent.kind = "SET_MOOD" /\ intent.arg = "SLEEPY"
        <5>1. t = ExecuteAction(r, "SLEEP")
          BY <4>6 DEF ExecuteMood
        <5>2. "SLEEP" \in ActionId
          BY DEF ActionId
        <5> HIDE DEF t
        <5>3. MayMoveManipulators(t.sup) => t.action = "SLEEP"
          BY <2>3, <5>1, <5>2, ExecuteActionActs
        <5>4. QED
          BY <4>6, <5>3 DEF Fulfilled, NotReported
      <4>7. CASE intent.kind = "ACCESSORY" /\ intent.arg = "fitted"
        <5>1. t = ExecuteJoint(r, "accessory")
          BY <4>7
        <5> HIDE DEF t
        <5>2. MayMoveManipulators(t.sup) => t.accessory = "moving"
          BY <2>3, <5>1, ExecuteJointMoves
        <5>3. QED
          BY <4>7, <5>2 DEF Fulfilled, NotReported
      <4>8. CASE \/ intent.kind = "NEXT_PERSONA"
                 \/ intent.kind = "SET_MOOD" /\ intent.arg \notin {"ALERT", "SLEEPY"}
                 \/ intent.kind = "ACCESSORY" /\ intent.arg # "fitted"
        BY <4>8 DEF Fulfilled
      <4>9. QED
        BY <2>2, <2>7, <4>2, <4>3, <4>4, <4>5, <4>6, <4>7, <4>8 DEF IntentKind
    <3> HIDE DEF e, t
    <3>3. outcome[1] = t /\ outcome[2] = Status(t, TRUE)
      BY <2>4, <3>1, FirstAndSecond, Zenon
    <3>4. outcome[2] = "SUCCEEDED"
      BY <3>3 DEF Status
    <3>5. QED
      BY <3>2, <3>3, <3>4 DEF outcome
  <2>8. QED
    BY <2>5, <2>6, <2>7
<1>3. QED
  BY <1>1, <1>2

\* What the gateway reports as SUCCEEDED is what the robot does, for every set
\* of intents and with capabilities of any age, but for what RobotAPI leaves
\* unreported (CommandExecutor.cpp).
THEOREM IntentSuccessIsReal == EmbodimentSpec => []SuccessIsReal
<1>1. RobotInv => SuccessIsReal
  <2> SUFFICES ASSUME RobotInv, at \in {"wifi", "serial"},
                      NEW intent \in Intents,
                      Outcome(robot, intent, caps)[2] = "SUCCEEDED"
               PROVE  \/ Fulfilled(intent, Outcome(robot, intent, caps)[1])
                      \/ NotReported(intent, Outcome(robot, intent, caps)[1])
    BY DEF SuccessIsReal, Truthful
  <2>1. RobotOK(robot) /\ robot.booted
    BY BootedUnlessBoot
  <2>2. QED
    BY <2>1, OutcomeIsReal
<1>2. QED
  BY <1>1, EmbodimentInvariant, PTL

\* An intent that is refused starts no drive, no arming and no action, for every
\* set of intents and with capabilities of any age (EmbodimentGateway::submit).
THEOREM IntentRefusalIsStill == EmbodimentSpec => []RefusalIsStill
<1>1. RobotInv => RefusalIsStill
  <2> SUFFICES ASSUME RobotInv, at \in {"wifi", "serial"},
                      NEW intent \in Intents,
                      Outcome(robot, intent, caps)[2] # "SUCCEEDED"
               PROVE  NothingStarted(robot, Outcome(robot, intent, caps)[1])
    BY DEF RefusalIsStill, StillWhenRefused
  <2>1. RobotOK(robot) /\ robot.booted
    BY BootedUnlessBoot
  <2>2. QED
    BY <2>1, OutcomeIsReal
<1>2. QED
  BY <1>1, EmbodimentInvariant, PTL

\* What the rules decide the resolver accepts, when both look at the same
\* robot: they ask for a permitted drive (RuleReasoningProvider.cpp,
\* IntentResolver.cpp).
THEOREM DecisionsAreAccepted == EmbodimentSpec => []DecisionAccepted
<1>1. DecisionAccepted
  <2> SUFFICES ASSUME NEW distance \in Distances(robot),
                      Reasoned(robot, distance) # NoIntent
               PROVE  Resolved(Reasoned(robot, distance), Capabilities(robot))
                        = "ACCEPTED"
    BY DEF DecisionAccepted
  <2>1. /\ robot.drive.connected
        /\ Undisturbed(robot) /\ MayEnableDrive(robot.sup)
    BY DEF Reasoned
  <2>2. distance \in {"none", "near", "lower", "upper", "far"}
    BY DEF Distances
  <2>3. Reasoned(robot, distance)
          \in {Intent("MOVE", "REVERSE"), Intent("MOVE", "FORWARD")}
    BY <2>2 DEF Reasoned
  <2> DEFINE decision == Reasoned(robot, distance)
             c == Capabilities(robot)
  <2>4. /\ decision.kind = "MOVE"
        /\ decision.arg \in {"REVERSE", "FORWARD"}
    BY <2>3 DEF Intent
  <2>5. c["drive"].available /\ c["drive"].permitted
    BY <2>1 DEF Capabilities, Capability
  <2>6. Needs(decision.kind) = "drive"
    BY <2>4 DEF Needs
  <2> HIDE DEF decision, c
  <2>7. Resolved(decision, c) = "ACCEPTED"
    BY <2>4, <2>5, <2>6 DEF Resolved
  <2>8. QED
    BY <2>7 DEF decision, c
<1>2. QED
  BY <1>1, PTL


=============================================================================

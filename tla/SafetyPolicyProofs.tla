------------------------- MODULE SafetyPolicyProofs -------------------------
(***************************************************************************)
(* Lemmas about the operators of SafetyPolicy that the proofs about every  *)
(* module built from them need: what a call of the supervisor returns is a *)
(* supervisor, and what such a call conserves.                             *)
(***************************************************************************)
EXTENDS SafetyPolicy, TLAPS

-----------------------------------------------------------------------------
(* The policy operators keep the supervisor well typed. *)

\* A latched supervisor is a supervisor (SafetySupervisor::latchFault).
LEMMA LatchFaultType ==
  ASSUME NEW s \in Supervisor, NEW fault \in SafetyFault
  PROVE  LatchFault(s, fault) \in Supervisor
<1>1. 0 \in Clock
  BY PolicyAssumption DEF Clock
<1>2. QED
  BY <1>1 DEF LatchFault, Supervisor, SafetyState, LatchedStates

\* The arming check answers with a fault of the enumeration (faultForArm).
LEMMA FaultForArmType ==
  ASSUME NEW s
  PROVE  FaultForArm(s) \in SafetyFault
BY DEF FaultForArm, SafetyFault

\* So does the autonomy check (faultForAutonomy).
LEMMA FaultForAutonomyType ==
  ASSUME NEW in, NEW t
  PROVE  FaultForAutonomy(in, t) \in SafetyFault
BY DEF FaultForAutonomy, SafetyFault

\* And the drive check (faultForDrive).
LEMMA FaultForDriveType ==
  ASSUME NEW in, NEW forward, NEW autonomous, NEW t
  PROVE  FaultForDrive(in, forward, autonomous, t) \in SafetyFault
BY FaultForAutonomyType DEF FaultForDrive, SafetyFault

\* And the standing check of update().
LEMMA StandingFaultType ==
  ASSUME NEW s, NEW t
  PROVE  StandingFault(s, t) \in SafetyFault
BY FaultForAutonomyType, FaultForDriveType DEF StandingFault, SafetyFault

\* Clock arithmetic stays within the clock (uint32_t).
LEMMA ClockSum ==
  ASSUME NEW t \in Clock, NEW d \in Nat
  PROVE  (t + d) % ClockModulus \in Clock
BY PolicyAssumption DEF Clock

\* New inputs leave a supervisor a supervisor (_inputs = inputs).
LEMMA InputsType ==
  ASSUME NEW s \in Supervisor, NEW in \in SafetyInputs
  PROVE  [s EXCEPT !.inputs = in] \in Supervisor
BY DEF Supervisor

\* What begin() restores is a supervisor (begin, loadPersistedState).
LEMMA BeginWithType ==
  ASSUME NEW n \in [state: {"absent"} \cup LatchedStates,
                    fault: {"absent"} \cup SafetyFault]
  PROVE  BeginWith(n) \in Supervisor
<1>1. 0 \in Clock
  BY PolicyAssumption DEF Clock
<1>2. NoInputs \in SafetyInputs
  BY <1>1 DEF NoInputs, SafetyInputs, ImuSample
<1>3. QED
  BY <1>1, <1>2
  DEF BeginWith, Supervisor, SafetyState, SafetyFault, LatchedStates

\* Completing the boot yields a supervisor (completeBoot).
LEMMA BootCompletedType ==
  ASSUME NEW s \in Supervisor, NEW in \in SafetyInputs
  PROVE  BootCompleted(s, in) \in Supervisor
<1> DEFINE t == [s EXCEPT !.inputs = [in EXCEPT !.bootComplete = TRUE]]
<1>1. [in EXCEPT !.bootComplete = TRUE] \in SafetyInputs
  BY DEF SafetyInputs
<1>2. t \in Supervisor
  BY <1>1, InputsType
<1>3. LatchFault(t, FaultForArm(t)) \in Supervisor
  BY <1>2, LatchFaultType, FaultForArmType
<1>4. CASE t.restoredState = "ESTOP"
  BY <1>2, <1>4 DEF BootCompleted, Supervisor, SafetyState, SafetyFault
<1>5. CASE t.restoredState = "FAULT"
  <2> DEFINE cause == IF t.restoredFault = "NONE" THEN "HARDWARE_UNAVAILABLE"
                      ELSE t.restoredFault
  <2>1. cause \in SafetyFault
    BY <1>2 DEF Supervisor, SafetyFault
  <2>2. [t EXCEPT !.state = "FAULT", !.fault = cause, !.disarmRequested = TRUE]
          \in Supervisor
    BY <1>2, <2>1 DEF Supervisor, SafetyState
  <2>3. QED
    BY <1>5, <2>2 DEF BootCompleted
<1>6. CASE t.restoredState \notin {"ESTOP", "FAULT"}
  <2>1. [t EXCEPT !.state = "DISARMED", !.fault = "NONE"] \in Supervisor
    BY <1>2 DEF Supervisor, SafetyState, SafetyFault
  <2>2. QED
    BY <1>3, <1>6, <2>1 DEF BootCompleted
<1>7. QED
  BY <1>4, <1>5, <1>6

\* A periodic update yields a supervisor (update).
LEMMA UpdatedType ==
  ASSUME NEW s \in Supervisor, NEW in \in SafetyInputs, NEW t
  PROVE  Updated(s, in, t) \in Supervisor
BY InputsType, LatchFaultType, StandingFaultType DEF Updated

\* An arm request yields a supervisor (requestArm).
LEMMA ArmRequestedType ==
  ASSUME NEW s \in Supervisor, NEW in \in SafetyInputs
  PROVE  ArmRequested(s, in) \in Supervisor
<1> DEFINE t == [s EXCEPT !.inputs = in]
<1>1. t \in Supervisor
  BY InputsType
<1>2. LatchFault(t, FaultForArm(t)) \in Supervisor
  BY <1>1, LatchFaultType, FaultForArmType
<1>3. [t EXCEPT !.state = "ARMED", !.fault = "NONE", !.autonomyEnabled = FALSE,
                !.disarmRequested = FALSE] \in Supervisor
  BY <1>1 DEF Supervisor, SafetyState, SafetyFault
<1>4. QED
  BY <1>1, <1>2, <1>3 DEF ArmRequested

\* A disarm request yields a supervisor (requestDisarm).
LEMMA DisarmRequestedType ==
  ASSUME NEW s \in Supervisor
  PROVE  DisarmRequested(s) \in Supervisor
<1>1. 0 \in Clock
  BY PolicyAssumption DEF Clock
<1>2. QED
  BY <1>1 DEF DisarmRequested, Supervisor, SafetyState, SafetyFault

\* A drive request yields a supervisor (requestDrive).
LEMMA DriveRequestedType ==
  ASSUME NEW s \in Supervisor, NEW forward, NEW autonomous, NEW t \in Clock
  PROVE  DriveRequested(s, forward, autonomous, t) \in Supervisor
<1>1. [s EXCEPT !.manualOverrideUntilMs = (t + ManualOverrideMs) % ClockModulus]
        \in Supervisor
  BY ClockSum, PolicyAssumption DEF Supervisor
<1>2. LatchFault(s, FaultForDrive(s.inputs, forward, autonomous, t)) \in Supervisor
  BY LatchFaultType, FaultForDriveType
<1>3. QED
  BY <1>1, <1>2 DEF DriveRequested

\* An autonomy request yields a supervisor (requestAutonomy).
LEMMA AutonomyRequestedType ==
  ASSUME NEW s \in Supervisor, NEW enabled, NEW t
  PROVE  AutonomyRequested(s, enabled, t) \in Supervisor
<1>1. \A b \in BOOLEAN : [s EXCEPT !.autonomyEnabled = b] \in Supervisor
  BY DEF Supervisor
<1>2. LatchFault(s, FaultForAutonomy(s.inputs, t)) \in Supervisor
  BY LatchFaultType, FaultForAutonomyType
<1>3. QED
  BY <1>1, <1>2 DEF AutonomyRequested

\* Both emergency stops yield a supervisor (emergencyStop, physicalEstop).
LEMMA StoppedType ==
  ASSUME NEW s \in Supervisor, NEW fault \in SafetyFault
  PROVE  /\ EmergencyStopped(s, fault) \in Supervisor
         /\ PhysicallyStopped(s) \in Supervisor
<1>1. EmergencyStopped(s, fault) \in Supervisor
  BY LatchFaultType DEF EmergencyStopped, SafetyFault
<1>2. 0 \in Clock
  BY PolicyAssumption DEF Clock
<1>3. PhysicallyStopped(s) \in Supervisor
  BY <1>2 DEF PhysicallyStopped, Supervisor, SafetyState, SafetyFault
<1>4. QED
  BY <1>1, <1>3

\* The reset chord yields a supervisor (clearPhysicalEstop).
LEMMA EstopClearedType ==
  ASSUME NEW s \in Supervisor, NEW in \in SafetyInputs
  PROVE  EstopCleared(s, in) \in Supervisor
<1> DEFINE t == [s EXCEPT !.inputs = in]
<1>1. t \in Supervisor
  BY InputsType
<1>2. [t EXCEPT !.state = "DISARMED", !.fault = "NONE",
                !.disarmRequested = FALSE] \in Supervisor
  BY <1>1 DEF Supervisor, SafetyState, SafetyFault
<1>3. QED
  BY <1>1, <1>2 DEF EstopCleared

-----------------------------------------------------------------------------
(* What the calls conserve. *)

\* One supervisor record names its fault and has given up what it must.
WellFormed(s) ==
  /\ s.state = "FAULT" => s.fault # "NONE"
  /\ s.state = "ESTOP" => s.fault = "PHYSICAL_ESTOP"
  /\ s.state \in {"DISARMED", "ARMED"} => s.fault = "NONE"
  /\ s.autonomyEnabled => s.state = "ARMED"
  /\ s.disarmRequested => s.state \in LatchedStates

\* What every call but the arm request and the reset chord conserves: an
\* emergency stop, an incident, and the absence of authority.
Conserves(s, t) ==
  /\ WellFormed(t)
  /\ t.state # "BOOT"
  /\ s.state = "ESTOP" => t.state = "ESTOP"
  /\ s.state = "FAULT" => t.state \in LatchedStates
  /\ t.state = "ARMED" => s.state = "ARMED"

\* Latching conserves (latchFault).
LEMMA LatchFaultConserves ==
  ASSUME NEW s \in Supervisor, WellFormed(s), s.state # "BOOT",
         NEW fault \in SafetyFault \ {"NONE"}
  PROVE  Conserves(s, LatchFault(s, fault))
BY DEF Conserves, WellFormed, LatchFault, Supervisor, SafetyState, LatchedStates

\* New inputs conserve (_inputs = inputs).
LEMMA InputsConserve ==
  ASSUME NEW s \in Supervisor, WellFormed(s), s.state # "BOOT", NEW in
  PROVE  /\ Conserves(s, [s EXCEPT !.inputs = in])
         /\ WellFormed([s EXCEPT !.inputs = in])
         /\ [s EXCEPT !.inputs = in].state = s.state
BY DEF Conserves, WellFormed, Supervisor, SafetyState, LatchedStates

\* Conserving is transitive through a call that only takes new inputs.
LEMMA ConservesThroughInputs ==
  ASSUME NEW s \in Supervisor, NEW in, NEW t,
         Conserves([s EXCEPT !.inputs = in], t)
  PROVE  Conserves(s, t)
BY DEF Conserves, Supervisor

\* The periodic update conserves (update).
LEMMA UpdatedConserves ==
  ASSUME NEW s \in Supervisor, WellFormed(s), s.state # "BOOT",
         NEW in \in SafetyInputs, NEW t
  PROVE  Conserves(s, Updated(s, in, t))
<1> DEFINE u == [s EXCEPT !.inputs = in]
<1>1. u \in Supervisor /\ WellFormed(u) /\ u.state # "BOOT"
  BY InputsType, InputsConserve
<1>2. CASE StandingFault(u, t) = "NONE"
  BY <1>2, InputsConserve DEF Updated
<1>3. CASE StandingFault(u, t) # "NONE"
  <2>1. Conserves(u, LatchFault(u, StandingFault(u, t)))
    BY <1>1, <1>3, StandingFaultType, LatchFaultConserves
  <2>2. Updated(s, in, t) = LatchFault(u, StandingFault(u, t))
    BY <1>3 DEF Updated
  <2>3. QED
    BY <2>1, <2>2, ConservesThroughInputs
<1>4. QED
  BY <1>2, <1>3

\* A refused arm request conserves (requestArm).
LEMMA RefusedArmConserves ==
  ASSUME NEW s \in Supervisor, WellFormed(s), s.state # "BOOT",
         NEW in \in SafetyInputs, ~ArmGranted(s, in)
  PROVE  Conserves(s, ArmRequested(s, in))
<1> DEFINE u == [s EXCEPT !.inputs = in]
<1>1. u \in Supervisor /\ WellFormed(u) /\ u.state # "BOOT" /\ u.state = s.state
  BY InputsType, InputsConserve
<1>2. CASE s.state = "ESTOP"
  BY <1>1, <1>2, InputsConserve DEF ArmRequested
<1>3. CASE s.state # "ESTOP"
  <2>1. FaultForArm(u) # "NONE"
    BY <1>3 DEF ArmGranted
  <2>2. Conserves(u, LatchFault(u, FaultForArm(u)))
    BY <1>1, <2>1, FaultForArmType, LatchFaultConserves
  <2>3. ArmRequested(s, in) = LatchFault(u, FaultForArm(u))
    BY <1>1, <1>3, <2>1 DEF ArmRequested
  <2>4. QED
    BY <2>2, <2>3, ConservesThroughInputs
<1>4. QED
  BY <1>2, <1>3

\* A disarm request conserves (requestDisarm).
LEMMA DisarmConserves ==
  ASSUME NEW s \in Supervisor, WellFormed(s), s.state # "BOOT"
  PROVE  Conserves(s, DisarmRequested(s))
BY DEF Conserves, WellFormed, DisarmRequested, Supervisor, SafetyState, LatchedStates

\* A drive request conserves (requestDrive).
LEMMA DriveConserves ==
  ASSUME NEW s \in Supervisor, WellFormed(s), s.state # "BOOT",
         NEW forward, NEW autonomous, NEW t
  PROVE  Conserves(s, DriveRequested(s, forward, autonomous, t))
<1> DEFINE fault == FaultForDrive(s.inputs, forward, autonomous, t)
           granted == [s EXCEPT !.manualOverrideUntilMs =
                                  (t + ManualOverrideMs) % ClockModulus]
<1>1. Conserves(s, s)
  BY DEF Conserves, WellFormed, LatchedStates
<1>2. Conserves(s, granted)
  BY DEF Conserves, WellFormed, LatchedStates, Supervisor
<1>3. fault # "NONE" => Conserves(s, LatchFault(s, fault))
  BY FaultForDriveType, LatchFaultConserves
<1>4. QED
  BY <1>1, <1>2, <1>3 DEF DriveRequested

\* An autonomy request conserves (requestAutonomy).
LEMMA AutonomyConserves ==
  ASSUME NEW s \in Supervisor, WellFormed(s), s.state # "BOOT",
         NEW enabled, NEW t
  PROVE  Conserves(s, AutonomyRequested(s, enabled, t))
<1> DEFINE fault == FaultForAutonomy(s.inputs, t)
<1>1. Conserves(s, s) /\ Conserves(s, [s EXCEPT !.autonomyEnabled = FALSE])
  BY DEF Conserves, WellFormed, LatchedStates, Supervisor
<1>2. s.state = "ARMED" => Conserves(s, [s EXCEPT !.autonomyEnabled = TRUE])
  BY DEF Conserves, WellFormed, LatchedStates, Supervisor
<1>3. fault # "NONE" => Conserves(s, LatchFault(s, fault))
  BY FaultForAutonomyType, LatchFaultConserves
<1>4. QED
  BY <1>1, <1>2, <1>3 DEF AutonomyRequested

\* Both emergency stops conserve (emergencyStop, physicalEstop).
LEMMA StopsConserve ==
  ASSUME NEW s \in Supervisor, WellFormed(s), s.state # "BOOT",
         NEW fault \in SafetyFault
  PROVE  /\ Conserves(s, EmergencyStopped(s, fault))
         /\ Conserves(s, PhysicallyStopped(s))
<1>1. Conserves(s, EmergencyStopped(s, fault))
  BY LatchFaultConserves DEF EmergencyStopped, SafetyFault
<1>2. Conserves(s, PhysicallyStopped(s))
  BY DEF Conserves, WellFormed, LatchedStates, Supervisor, PhysicallyStopped
<1>3. QED
  BY <1>1, <1>2

=============================================================================

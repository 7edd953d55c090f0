-------------------------- MODULE SafetySupervisor --------------------------
(***************************************************************************)
(* The safety supervisor through its whole life: calls from the loop task, *)
(* the two-key record it keeps in flash (NVS), and restarts at any moment, *)
(* also between the two flash writes of one call.  Every flash access may  *)
(* fail, and the code goes on as if it had not.                            *)
(*                                                                         *)
(* A call that writes flash is synchronous: while nvsOp is not "none" the  *)
(* loop task is inside persistLatchedState or clearPersistedState and no   *)
(* other call starts.  Only a restart interrupts it.                       *)
(***************************************************************************)
EXTENDS SafetyPolicy

CONSTANTS
  Readings,         \* the SafetyInputs that buildSafetyInputs may deliver
  StopFaults,       \* the faults that callers of emergencyStop report
  HoldFitsInBoot    \* a boot lasts long enough for the E-stop chord

ASSUME SupervisorAssumption ==
  /\ Readings \subseteq SafetyInputs
  /\ StopFaults \subseteq SafetyFault
  /\ HoldFitsInBoot \in BOOLEAN

VARIABLES
  sup,      \* the fields of SafetySupervisor
  booted,   \* ControlRouter::_bootComplete
  nvs,      \* flash: the keys safety_state and safety_fault
  nvsOp,    \* the flash access in progress
  lost,     \* history: the keys whose last access failed; in no guard
  now       \* millis()

vars == <<sup, booted, nvs, nvsOp, lost, now>>

NvsStep == {"none", "putState", "putFault", "removeState", "removeFault"}

NvsKey == {"state", "fault"}

NvsRecord == [state: {"absent"} \cup LatchedStates,
              fault: {"absent"} \cup SafetyFault]

Blank == [state |-> "absent", fault |-> "absent"]

TypeOK ==
  /\ sup \in Supervisor
  /\ booted \in BOOLEAN
  /\ nvs \in NvsRecord
  /\ nvsOp \in NvsStep
  /\ lost \subseteq NvsKey
  /\ now \in Clock

Init ==
  /\ sup = BeginWith(Blank)
  /\ booted = FALSE
  /\ nvs = Blank
  /\ nvsOp = "none"
  /\ lost = {}
  /\ now = 0

-----------------------------------------------------------------------------
(* Flash access. *)

\* A call leaves t behind and writes flash if it latched something new.
Becomes(t) ==
  /\ nvsOp = "none"
  /\ sup' = t
  /\ nvsOp' = IF LatchesAnew(sup, t) THEN "putState" ELSE "none"
  /\ UNCHANGED <<nvs, lost, now>>

\* One key is written or removed, or the flash does not take it: the results of
\* putUChar and remove are not looked at.
Store(key, value) ==
  \/ /\ nvs' = [nvs EXCEPT ![key] = value]
     /\ lost' = lost \ {key}
  \/ /\ nvs' = nvs
     /\ lost' = lost \cup {key}

\* preferences.begin() fails: the whole call leaves the flash as it was.
FlashClosed ==
  /\ nvsOp \in {"putState", "removeState"}
  /\ nvsOp' = "none"
  /\ lost' = NvsKey
  /\ UNCHANGED <<sup, booted, nvs, now>>

\* persistLatchedState writes the state key before the fault key ...
PutState ==
  /\ nvsOp = "putState"
  /\ Store("state", sup.state)
  /\ nvsOp' = "putFault"
  /\ UNCHANGED <<sup, booted, now>>

PutFault ==
  /\ nvsOp = "putFault"
  /\ Store("fault", sup.fault)
  /\ nvsOp' = "none"
  /\ UNCHANGED <<sup, booted, now>>

\* ... and clearPersistedState removes them in the same order.
RemoveState ==
  /\ nvsOp = "removeState"
  /\ Store("state", "absent")
  /\ nvsOp' = "removeFault"
  /\ UNCHANGED <<sup, booted, now>>

RemoveFault ==
  /\ nvsOp = "removeFault"
  /\ Store("fault", "absent")
  /\ nvsOp' = "none"
  /\ UNCHANGED <<sup, booted, now>>

-----------------------------------------------------------------------------
(* Calls from the loop task. *)

\* ControlRouter::buildSafetyInputs stamps the reading with _bootComplete.
Stamped(in) == [in EXCEPT !.bootComplete = booted]

\* A restored incident is already on record: completeBoot does not rewrite it.
CompleteBoot(in) ==
  /\ ~booted
  /\ nvsOp = "none"
  /\ booted' = TRUE
  /\ sup' = BootCompleted(sup, in)
  /\ nvsOp' = IF /\ sup.restoredState = "BOOT"
                 /\ LatchesAnew(sup, BootCompleted(sup, in))
              THEN "putState" ELSE "none"
  /\ UNCHANGED <<nvs, lost, now>>

Update(in) ==
  /\ booted
  /\ Becomes(Updated(sup, Stamped(in), now))
  /\ UNCHANGED booted

RequestArm(in) ==
  /\ booted
  /\ ArmGranted(sup, Stamped(in))
  /\ nvsOp = "none"
  /\ sup' = ArmRequested(sup, Stamped(in))
  /\ nvsOp' = "removeState"
  /\ UNCHANGED <<booted, nvs, lost, now>>

RefuseArm(in) ==
  /\ booted
  /\ ~ArmGranted(sup, Stamped(in))
  /\ Becomes(ArmRequested(sup, Stamped(in)))
  /\ UNCHANGED booted

\* requestArm succeeded but no drive hardware armed (RobotAPI::armMotors).
NotifyArmFailed ==
  /\ booted
  /\ sup.state = "ARMED"
  /\ Becomes(LatchFault(sup, "DRIVE_UNAVAILABLE"))
  /\ UNCHANGED booted

RequestDisarm ==
  /\ booted
  /\ Becomes(DisarmRequested(sup))
  /\ UNCHANGED booted

RequestDrive(forward, autonomous) ==
  /\ booted
  /\ Becomes(DriveRequested(sup, forward, autonomous, now))
  /\ UNCHANGED booted

RequestAutonomy(enabled) ==
  /\ booted
  /\ Becomes(AutonomyRequested(sup, enabled, now))
  /\ UNCHANGED booted

EmergencyStop(fault) ==
  /\ booted
  /\ Becomes(EmergencyStopped(sup, fault))
  /\ UNCHANGED booted

\* handleButtons runs before the boot phases, so also while booting.
PhysicalEstop ==
  /\ booted \/ HoldFitsInBoot
  /\ sup.state # "ESTOP"
  /\ Becomes(PhysicallyStopped(sup))
  /\ UNCHANGED booted

ClearPhysicalEstop(in) ==
  /\ nvsOp = "none"
  /\ sup.state = "ESTOP"
  /\ sup' = EstopCleared(sup, Stamped(in))
  /\ nvsOp' = IF EstopClearable(sup, Stamped(in)) THEN "removeState" ELSE "none"
  /\ UNCHANGED <<booted, nvs, lost, now>>

ConsumeDisarmRequest ==
  /\ booted
  /\ nvsOp = "none"
  /\ sup.disarmRequested
  /\ sup' = [sup EXCEPT !.disarmRequested = FALSE]
  /\ UNCHANGED <<booted, nvs, nvsOp, lost, now>>

-----------------------------------------------------------------------------
(* Time and restarts. *)

Tick ==
  /\ now' = (now + 1) % ClockModulus
  /\ UNCHANGED <<sup, booted, nvs, nvsOp, lost>>

\* What loadPersistedState makes of the keys it cannot read, all of them when
\* preferences.begin() fails: getUChar answers with the default.
Read(unread) == [key \in NvsKey |-> IF key \in unread THEN "absent" ELSE nvs[key]]

\* Power loss, a brown-out or the task watchdog; setup() runs begin() again.
Restart(unread) ==
  /\ sup' = BeginWith(Read(unread))
  /\ booted' = FALSE
  /\ nvsOp' = "none"
  /\ lost' = unread
  /\ now' = 0
  /\ UNCHANGED nvs

Next ==
  \/ PutState \/ PutFault \/ RemoveState \/ RemoveFault \/ FlashClosed
  \/ \E in \in Readings :
       \/ CompleteBoot(in)
       \/ Update(in)
       \/ RequestArm(in)
       \/ RefuseArm(in)
       \/ ClearPhysicalEstop(in)
  \/ NotifyArmFailed
  \/ RequestDisarm
  \/ \E forward, autonomous \in BOOLEAN : RequestDrive(forward, autonomous)
  \/ \E enabled \in BOOLEAN : RequestAutonomy(enabled)
  \/ \E fault \in StopFaults : EmergencyStop(fault)
  \/ PhysicalEstop
  \/ ConsumeDisarmRequest
  \/ Tick
  \/ \E unread \in SUBSET NvsKey : Restart(unread)

Spec == Init /\ [][Next]_vars

-----------------------------------------------------------------------------
(* Properties. *)

\* A robot that is stopped can say why, and one that is not carries no stale
\* reason: also after a restart that found only the first of the two keys
\* (completeBoot, latchFault, requestArm, requestDisarm, clearPhysicalEstop).
FaultNamed ==
  /\ sup.state = "FAULT" => sup.fault # "NONE"
  /\ sup.state = "ESTOP" => sup.fault = "PHYSICAL_ESTOP"
  /\ sup.state \in {"DISARMED", "ARMED"} => sup.fault = "NONE"

\* A restored fault whose second key was never written has no name in flash.
TornName == nvs.fault = "absent" /\ sup.fault = "HARDWARE_UNAVAILABLE"

\* Between calls flash and memory tell the same story, as far as the flash has
\* answered: unless the last access to the state key failed, a latched incident
\* is on record and a robot free to move has none; and unless either key failed,
\* a fault stands under its latest cause (persistLatchedState,
\* clearPersistedState, loadPersistedState).
IncidentRecorded ==
  booted /\ nvsOp = "none" =>
    /\ "state" \notin lost =>
         nvs.state = IF sup.state \in LatchedStates THEN sup.state ELSE "absent"
    /\ sup.state = "FAULT" /\ lost = {} => nvs.fault = sup.fault \/ TornName

\* Autonomy is a privilege of the armed state, whatever ended that state, and a
\* request to disarm outstanding means an incident outstanding (latchFault,
\* requestDisarm, requestArm, clearPhysicalEstop, begin).
AuthorityWithdrawn ==
  /\ sup.autonomyEnabled => sup.state = "ARMED"
  /\ sup.disarmRequested => sup.state \in LatchedStates

\* What the supervisor answers for, at every moment, across restarts at any of
\* them and whatever the flash refuses: reason and authority agree with the
\* state, and the record does wherever the flash took it.
IncidentSafe == IncidentRecorded /\ FaultNamed /\ AuthorityWithdrawn

\* The refinement: the incident is the one the supervisor remembers, before boot
\* completes the one it has read; the record is the state key; and memory is
\* settled in flash when no access to that key is outstanding or has failed.
armedBar == sup.state = "ARMED"
incidentBar == IF sup.state \in LatchedStates THEN sup.state
               ELSE IF ~booted /\ sup.restoredState \in LatchedStates
               THEN sup.restoredState
               ELSE "none"
recordBar == IF nvs.state = "absent" THEN "none" ELSE nvs.state
settledBar == "state" \notin lost /\ nvsOp \notin {"putState", "removeState"}

Latch == INSTANCE SafetyLatch WITH armed <- armedBar, incident <- incidentBar,
                                   record <- recordBar, settled <- settledBar

\* The supervisor implements SafetyLatch: an incident that reached the flash
\* survives every restart that can read it, an emergency stop is settled only by
\* the reset chord and a fault only by an explicit arm, and a failing flash
\* neither arms the robot nor invents or exchanges an incident
\* (docs/CONFIGURATION.md:45-47).
LatchSpec == Latch!Spec

=============================================================================

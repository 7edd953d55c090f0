----------------------------- MODULE Embodiment -----------------------------
(***************************************************************************)
(* The way of an intent through the robot: capabilities and a snapshot are *)
(* taken, a reasoning provider may decide on an intent, and some time later *)
(* EmbodimentGateway::submit resolves an intent against the capabilities,  *)
(* executes it and reports how it ended.  Everything may happen to the     *)
(* robot (RobotControl) between the taking and the submitting.             *)
(*                                                                         *)
(* Nothing in loop() calls the gateway yet; whoever does runs in the loop  *)
(* task, so Observe and Submit happen where commands do.                   *)
(***************************************************************************)
EXTENDS RobotControl

CONSTANTS
  Intents,            \* the intents that are submitted
  ServoBusOnRollers   \* a robot on rollers has its joints on a servo bus

VARIABLE
  caps        \* the capabilities as they were observed

allVars == <<robot, at, caps>>

\* arg is the drive mode, the action, the mood or the place of the accessory,
\* and "malformed" if it is out of range (a drive mode STOPPED, a duration 0, an
\* action or a mood that does not exist).
IntentKind == {"NONE", "MOVE", "STOP", "ARM", "DISARM", "ACTION", "SET_MOOD",
               "NEXT_PERSONA", "ACCESSORY"}

Intent(kind, arg) == [kind |-> kind, arg |-> arg]

\* CALM stands for all the moods that move nothing.
Mood == {"ALERT", "SLEEPY", "CALM"}

\* An accessory index of a joint, and one without or out of range.
AccessoryPlace == {"fitted", "empty"}

Argument == DriveMode \cup ActionId \cup Mood \cup AccessoryPlace \cup {"malformed"}

ASSUME EmbodimentAssumption ==
  /\ Intents \subseteq [kind: IntentKind, arg: Argument]
  /\ \A intent \in Intents :
       /\ intent.kind = "MOVE" =>
            intent.arg \in (DriveMode \ {"STOPPED"}) \cup {"malformed"}
       /\ intent.kind = "ACTION" =>
            intent.arg \in (ActionId \ {"NONE"}) \cup {"malformed"}
       /\ intent.kind = "SET_MOOD" => intent.arg \in Mood \cup {"malformed"}
       /\ intent.kind = "ACCESSORY" => intent.arg \in AccessoryPlace
  /\ ServoBusOnRollers \in BOOLEAN

NoIntent == Intent("NONE", "NONE")

-----------------------------------------------------------------------------
(* Observation. *)

Capability(available, permitted) ==
  [available |-> available, permitted |-> permitted]

\* Neither an emergency stop nor a fault.
Undisturbed(r) == r.sup.state # "ESTOP" /\ r.sup.fault = "NONE"

ServoBus(r) ==
  IF r.drive.kind = "servo" THEN r.drive.connected ELSE ServoBusOnRollers

\* buildRuntimeCapabilities(), as far as intents need it.
Capabilities(r) ==
  [drive |-> Capability(r.drive.connected,
                        Undisturbed(r) /\ MayEnableDrive(r.sup)),
   actions |-> Capability(TRUE, Undisturbed(r)),
   manipulators |-> Capability(ServoBus(r), ServoBus(r) /\ Undisturbed(r)
                                             /\ MayMoveManipulators(r.sup))]

\* Where the last valid reading may lie, given what the filter made of it; the
\* rules cut the middle band once more, at OBSTACLE_CAUTION_MM.
Distances(r) ==
  CASE ~r.obstacle.rangeValid -> {"none"}
    [] r.obstacle.state = "BLOCKED" -> {"near", "lower", "upper", "far"}
    [] r.obstacle.state = "CAUTION" -> {"lower", "upper", "far"}
    [] OTHER -> {"far"}

\* Mutant: the snapshot is trusted and the capability not looked at.
ReasonedWithoutCapability(r, distance) ==
  IF r.sup.state \in LatchedStates \/ ~r.sup.inputs.bootComplete \/ ~r.autonomy.enabled
  THEN NoIntent
  ELSE CASE distance = "none" -> NoIntent
         [] distance \in {"near", "lower"} -> Intent("MOVE", "REVERSE")
         [] OTHER -> Intent("MOVE", "FORWARD")

\* RuleReasoningProvider::reason() on the state it observes; a turn is a
\* REVERSE here.
Reasoned(r, distance) ==
  IF \/ r.sup.state \in LatchedStates \/ ~r.sup.inputs.bootComplete
     \/ ~r.drive.connected
     \/ ~r.autonomy.enabled \/ ~AutonomyMotionAllowed(r.sup, Now)
     \/ ~(Undisturbed(r) /\ MayEnableDrive(r.sup))
  THEN NoIntent
  ELSE CASE distance = "none" -> NoIntent
         [] distance \in {"near", "lower"} -> Intent("MOVE", "REVERSE")
         [] OTHER -> Intent("MOVE", "FORWARD")

Observe ==
  /\ Commanding
  /\ caps' = Capabilities(robot)
  /\ UNCHANGED robot

-----------------------------------------------------------------------------
(* Resolution and execution. *)

Needs(kind) ==
  CASE kind \in {"MOVE", "ARM"} -> "drive"
    [] kind \in {"ACTION", "SET_MOOD", "NEXT_PERSONA"} -> "actions"
    [] kind = "ACCESSORY" -> "manipulators"

\* IntentResolver::resolve()
Resolved(intent, c) ==
  IF intent.kind = "NONE" THEN "INVALID_INTENT"
  ELSE IF intent.kind \in {"STOP", "DISARM"} THEN "ACCEPTED"
  ELSE IF ~c[Needs(intent.kind)].available THEN "CAPABILITY_UNAVAILABLE"
  ELSE IF ~c[Needs(intent.kind)].permitted THEN "NOT_PERMITTED"
  ELSE IF intent.kind \in {"MOVE", "ACTION", "SET_MOOD"} /\ intent.arg = "malformed"
  THEN "INVALID_PARAMETER"
  ELSE "ACCEPTED"

\* RobotAPI::setMood(): ALERT stops the robot, SLEEPY lies it down to sleep.
ExecuteMood(r, mood) ==
  CASE mood = "ALERT"  -> ExecuteStop(r)
    [] mood = "SLEEPY" -> ExecuteAction(r, "SLEEP")
    [] OTHER           -> UpdateSafety(r)

\* ControlRouter::execute() of the command an intent becomes: the robot after
\* it, and the result, which of all these only MOVE and ARM can spoil.
Execution(r, intent) ==
  LET checked == UpdateSafety(r)
  IN CASE intent.kind = "MOVE" ->
            <<ExecuteMove(r, intent.arg, FALSE),
              Moved(checked, intent.arg, FALSE)>>
       [] intent.kind = "STOP" -> <<ExecuteStop(r), TRUE>>
       [] intent.kind = "ARM" ->
            <<ExecuteArm(r), /\ ArmGranted(checked.sup, Inputs(checked))
                             /\ ExecuteArm(r).drive.armed>>
       [] intent.kind = "DISARM" -> <<ExecuteDisarm(r), TRUE>>
       [] intent.kind = "ACTION" -> <<ExecuteAction(r, intent.arg), TRUE>>
       [] intent.kind = "SET_MOOD" -> <<ExecuteMood(r, intent.arg), TRUE>>
       [] intent.kind = "ACCESSORY" /\ intent.arg = "fitted" ->
            <<ExecuteJoint(r, "accessory"), TRUE>>
       [] OTHER -> <<checked, TRUE>>

\* Mutant: a fault is looked for before the result.
StatusByFault(after, result) ==
  IF after.sup.fault # "NONE" THEN "DENIED" ELSE "SUCCEEDED"

\* CommandExecutor::execute()
Status(after, result) ==
  IF result THEN "SUCCEEDED"
  ELSE IF after.sup.fault # "NONE" THEN "DENIED" ELSE "FAILED"

\* Mutant: a capability that is missing is reported, the intent carried out.
OutcomeOfAll(r, intent, c) ==
  LET e == Execution(r, intent)
  IN <<e[1], IF Resolved(intent, c) = "ACCEPTED"
             THEN Status(e[1], e[2]) ELSE "REJECTED">>

WithStatus(execution) == <<execution[1], Status(execution[1], execution[2])>>

\* EmbodimentGateway::submit(): the robot after it and the status it reports.
Outcome(r, intent, c) ==
  IF Resolved(intent, c) = "ACCEPTED" THEN WithStatus(Execution(r, intent))
  ELSE <<r, "REJECTED">>

Submit(intent) ==
  /\ Commanding
  /\ robot' = Outcome(robot, intent, caps)[1]
  /\ UNCHANGED caps

-----------------------------------------------------------------------------

EmbodimentInit == Init /\ caps = Capabilities(robot)

RobotStep == Next /\ UNCHANGED caps

EmbodimentNext == RobotStep \/ Observe \/ \E intent \in Intents : Submit(intent)

EmbodimentSpec == EmbodimentInit /\ [][EmbodimentNext]_allVars

-----------------------------------------------------------------------------
(* Correctness.  The properties look at every intent that could be submitted *)
(* now, with the capabilities of whatever moment caps was observed at.       *)

Standing(r) == r.drive.mode = "STOPPED" /\ r.action = "NONE"

\* The robot does what the intent asked.  A persona and a calm mood ask nothing
\* of what is modelled, and neither does an accessory that is not fitted.
Fulfilled(intent, r) ==
  /\ intent.kind = "MOVE" => r.sup.state = "ARMED" /\ r.drive.mode = intent.arg
  /\ intent.kind = "ARM" => r.sup.state = "ARMED" /\ r.drive.armed
  /\ intent.kind = "STOP" => Standing(r)
  /\ intent.kind = "DISARM" => r.sup.state # "ARMED" /\ ~r.drive.armed
  /\ intent.kind = "ACTION" => r.action = intent.arg
  /\ intent.kind = "SET_MOOD" /\ intent.arg = "ALERT" => Standing(r)
  /\ intent.kind = "SET_MOOD" /\ intent.arg = "SLEEPY" => r.action = "SLEEP"
  /\ intent.kind = "ACCESSORY" /\ intent.arg = "fitted" => r.accessory = "moving"

\* What RobotAPI does not report: a roller that missed the write of a move, and
\* that a robot which may not move its manipulators dropped the intent.
NotReported(intent, r) ==
  IF intent.kind = "MOVE" THEN ~r.drive.connected
  ELSE /\ \/ intent.kind \in {"ACTION", "ACCESSORY"}
          \/ intent.kind = "SET_MOOD" /\ intent.arg = "SLEEPY"
       /\ ~MayMoveManipulators(r.sup)

Truthful(intent, outcome) ==
  outcome[2] = "SUCCEEDED" =>
    Fulfilled(intent, outcome[1]) \/ NotReported(intent, outcome[1])

\* SUCCEEDED is the truth at the moment it is said, however stale the
\* capabilities were: the robot drives, is armed, stands, is disarmed, acts or
\* moves its accessory as the intent asked (CommandExecutor::execute).  The
\* exceptions are a lost write to a roller and manipulators that may not move.
SuccessIsReal ==
  at \in {"wifi", "serial"} =>
    \A intent \in Intents : Truthful(intent, Outcome(robot, intent, caps))

\* Something may have been stopped, but nothing started.
NothingStarted(r, t) ==
  /\ t.drive.mode \in {r.drive.mode, "STOPPED"}
  /\ t.drive.armed => r.drive.armed
  /\ t.action \in {r.action, "NONE"}

StillWhenRefused(r, outcome) ==
  outcome[2] # "SUCCEEDED" => NothingStarted(r, outcome[1])

\* An intent that is refused, wherever on its way, may stop the robot but
\* starts no drive, no arming and no action (EmbodimentGateway::submit,
\* ControlRouter::execute); a refused MOVE does send the limbs back to rest.
RefusalIsStill ==
  at \in {"wifi", "serial"} =>
    \A intent \in Intents :
      StillWhenRefused(robot, Outcome(robot, intent, caps))

\* The rules and the resolver agree: what RuleReasoningProvider decides is
\* accepted by IntentResolver when both look at the same observation.
DecisionAccepted ==
  \A distance \in Distances(robot) :
    LET decision == Reasoned(robot, distance)
    IN decision # NoIntent =>
         Resolved(decision, Capabilities(robot)) = "ACCEPTED"

=============================================================================

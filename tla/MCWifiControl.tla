---------------------------- MODULE MCWifiControl ----------------------------
(***************************************************************************)
(* WifiControl for TLC, with history variables that remember where the     *)
(* command at the motors came from and what overtook it.                   *)
(***************************************************************************)
EXTENDS WifiControl, TLC

VARIABLES
  drivenBy,   \* <<session, id>> of the remote move that drives
  stopMark,   \* <<session, id>> last accepted when a stop was acknowledged
  overtaken,  \* commands that an intervention found waiting
  ran         \* <<session, id, intent>> of the commands handed to the router

history == <<drivenBy, stopMark, overtaken, ran>>
mcVars == <<vars, history>>

\* No remote move drives; one drives whose controller had gone when WIFI OFF came.
Nothing == <<0, 0>>
Abandoned == <<0, 1>>

Origin(command) == <<command.gen, command.id>>

Waiting ==
  {Origin(queue[i]) : i \in DOMAIN queue} \cup
  IF lp.at \in {"check", "lock"} THEN {Origin(lp.command)} ELSE {}

HandedOver == Executes /\ lp'.at = "report"

\* WIFI ON numbers the sessions anew, and no command of an old one is left.
Forgotten == WifiOn

DrivenByNext ==
  drivenBy' =
    IF ~robot'.driving \/ LocalCommand("MOVE") THEN Nothing
    ELSE IF HandedOver /\ lp.command.kind = "MOVE" /\ lp'.status = "SUCCEEDED"
    THEN Origin(lp.command)
    ELSE IF FinishWifiOff /\ ~lp.hadController /\ drivenBy # Nothing
    THEN Abandoned
    ELSE drivenBy

StopMarkNext ==
  stopMark' =
    IF Forgotten THEN Nothing
    ELSE IF \E c \in Clients : ReceiveStop(c, TRUE)
    THEN <<session.gen, session.lastId>> ELSE stopMark

OvertakenNext ==
  overtaken' =
    IF Forgotten THEN {}
    ELSE IF intervened' # intervened THEN overtaken \cup Waiting ELSE overtaken

RanNext ==
  ran' = IF Forgotten THEN {}
         ELSE IF HandedOver
         THEN ran \cup {<<lp.command.gen, lp.command.id, lp.command.intent>>}
         ELSE ran

MCInit ==
  /\ Init
  /\ drivenBy = Nothing /\ stopMark = Nothing /\ overtaken = {} /\ ran = {}

MCNext == Next /\ DrivenByNext /\ StopMarkNext /\ OvertakenNext /\ RanNext

MCSpec == MCInit /\ [][MCNext]_mcVars
FairMCSpec == MCSpec /\ Fairness

\* No client is special.
ClientSymmetry == Permutations(Clients)

-----------------------------------------------------------------------------

\* A command reaches the router only on behalf of the session that is active at
\* that moment (commandSessionCurrent under the dispatch mutex, revokeController).
CommandAuthority ==
  lp.at = "execute" /\ lp.current => SessionCurrent(lp.command)

\* A command that was waiting when somebody intervened locally, or when the
\* controller itself stopped or disarmed, is not executed afterwards unless it
\* stops or disarms (execute's epochs, the superseded test of update).
OvertakenNeverRuns ==
  Executes /\ ~Intervention(lp.command.kind) =>
    Origin(lp.command) \notin overtaken

\* Once no stop is pending and update() is over, no move accepted before the
\* last acknowledged stop is driving, whichever task was ahead (processPendingStop,
\* requestEmergencyStopFromWifi); a request that WIFI OFF has dropped is none.
StopWins ==
  lp.at = "idle" /\ pending = "no" /\ drivenBy[1] = stopMark[1] =>
    drivenBy \in {Nothing, Abandoned} \/ drivenBy[2] > stopMark[2]

\* Between two updates a remote drive has a controller with a watchdog that was
\* started for it, or its stop is already requested of an update() that will
\* come.  Two are left to the drive's own time limit: a move of a controller that
\* paired anew, for the new session starts without a watchdog, and an Abandoned
\* one, whose stop WIFI OFF drops when the controller has just gone.  A "blind"
\* watchdog leaves its move to that limit too (ExecuteCommand, revokeController,
\* PAIR, stop).
RemoteDriveAttended ==
  lp.at = "idle" /\ drivenBy \notin {Nothing, Abandoned} =>
    /\ running
    /\ \/ pending # "no"
       \/ session.active /\ (session.watchdog # "off" \/ session.gen > drivenBy[1])

\* The commands of one session reach the router in the order in which they were
\* accepted, each as often as it was: its id is ahead of all that ran before,
\* counting on where ids wrap (acceptRequestId, the queue).
NoReplay ==
  Executes => \A r \in ran : r[1] = lp.command.gen => r[2] < lp.command.id

\* A session executes an intent once, however often it is sent and whatever has
\* become of it, while the ring has room for all intents (recentIntents,
\* "already_executed").
IntentOnce ==
  Cardinality(Intents) <= RecentIntents /\ Executes
    /\ lp.command.intent # NoIntent =>
    \A r \in ran : <<r[1], r[3]>> # <<lp.command.gen, lp.command.intent>>

\* A stop that was requested is carried out while Wi-Fi stays on: the request is
\* gone and the drive stands, whatever the two tasks do meanwhile
\* (processPendingStop at both ends of update and in its loop).
StopServed == pending # "no" ~> (pending = "no" /\ ~robot.driving) \/ ~running

\* A controller that disconnects leaves the robot faulted while Wi-Fi stays on
\* (docs/WIFI_PROTOCOL.md:77, WS_EVT_DISCONNECT, revokeController).
ControllerLossStops ==
  cb.at = "revoke" /\ session.active ~>
    robot.state \in {"FAULT", "ESTOP"} \/ ~running

-----------------------------------------------------------------------------
\* What a document says and the code does not do.

\* A controller that disconnects does not leave the robot armed
\* (docs/WIFI_PROTOCOL.md:77: disconnect faults and disarms the robot; stop()
\* drops the request when the session has already ended).
ControllerLossDisarms ==
  cb.at = "revoke" /\ session.active ~> robot.state # "ARMED"

=============================================================================

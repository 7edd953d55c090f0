----------------------------- MODULE WifiControl -----------------------------
(***************************************************************************)
(* The remote control path of WifiControl.cpp.  Two tasks share it:        *)
(*   - the callback task of the asynchronous web server, which runs one    *)
(*     WebSocket event at a time: connect, disconnect, a message;          *)
(*   - the loop task, which runs update() once per loop() and, between two *)
(*     updates, the commands of the serial line and of the two buttons.    *)
(* They meet in the session (_stateMux), the command queue with its stop   *)
(* request (_queueMux) and the dispatch mutex.  A critical section is one  *)
(* atomic step here, so everything between two of them is interleaved; a   *)
(* step that holds the dispatch mutex from its first line to its last      *)
(* waits for the mutex and is atomic.                                      *)
(*                                                                         *)
(* Time is abstract: a lease or a watchdog may run out whenever it runs.   *)
(* The robot is reduced to what a remote controller can change.  Messages  *)
(* that the handler only answers (unknown types, a bad token, a replayed   *)
(* id, the rate limits) leave no trace and are not steps.                  *)
(***************************************************************************)
EXTENDS Integers, Sequences, FiniteSets

CONSTANTS
  Clients,        \* ids of WebSocket clients
  RemoteKinds,    \* the kinds of command the controller sends
  LocalKinds,     \* the kinds of command the serial line and autonomy send
  Intents,        \* intent ids a controller attaches to commands
  QueueCapacity,  \* WIFI_COMMAND_QUEUE_CAPACITY
  MaxClients,     \* WIFI_MAX_CLIENTS
  RecentIntents,  \* WifiControllerSession::MAX_RECENT_INTENTS
  SerialWifi,     \* the serial line may switch Wi-Fi off and on
  IdModulus,      \* request ids are uint32_t: 2^32 on the device
  RequestIds,     \* the request ids a controller sends
  MaxId,          \* bound: a session that has accepted so high an id is done
  MaxSessions,    \* bound: pairings that succeed
  MaxInputs,      \* bound: local commands and stop messages
  NoClient, NoIntent

ASSUME WifiAssumption ==
  /\ QueueCapacity \in Nat \ {0} /\ MaxClients \in Nat \ {0}
  /\ RecentIntents \in Nat \ {0} /\ SerialWifi \in BOOLEAN
  /\ IdModulus \in Nat \ {0} /\ RequestIds \subseteq 0 .. IdModulus - 1
  /\ MaxId \in Nat /\ MaxSessions \in Nat /\ MaxInputs \in Nat
  /\ NoClient \notin Clients /\ NoIntent \notin Intents

VARIABLES
  running,    \* _running
  clients,    \* ids in _clients
  session,    \* _session
  sessions,   \* _nextSessionGeneration
  code,       \* a pairing code is on the display
  queue,      \* _cmdQueue
  pending,    \* _pendingStop and _pendingStopFault
  mutex,      \* holder of _dispatchMutex
  epoch,      \* ControlRouter::_currentEpoch
  intervened, \* ControlRouter::_lastInterventionEpoch
  robot,      \* what the router's commands change
  cb,         \* where the callback task is, and its locals
  lp,         \* where the loop task is, and its locals
  inputs      \* local commands and stop messages so far

wifiVars == <<running, clients, session, sessions, code, queue, pending, mutex>>
routerVars == <<epoch, intervened, robot>>
vars == <<wifiVars, routerVars, cb, lp, inputs>>

Kind == {"ARM", "DISARM", "MOVE", "STOP", "OTHER"}

ASSUME KindAssumption == RemoteKinds \subseteq Kind /\ LocalKinds \subseteq Kind

\* "NONE" is a stop message, the others are faults; "no" is no stop pending.
StopFault == {"NONE", "CONTROLLER_DISCONNECTED", "CONTROLLER_LEASE_EXPIRED",
              "DRIVE_WATCHDOG"}

Status == {"PENDING", "SUCCEEDED", "FAILED", "REJECTED", "ABORTED"}

\* lastId counts on where the id of the device wraps: the device has lastId
\* modulo IdModulus, or no id yet when it is 0.  A watchdog that was started when
\* millis() was 0 is "blind": lastActiveDriveMs says that it is off.
Session ==
  [active: BOOLEAN, client: Clients \cup {NoClient}, gen: 0 .. MaxSessions,
   lastId: Nat, lease: {"fresh", "expired"},
   watchdog: {"off", "running", "late", "blind"},
   intents: Seq([intent: Intents, status: Status])]

NoSession ==
  [active |-> FALSE, client |-> NoClient, gen |-> 0, lastId |-> 0,
   lease |-> "fresh", watchdog |-> "off", intents |-> <<>>]

\* The id is the one sent, and counts on like lastId once it is accepted.
Queued ==
  [kind: Kind, id: Nat, intent: Intents \cup {NoIntent},
   client: Clients \cup {NoClient}, gen: 0 .. MaxSessions, epoch: Nat]

NoCommand ==
  [kind |-> "OTHER", id |-> 0, intent |-> NoIntent, client |-> NoClient,
   gen |-> 0, epoch |-> 0]

CallbackStep == {"idle", "ping", "accept", "remember", "stamp", "enqueue",
                 "pair", "revoke", "newCode"}

\* The three calls of processPendingStop share their steps; lp.next says where
\* the loop goes on, "again" being the call that is followed by the last one.
LoopStep == {"idle", "timers", "leaseExpired", "watchdogExpired", "take", "stop",
             "dequeue", "check", "lock", "execute", "report", "newCode", "off"}

TypeOK ==
  /\ running \in BOOLEAN /\ code \in BOOLEAN
  /\ clients \subseteq Clients /\ Cardinality(clients) <= MaxClients
  /\ session \in Session /\ Len(session.intents) <= RecentIntents
  /\ sessions \in 0 .. MaxSessions
  /\ queue \in Seq(Queued) /\ Len(queue) <= QueueCapacity
  /\ pending \in StopFault \cup {"no"}
  /\ mutex \in {"free", "loop"}
  /\ epoch \in Nat /\ intervened \in 0 .. epoch
  /\ robot \in [state: {"DISARMED", "ARMED", "FAULT", "ESTOP"}, driving: BOOLEAN]
  /\ cb \in [at: CallbackStep, command: Queued]
  /\ lp \in [at: LoopStep, next: {"dequeue", "again", "idle"}, command: Queued,
             fault: StopFault, current: BOOLEAN, superseded: BOOLEAN,
             status: Status, hadController: BOOLEAN]
  /\ inputs \in 0 .. MaxInputs

\* start() at power-up, before any client connects.
Init ==
  /\ running = TRUE /\ code = TRUE /\ clients = {}
  /\ session = NoSession /\ sessions = 0
  /\ queue = <<>> /\ pending = "no" /\ mutex = "free"
  /\ epoch = 0 /\ intervened = 0
  /\ robot = [state |-> "DISARMED", driving |-> FALSE]
  /\ cb = [at |-> "idle", command |-> NoCommand]
  /\ lp = [at |-> "idle", next |-> "dequeue", command |-> NoCommand,
           fault |-> "NONE", current |-> FALSE, superseded |-> FALSE,
           status |-> "FAILED", hadController |-> FALSE]
  /\ inputs = 0

-----------------------------------------------------------------------------
(* Shared operations. *)

\* Mutant: a waiting stop message masks the fault.
StopRequestedMasking(fault) == IF pending = "no" THEN fault ELSE pending

\* A stop message does not mask a fault that is already waiting.
StopRequested(fault) ==
  IF pending \in {"no", "NONE"} \/ fault # "NONE" THEN fault ELSE pending

\* Mutant: the session ends while a command of it is being handed over.
RevokeControllerUnlocked(fault) ==
  /\ IF session.active
     THEN /\ session' = NoSession
          /\ queue' = <<>>
          /\ pending' = StopRequested(fault)
     ELSE UNCHANGED <<session, queue, pending>>
  /\ UNCHANGED <<running, clients, sessions, code, mutex>>

\* Mutant: no stop is requested.
RevokeControllerOnly(fault) ==
  /\ mutex = "free"
  /\ IF session.active
     THEN session' = NoSession /\ queue' = <<>>
     ELSE UNCHANGED <<session, queue>>
  /\ UNCHANGED <<running, clients, sessions, code, pending, mutex>>

\* revokeController(): waits for the dispatch mutex.  The callers go on to make
\* a new pairing code, after the mutex is released.
RevokeController(fault) ==
  /\ mutex = "free"
  /\ IF session.active
     THEN /\ session' = NoSession
          /\ queue' = <<>>
          /\ pending' = StopRequested(fault)
     ELSE UNCHANGED <<session, queue, pending>>
  /\ UNCHANGED <<running, clients, sessions, code, mutex>>

Owns(command) == session.active /\ session.client = command.client

\* commandSessionCurrent() and the test of acceptRequestId().
SessionCurrent(command) == Owns(command) /\ session.gen = command.gen

Refreshed(s) == [s EXCEPT !.lease = "fresh"]

-----------------------------------------------------------------------------
(* The callback task. *)

CallbackGoes(step) == cb' = [cb EXCEPT !.at = step]

CallbackDone == cb' = [at |-> "idle", command |-> NoCommand]

CallbackOnly == UNCHANGED <<routerVars, lp>>

\* WS_EVT_CONNECT: without a free slot the client is closed at once.
Connect(c) ==
  /\ running /\ cb.at = "idle"
  /\ c \notin clients /\ Cardinality(clients) < MaxClients
  /\ session.client # c
  /\ clients' = clients \cup {c}
  /\ UNCHANGED <<running, session, sessions, code, queue, pending, mutex, cb,
                 inputs>>
  /\ CallbackOnly

\* The slot is freed first; the session ends only once the mutex is free.
\* A client that update() evicted still gets its disconnect.
Disconnect(c) ==
  /\ running /\ cb.at = "idle"
  /\ c \in clients \/ session.client = c
  /\ clients' = clients \ {c}
  /\ IF session.active /\ session.client = c
     THEN CallbackGoes("revoke") ELSE UNCHANGED cb
  /\ UNCHANGED <<running, session, sessions, code, queue, pending, mutex, inputs>>
  /\ CallbackOnly

RevokeDisconnected ==
  /\ cb.at = "revoke"
  /\ RevokeController("CONTROLLER_DISCONNECTED")
  /\ IF session.active THEN CallbackGoes("newCode") ELSE CallbackDone
  /\ CallbackOnly /\ UNCHANGED inputs

ShowNewCode ==
  /\ cb.at = "newCode"
  /\ code' = TRUE
  /\ CallbackDone
  /\ UNCHANGED <<running, clients, session, sessions, queue, pending, mutex, inputs>>
  /\ CallbackOnly

\* The displayed code was entered and no other client is the controller ...
ReceivePair(c) ==
  /\ running /\ cb.at = "idle" /\ c \in clients
  /\ code
  /\ ~session.active \/ session.client = c
  /\ sessions < MaxSessions
  /\ cb' = [at |-> "pair", command |-> [NoCommand EXCEPT !.client = c]]
  /\ UNCHANGED <<wifiVars, inputs>>
  /\ CallbackOnly

\* ... which is looked at again under the mutex, but the code is not.
Pair ==
  /\ cb.at = "pair"
  /\ mutex = "free"
  /\ IF ~session.active \/ session.client = cb.command.client
     THEN /\ session' = [NoSession EXCEPT !.active = TRUE,
                           !.client = cb.command.client, !.gen = sessions + 1]
          /\ sessions' = sessions + 1
          /\ code' = FALSE
          /\ queue' = <<>>
     ELSE UNCHANGED <<session, sessions, code, queue>>
  /\ CallbackDone
  /\ UNCHANGED <<running, clients, pending, mutex, inputs>>
  /\ CallbackOnly

\* A message of the controller that carries the session's token.
Receive(c, step, kind, id, intent) ==
  /\ running /\ cb.at = "idle" /\ c \in clients
  /\ session.active /\ session.client = c /\ session.lastId < MaxId
  /\ cb' = [at |-> step,
            command |-> [kind |-> kind, id |-> id, intent |-> intent,
                         client |-> c, gen |-> session.gen, epoch |-> 0]]
  /\ UNCHANGED <<wifiVars, inputs>>
  /\ CallbackOnly

ReceivePing(c, id) == Receive(c, "ping", "OTHER", id, NoIntent)

ReceiveControl(c, kind, id, intent) == Receive(c, "accept", kind, id, intent)

\* How far an id is ahead of the last one that was accepted.
Difference(id) == (id - session.lastId) % IdModulus

\* Mutant: the last id is accepted once more.
AcceptableAgain(command) ==
  /\ command.id # 0
  /\ SessionCurrent(command)
  /\ session.lastId = 0 \/ 2 * Difference(command.id) < IdModulus

\* acceptRequestId(): the difference of two uint32_t, as an int32_t, is positive.
Acceptable(command) ==
  /\ command.id # 0
  /\ SessionCurrent(command)
  /\ \/ session.lastId = 0
     \/ Difference(command.id) > 0 /\ 2 * Difference(command.id) < IdModulus

\* An accepted id, counted on from the last one.
Continued(id) ==
  IF session.lastId = 0 THEN id ELSE session.lastId + Difference(id)

AcceptPing ==
  /\ cb.at = "ping"
  /\ IF Acceptable(cb.command)
     THEN session' = Refreshed([session EXCEPT !.lastId = Continued(cb.command.id)])
     ELSE UNCHANGED session
  /\ CallbackDone
  /\ UNCHANGED <<running, clients, sessions, code, queue, pending, mutex, inputs>>
  /\ CallbackOnly

Accept ==
  /\ cb.at = "accept"
  /\ IF Acceptable(cb.command)
     THEN /\ session' = [session EXCEPT !.lastId = Continued(cb.command.id)]
          /\ cb' = [cb EXCEPT !.at = IF cb.command.intent = NoIntent
                                     THEN "stamp" ELSE "remember",
                              !.command.id = Continued(@)]
     ELSE CallbackDone /\ UNCHANGED session
  /\ UNCHANGED <<running, clients, sessions, code, queue, pending, mutex, inputs>>
  /\ CallbackOnly

\* Mutant: an intent that has no result yet is not known.
RememberedSettled(intent) ==
  \E i \in DOMAIN session.intents :
    session.intents[i].intent = intent /\ session.intents[i].status # "PENDING"

Remembered(intent) ==
  \E i \in DOMAIN session.intents : session.intents[i].intent = intent

\* The ring _recentIntents, oldest first.
Recorded(intents, intent) ==
  LET kept == IF Len(intents) < RecentIntents THEN intents ELSE Tail(intents)
  IN Append(kept, [intent |-> intent, status |-> "PENDING"])

\* A known intent is answered already_executed; a new one becomes PENDING.
Remember ==
  /\ cb.at = "remember"
  /\ IF Owns(cb.command) /\ Remembered(cb.command.intent)
     THEN CallbackDone /\ UNCHANGED session
     ELSE /\ session' = IF Owns(cb.command)
                        THEN [session EXCEPT !.intents =
                                Recorded(session.intents, cb.command.intent)]
                        ELSE session
          /\ CallbackGoes("stamp")
  /\ UNCHANGED <<running, clients, sessions, code, queue, pending, mutex, inputs>>
  /\ CallbackOnly

\* currentEpoch() is read without a lock, before the command is in the queue.
Stamp ==
  /\ cb.at = "stamp"
  /\ cb' = [cb EXCEPT !.at = "enqueue", !.command.epoch = epoch]
  /\ UNCHANGED <<wifiVars, inputs>>
  /\ CallbackOnly

\* Mutant: the queue takes one command too many.
EnqueueBeyond ==
  /\ cb.at = "enqueue"
  /\ IF pending = "no" /\ Len(queue) <= QueueCapacity
     THEN /\ queue' = Append(queue, cb.command)
          /\ session' = IF SessionCurrent(cb.command)
                        THEN Refreshed(session) ELSE session
     ELSE UNCHANGED <<queue, session>>
  /\ CallbackDone
  /\ UNCHANGED <<running, clients, sessions, code, pending, mutex, inputs>>
  /\ CallbackOnly

\* No command joins the queue while a stop is pending: queue_full.
Enqueue ==
  /\ cb.at = "enqueue"
  /\ IF pending = "no" /\ Len(queue) < QueueCapacity
     THEN /\ queue' = Append(queue, cb.command)
          /\ session' = IF SessionCurrent(cb.command)
                        THEN Refreshed(session) ELSE session
     ELSE UNCHANGED <<queue, session>>
  /\ CallbackDone
  /\ UNCHANGED <<running, clients, sessions, code, pending, mutex, inputs>>
  /\ CallbackOnly

\* A stop overtakes the queue; with a wrong token it only renews the lease.
ReceiveStop(c, tokenMatches) ==
  /\ running /\ cb.at = "idle" /\ c \in clients
  /\ session.active /\ session.client = c
  /\ mutex = "free"
  /\ inputs < MaxInputs /\ inputs' = inputs + 1
  /\ session' = Refreshed(session)
  /\ IF tokenMatches
     THEN queue' = <<>> /\ pending' = StopRequested("NONE")
     ELSE UNCHANGED <<queue, pending>>
  /\ UNCHANGED <<running, clients, sessions, code, mutex, cb>>
  /\ CallbackOnly

-----------------------------------------------------------------------------
(* The router, as far as a remote command can tell. *)

Intervention(kind) == kind \in {"STOP", "DISARM"}

\* Mutant: the intervention is dated before it is counted.
CountedLate(intervention) ==
  /\ epoch' = epoch + 1
  /\ intervened' = IF intervention THEN epoch ELSE intervened

\* ControlRouter::execute() counts every command and remembers interventions;
\* a command that does not come over Wi-Fi always is one.
Counted(intervention) ==
  /\ epoch' = epoch + 1
  /\ intervened' = IF intervention THEN epoch + 1 ELSE intervened

Stopped(r) == [r EXCEPT !.driving = FALSE]
Disarmed(r) ==
  [state |-> IF r.state = "ARMED" THEN "DISARMED" ELSE r.state, driving |-> FALSE]
Faulted(r) ==
  [state |-> IF r.state = "ESTOP" THEN "ESTOP" ELSE "FAULT", driving |-> FALSE]

\* What a command may make of the robot, and whether execute() returns true.
Outcomes(kind, r) ==
  CASE kind = "ARM" ->
         IF r.state = "ESTOP" THEN {<<r, FALSE>>}
         ELSE {<<[r EXCEPT !.state = "ARMED"], TRUE>>, <<Faulted(r), FALSE>>}
    [] kind = "DISARM" -> {<<Disarmed(r), TRUE>>}
    [] kind = "MOVE" ->
         IF r.state = "ARMED"
         THEN {<<[r EXCEPT !.driving = TRUE], TRUE>>, <<Stopped(r), FALSE>>,
               <<Faulted(r), FALSE>>}
         ELSE {<<r, FALSE>>}
    [] kind = "STOP" -> {<<Stopped(r), TRUE>>}
    [] kind = "OTHER" ->
         {<<r, TRUE>>, <<r, FALSE>>, <<Stopped(r), TRUE>>, <<Faulted(r), FALSE>>}

\* execute() begins with updateSafety(), which may find a fault.
Executed(kind) ==
  Outcomes(kind, robot) \cup
  IF robot.state = "ESTOP" THEN {} ELSE Outcomes(kind, Faulted(robot))

\* ControlRouter::emergencyStop().
EmergencyStop == Counted(TRUE) /\ robot' = Faulted(robot)

-----------------------------------------------------------------------------
(* The loop task: update(). *)

LoopGoes(step) == lp' = [lp EXCEPT !.at = step]

LoopOnly == UNCHANGED <<cb, inputs>>

\* The pairing code expires and idle unpaired clients lose their slot.
BeginUpdate(expired, evicted) ==
  /\ running /\ lp.at = "idle"
  /\ evicted \subseteq clients \ {IF session.active THEN session.client
                                  ELSE NoClient}
  /\ code' = (code /\ ~expired)
  /\ clients' = clients \ evicted
  /\ LoopGoes("timers")
  /\ UNCHANGED <<running, session, sessions, queue, pending, mutex, routerVars>>
  /\ LoopOnly

CheckTimers ==
  /\ lp.at = "timers"
  /\ IF session.active /\ session.lease = "expired"
     THEN LoopGoes("leaseExpired") /\ UNCHANGED session
     ELSE IF session.active /\ session.watchdog = "late"
     THEN /\ LoopGoes("watchdogExpired")
          /\ session' = [session EXCEPT !.watchdog = "off"]
     ELSE lp' = [lp EXCEPT !.at = "take", !.next = "dequeue"] /\ UNCHANGED session
  /\ UNCHANGED <<running, clients, sessions, code, queue, pending, mutex,
                 routerVars>>
  /\ LoopOnly

LeaseExpired ==
  /\ lp.at = "leaseExpired"
  /\ RevokeController("CONTROLLER_LEASE_EXPIRED")
  /\ lp' = [lp EXCEPT !.at = IF session.active THEN "newCode" ELSE "take",
                      !.next = "dequeue"]
  /\ UNCHANGED routerVars /\ LoopOnly

WatchdogExpired ==
  /\ lp.at = "watchdogExpired"
  /\ queue' = <<>>
  /\ pending' = StopRequested("DRIVE_WATCHDOG")
  /\ lp' = [lp EXCEPT !.at = "take", !.next = "dequeue"]
  /\ UNCHANGED <<running, clients, session, sessions, code, mutex, routerVars>>
  /\ LoopOnly

AfterStop ==
  lp' = IF lp.next = "again" THEN [lp EXCEPT !.at = "take", !.next = "idle"]
        ELSE [lp EXCEPT !.at = lp.next]

\* processPendingStop(): the request is taken down before it is acted upon.
TakePendingStop ==
  /\ lp.at = "take"
  /\ IF pending = "no"
     THEN AfterStop /\ UNCHANGED <<queue, pending>>
     ELSE /\ pending' = "no"
          /\ queue' = <<>>
          /\ lp' = [lp EXCEPT !.at = "stop", !.fault = pending]
  /\ UNCHANGED <<running, clients, session, sessions, code, mutex, routerVars>>
  /\ LoopOnly

\* Mutant: a stop message rests the watchdog and nothing else.
ExecutePendingFault ==
  /\ lp.at = "stop"
  /\ IF lp.fault = "NONE" THEN UNCHANGED routerVars ELSE EmergencyStop
  /\ session' = [session EXCEPT !.watchdog = "off"]
  /\ AfterStop
  /\ UNCHANGED <<running, clients, sessions, code, queue, pending, mutex>>
  /\ LoopOnly

\* execute(STOP) or emergencyStop(fault); the watchdog rests either way.
ExecutePendingStop ==
  /\ lp.at = "stop"
  /\ IF lp.fault = "NONE"
     THEN Counted(TRUE) /\ \E outcome \in Executed("STOP") : robot' = outcome[1]
     ELSE EmergencyStop
  /\ session' = [session EXCEPT !.watchdog = "off"]
  /\ AfterStop
  /\ UNCHANGED <<running, clients, sessions, code, queue, pending, mutex>>
  /\ LoopOnly

Dequeue ==
  /\ lp.at = "dequeue"
  /\ IF pending = "no" /\ queue # <<>>
     THEN /\ lp' = [lp EXCEPT !.at = "check", !.command = Head(queue)]
          /\ queue' = Tail(queue)
     ELSE lp' = [lp EXCEPT !.at = "take", !.next = "idle"] /\ UNCHANGED queue
  /\ UNCHANGED <<running, clients, session, sessions, code, pending, mutex,
                 routerVars>>
  /\ LoopOnly

\* A stop that came in since drops the command and ends the loop.
CheckPendingStop ==
  /\ lp.at = "check"
  /\ lp' = IF pending = "no" THEN [lp EXCEPT !.at = "lock"]
           ELSE [lp EXCEPT !.at = "take", !.next = "again"]
  /\ UNCHANGED <<wifiVars, routerVars>>
  /\ LoopOnly

Superseded(command) ==
  intervened > command.epoch /\ ~Intervention(command.kind)

LockDispatch ==
  /\ lp.at = "lock"
  /\ mutex = "free"
  /\ mutex' = "loop"
  /\ lp' = [lp EXCEPT !.at = "execute", !.current = SessionCurrent(lp.command),
                      !.superseded = Superseded(lp.command)]
  /\ UNCHANGED <<running, clients, session, sessions, code, queue, pending,
                 routerVars>>
  /\ LoopOnly

Executes == lp.at = "execute" /\ lp.current /\ ~lp.superseded

\* execute(), the start of the drive watchdog, and the mutex is released.
ExecuteCommand ==
  /\ Executes
  /\ mutex' = "free"
  /\ Counted(Intervention(lp.command.kind))
  /\ \E outcome \in Executed(lp.command.kind) :
       /\ robot' = outcome[1]
       /\ IF lp.command.kind = "MOVE" /\ outcome[2] /\ Owns(lp.command)
          THEN \E watchdog \in {"running", "blind"} :
                 session' = [session EXCEPT !.watchdog = watchdog]
          ELSE UNCHANGED session
       /\ lp' = [lp EXCEPT !.at = "report",
                  !.status = IF outcome[2] THEN "SUCCEEDED" ELSE "FAILED"]
  /\ UNCHANGED <<running, clients, sessions, code, queue, pending>>
  /\ LoopOnly

\* session_expired or superseded.
DropCommand ==
  /\ lp.at = "execute" /\ ~Executes
  /\ mutex' = "free"
  /\ lp' = [lp EXCEPT !.at = "report",
                      !.status = IF lp.current THEN "ABORTED" ELSE "REJECTED"]
  /\ UNCHANGED <<running, clients, session, sessions, code, queue, pending,
                 routerVars>>
  /\ LoopOnly

\* The remembered intent, of whichever session is active now, gets its status.
Settled(intents, intent, status) ==
  [i \in DOMAIN intents |->
     IF intents[i].intent = intent THEN [intents[i] EXCEPT !.status = status]
     ELSE intents[i]]

ReportCommand ==
  /\ lp.at = "report"
  /\ session' = [session EXCEPT !.intents =
                   Settled(@, lp.command.intent, lp.status)]
  /\ lp' = [lp EXCEPT !.at = "dequeue", !.command = NoCommand]
  /\ UNCHANGED <<running, clients, sessions, code, queue, pending, mutex,
                 routerVars>>
  /\ LoopOnly

-----------------------------------------------------------------------------
(* The loop task between two updates: the serial line and autonomy, which  *)
(* go through execute(), the buttons, and the drive's own time limit.      *)

AtRest == lp.at = "idle" /\ inputs < MaxInputs /\ inputs' = inputs + 1

LocalCommand(kind) ==
  /\ AtRest
  /\ Counted(TRUE)
  /\ \E outcome \in Executed(kind) : robot' = outcome[1]
  /\ UNCHANGED <<wifiVars, cb, lp>>

\* The button chord, held once to stop and once more to reset.
LocalEstop ==
  /\ AtRest
  /\ IF robot.state = "ESTOP"
     THEN /\ robot' = [robot EXCEPT !.state = "DISARMED"]
          /\ UNCHANGED <<epoch, intervened>>
     ELSE /\ robot' = [state |-> "ESTOP", driving |-> FALSE]
          /\ Counted(TRUE)
  /\ UNCHANGED <<wifiVars, cb, lp>>

\* updateSafety() finds a fault: no command, so no epoch.
SafetyFaultFound ==
  /\ AtRest
  /\ robot.state \in {"DISARMED", "ARMED"}
  /\ robot' = Faulted(robot)
  /\ UNCHANGED <<wifiVars, epoch, intervened, cb, lp>>

\* requestNewPairingCode() from the buttons or from WIFI PAIR looks for a
\* controller ...
RequestNewPairingCode ==
  /\ running /\ AtRest
  /\ ~session.active
  /\ Counted(TRUE) \/ UNCHANGED <<epoch, intervened>>
  /\ lp' = [lp EXCEPT !.at = "newCode", !.next = "idle"]
  /\ UNCHANGED <<wifiVars, robot, cb>>

\* ... before it makes the code; so does revokeController() in update().
GeneratePairingCode ==
  /\ lp.at = "newCode"
  /\ code' = TRUE
  /\ LoopGoes(IF lp.next = "idle" THEN "idle" ELSE "take")
  /\ UNCHANGED <<running, clients, session, sessions, queue, pending, mutex,
                 routerVars>>
  /\ LoopOnly

DriveTimesOut ==
  /\ lp.at = "idle"
  /\ robot.driving
  /\ robot' = Stopped(robot)
  /\ UNCHANGED <<wifiVars, epoch, intervened, cb, lp, inputs>>

\* WIFI OFF: stop() looks for a controller before it revokes it.
BeginWifiOff ==
  /\ SerialWifi /\ running
  /\ AtRest
  /\ Counted(TRUE)
  /\ lp' = [lp EXCEPT !.at = "off", !.hadController = session.active]
  /\ UNCHANGED <<wifiVars, robot, cb>>

\* Mutant: Wi-Fi goes off under a controller and nothing stops.
FinishWifiOffQuietly ==
  /\ lp.at = "off"
  /\ mutex = "free" /\ cb.at = "idle"
  /\ running' = FALSE
  /\ code' = FALSE
  /\ session' = NoSession
  /\ queue' = <<>>
  /\ pending' = "no"
  /\ UNCHANGED routerVars
  /\ LoopGoes("idle")
  /\ UNCHANGED <<clients, sessions, mutex, cb, inputs>>

\* The rest of stop().  The code ends the server without a look at the callback
\* task; a handler that is under way is taken to have ended.
FinishWifiOff ==
  /\ lp.at = "off"
  /\ mutex = "free" /\ cb.at = "idle"
  /\ running' = FALSE
  /\ code' = FALSE
  /\ session' = NoSession
  /\ queue' = IF session.active THEN <<>> ELSE queue
  /\ IF lp.hadController
     THEN EmergencyStop /\ pending' = "no"
     ELSE /\ UNCHANGED routerVars
          /\ pending' = IF session.active
                        THEN StopRequested("CONTROLLER_DISCONNECTED") ELSE pending
  /\ LoopGoes("idle")
  /\ UNCHANGED <<clients, sessions, mutex, cb, inputs>>

\* WIFI ON: start() forgets everything, the stop request included.
WifiOn ==
  /\ SerialWifi /\ ~running
  /\ AtRest
  /\ running' = TRUE /\ code' = TRUE /\ clients' = {}
  /\ session' = NoSession /\ sessions' = 0
  /\ queue' = <<>> /\ pending' = "no"
  /\ Counted(TRUE)
  /\ UNCHANGED <<mutex, robot, cb, lp>>

-----------------------------------------------------------------------------
(* Time. *)

LeaseRunsOut ==
  /\ session.active /\ session.lease = "fresh"
  /\ session' = [session EXCEPT !.lease = "expired"]
  /\ UNCHANGED <<running, clients, sessions, code, queue, pending, mutex,
                 routerVars, cb, lp, inputs>>

WatchdogRunsOut ==
  /\ session.watchdog = "running"
  /\ session' = [session EXCEPT !.watchdog = "late"]
  /\ UNCHANGED <<running, clients, sessions, code, queue, pending, mutex,
                 routerVars, cb, lp, inputs>>

-----------------------------------------------------------------------------

CallbackArrival ==
  \E c \in Clients :
    \/ Connect(c)
    \/ Disconnect(c)
    \/ ReceivePair(c)
    \/ \E id \in RequestIds :
         \/ ReceivePing(c, id)
         \/ \E kind \in RemoteKinds, intent \in Intents \cup {NoIntent} :
              ReceiveControl(c, kind, id, intent)
    \/ \E tokenMatches \in BOOLEAN : ReceiveStop(c, tokenMatches)

\* What a handler does after its first critical section.
CallbackHandler ==
  \/ RevokeDisconnected \/ ShowNewCode \/ Pair \/ AcceptPing
  \/ Accept \/ Remember \/ Stamp \/ Enqueue

Update ==
  \/ \E expired \in BOOLEAN, evicted \in SUBSET Clients :
       BeginUpdate(expired, evicted)
  \/ CheckTimers \/ LeaseExpired \/ WatchdogExpired
  \/ TakePendingStop \/ ExecutePendingStop
  \/ Dequeue \/ CheckPendingStop \/ LockDispatch
  \/ ExecuteCommand \/ DropCommand \/ ReportCommand

BetweenUpdates ==
  \/ \E kind \in LocalKinds : LocalCommand(kind)
  \/ LocalEstop
  \/ SafetyFaultFound
  \/ RequestNewPairingCode
  \/ DriveTimesOut
  \/ BeginWifiOff
  \/ WifiOn

Next ==
  \/ CallbackArrival \/ CallbackHandler
  \/ Update \/ GeneratePairingCode \/ FinishWifiOff \/ BetweenUpdates
  \/ LeaseRunsOut \/ WatchdogRunsOut

Spec == Init /\ [][Next]_vars

\* loop() is called for ever and FreeRTOS schedules both tasks: a call under way
\* goes on, and update() is called again.  No message, command or timer is owed.
\* stop() does not wait for handlers, as FinishWifiOff does here: it is due even
\* when handlers begin again and again, hence the strong fairness.
Fairness ==
  /\ WF_vars(CallbackHandler)
  /\ WF_vars(Update \/ GeneratePairingCode)
  /\ SF_vars(FinishWifiOff)

FairSpec == Spec /\ Fairness

=============================================================================

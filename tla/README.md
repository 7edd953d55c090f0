# BuddyBot: a verification development

BuddyBot is the firmware of a small wheeled desk robot (ESP32-S3, Arduino).
This directory holds TLA+ models of the part of it that decides whether wheels
and joints may move, TLC configurations that check them on small instances, and
proofs of their safety properties for every value of the constants. Source paths are
relative to the repository; `src/` in `PROJECT.json` is the repository's root, so
`src/src/X.cpp` there is `src/X.cpp` in a checkout. In this text a bare `X.cpp`
is a file of the firmware's own `src/` directory.

## 1. The system

### How it runs

Two tasks execute this code.

* The **loop task** runs `setup()` once and then `loop()` (`BuddyBot.cpp`) for
  ever. One pass is: buttons; while booting, one boot phase and nothing else;
  `robot.update()` (hardware, running action, sensors); `router.updateSafety()`;
  autonomy; `wifiControl.update()`; the serial line.
* The **callback task** of the asynchronous web server handles one WebSocket
  event at a time: connect, disconnect, a message.

They share the controller session (`_stateMux`), the command queue and its stop
request (`_queueMux`) and the right to dispatch a command (`_dispatchMutex`).
Everything else belongs to the loop task. A restart (power, brown-out, task
watchdog) may come at any instruction; only the two flash keys of the safety
supervisor survive it.

A remote command travels: message -> `acceptRequestId` -> intent ring -> epoch
stamp -> queue -> (other task) dequeue -> dispatch mutex -> `ControlRouter::execute`
-> `SafetySupervisor` -> `RobotAPI` -> drive. Local commands (serial line,
autonomy, buttons) enter at `execute`. Faults travel back: any of about a dozen
calls may latch one in the supervisor, which asks for a disarm that the next
`updateSafety` carries out.

### Components

For each: its state; its operations; what makes it correct; where it stands.

| Component | State | Operations | Correct when | Status |
|---|---|---|---|---|
| SafetySupervisor | state, fault, restored incident, override deadline, autonomy flag, disarm request, last inputs; flash keys `safety_state`, `safety_fault` | begin, completeBoot, update, requestArm/Disarm/Drive/Autonomy, emergencyStop, physical stop and reset, consumeDisarmRequest | an incident survives everything but a person; every incident has a name; no authority without ARMED; manual drive excludes autonomy | modelled, proved |
| WifiControl | session, request ids, lease, watchdog, queue, pending stop, pairing code and its display, client table, limits on messages and guesses, intent ring | socket callbacks; update; start/stop; new pairing code | a command runs for the session that is active, in order, once, and not after a stop or a local intervention; a lost controller stops the robot; guesses at the code are bounded | mostly modelled; proved |
| ControlRouter | boot flag, command epochs, transition log | execute (all kinds), updateSafety, emergencyStop, chord stop/reset | the supervisor's view and the drive's never part; every handler keeps a latched robot still | modelled without queries; proved |
| RobotAPI, RobotActions | remembered drive command, action and its step | arm, disarm, stop, move, action, joint, update | no forward drive against the last reading, whoever asked; an action does not outlive a fault | modelled without poses; proved |
| ObstacleSafety | obstacle state, clear timer | update, blocksForward | hysteresis; invalid readings block | modelled in time, without the recorded stop reason; proved |
| AutonomyManager | enabled, manoeuvre state, turn side | update, setEnabled | yields to manual drive; never resumes an old command | modelled |
| ServoDrive, RollerDrive, buses | connected, armed, mode, deadline, what the wheels last heard | begin, arm, disarm, drive, stop, update | wheels that turn have somebody who will stop them, and stop by themselves | modelled without pulse widths |
| ServoDiagnostics | unlocked, wheel under test, deadline | unlock, lock, test, stop, update | a test wheel is always going to be stopped | modelled |
| Loop task, boot | button chord, boot phase, serial buffer | loop, handleButtons, handleSerial, boot phases | boot ends, and nothing moves before; a grip does one thing, in time; a line is read as it was sent | modelled |
| SonicRangeSensor | reading, health, three samples, times of attempt and success, count of failures | begin, update | a reading is current; filter and spike test neither hide an obstacle nor keep rejecting an open way | modelled |
| ImuMonitor | last sample and its time | update, read | a sample is as old as it says | its verdicts only |
| Joints | position, target, trajectory | moveTo, rest, cancel, update | the joint knows what its servo was sent for; it arrives in time and never jerks back | modelled, without the two easings nobody asks for; proved |
| Parsers (serial, web) | none | parse | numbers within bounds; one command or none; the two dialects agree | modelled without JSON and replies |
| Intents (IntentResolver, CommandExecutor, EmbodimentGateway) | none of their own; the caller keeps the capabilities | resolve, execute, submit | what is reported is what the robot did; a refusal starts no drive, no arming, no action | modelled |
| Reasoning and observation | none | pure functions | decides only what the resolver would accept | the rules and what they read |
| EventLog | ring of events, next index | append, read | no torn or lost index | not modelled |
| HAL and build profiles | which devices began | begin, update | order of updates | connection only |
| Display, persona, sound, status page | presentation | | | not modelled: it drives no actuator |
| Web page, scripts, examples | | | | not modelled: no firmware state |

`PROJECT.json` lists every component with its files and the reason for what is
left out.

### What is hard here

* Two tasks and three locks: between two critical sections of one task any
  number of steps of the other may happen (dequeue / lock / execute;
  take the stop / carry it out; check the code / grant the session).
* One logical fact kept in two places: the supervisor's state and the drive's
  `_armed`; memory and flash; the wheel command and what the wheel heard.
* Handlers that compose: `move()` cancels an action, asks the supervisor, and
  drives; a refused one stops the wheels and may latch a fault on the way.
* Manoeuvres that last many passes while commands and faults arrive.
* Restarts between two flash writes, and a flash that fails without anybody being
  told.
* Unsigned numbers that wrap, in time and in request ids, compared as signed or
  plain ones, with 0 for "none".

`PROJECT.json` "hazards" lists each at its line, with the properties that watch
it.

## 2. The modules

| Module | Models | State |
|---|---|---|
| `SafetyPolicy` | the decisions of `SafetySupervisor.cpp` as operators from record to record | none |
| `SafetyLatch` | abstract: authority, the incident that stands, and its record | `armed`, `incident`, `record`, `settled` |
| `SafetySupervisor` | the supervisor's whole life, flash and restarts | `sup`, `booted`, `nvs`, `nvsOp`, `lost`, `now` |
| `SafetySupervisorProofs` | theorems about it | |
| `SafetyPolicyProofs` | what each operator of `SafetyPolicy` returns, for the proofs of the modules that use it | |
| `MCSafetySupervisor` | instance, history variables | |
| `WifiControl` | both tasks on the remote path | session, queue, stop, mutex, epochs, program counters `cb`, `lp` |
| `MCWifiControl` | instance, history variables | |
| `WifiControlProofs` | theorems about it and its history | |
| `RobotControl` | the loop task as a composition of router, robot, drive, actions, obstacle filter, diagnostics, autonomy | `robot`, `at` |
| `MCRobotControl` | instance | |
| `RangeGuard` | the range sensor and the obstacle filter, in time | `sensor`, `obstacle`, `now` |
| `MCRangeGuard` | instance, history variables | |
| `RangeGuardProofs` | theorems about it and its history | |
| `Embodiment` | intents, on top of `RobotControl` | `caps` besides `robot`, `at` |
| `MCEmbodiment` | instance, a statement of a document | |
| `RobotControlProofs` | theorems about `RobotControl` and `Embodiment` | |
| `Joint` | one servo joint with its trajectory, in time | `motion`, `lastUpdateMs`, `inverted`, `angle`, `now` |
| `MCJoint` | instance | |
| `JointProofs` | theorems about it | |
| `ControlProtocol` | the two dialects of the serial line | none |
| `LoopTask` | what the loop task measures with `millis()`, and the serial line | `now`, `at`, `chord`, `boot`, `state`, `wheels`, `drive`, `bench`, `serial` |
| `MCLoopTask` | instance, history variables | |
| `LoopTaskProofs` | theorems about it and its history | |
| `WebControlProtocol` | the messages of the web page | none |
| `Admission` | who may talk to the robot, and how often | `now`, `clients`, `session`, `code`, `display`, `guesses`, program counters `cb`, `lp` |
| `MCAdmission` | instance, history variables | |
| `AdmissionProofs` | theorems about it and its history | |

**SafetyPolicy / SafetySupervisor.** Each member function of the supervisor is
an operator of the same name (`requestArm` is `ArmRequested`, with its verdict
`ArmGranted`). `SafetySupervisor` runs them as actions. A call that latches
something new or clears the record also writes two flash keys; those writes are
steps of their own (`PutState`, `PutFault`, `RemoveState`, `RemoveFault`),
during which only `Tick` and `Restart` can happen, as the call is synchronous.
Any of them may fail, one key at a time or both when the flash does not open
(`FlashClosed`), and so may the reading of either key at a restart: the code looks
at none of the results. `lost` remembers the keys whose last access failed; no
guard reads it.
Time is `uint32_t` modulo `ClockModulus`; the differences are taken modulo it and
the signed comparison of deadlines is `Reached`. A sensor reading is any member
of `Readings`.

**SafetyLatch** says what a person near the robot may rely on. An emergency stop
stands until the reset chord settles it, a fault until an explicit arm request
does; a restart authorises nothing. Flash only ever takes what stands. A restart
recovers what is on record, or nothing when it cannot read it; with the record
settled that is what stood before. The refinement maps what the supervisor
remembers to `incident`, the state key to `record`, and `settled` is that no access
to that key is outstanding or has failed (`incidentBar`, `recordBar`,
`settledBar`).

**WifiControl.** One critical section is one step, so all interleavings of the
two tasks are explored. `cb` and `lp` say where each task is and hold its
locals: a command that has been dequeued is in `lp.command`, the values that
`update` read under the mutex and uses afterwards are `lp.current` and
`lp.superseded`. A lease or a watchdog may run out whenever it runs. The robot
behind the router is reduced to its safety state and whether it drives; the
outcome of a command is any that `execute` can have (`Outcomes`).

**RobotControl.** Every handler is an operator from `robot` to `robot`, and a
handler that calls others is the composition of theirs, in the order of the
code. An action of `Next` is one call of `loop()`; `at` is the next call. It
extends `SafetyPolicy`, so it runs the supervisor's real decisions rather than a
stub. `spin` is what last set the wheels going, as far as the writes that
arrived tell: with a roller whose bus stops answering it differs from the mode.
External behaviour (readings, IMU verdicts, whether a wait is over, whether the
roller wire answers) is chosen freely by the call that looks at it.

**RangeGuard.** One step is one pass of the loop task some milliseconds after the
last: `SonicRangeSensor::update` takes an echo (or not: rate limit), then
`ObstacleSafety::update` judges the reading. `sensor` has the fields of the
class, with the three samples that an invalid sample does not flush. An echo is
the distance the device answers; 0 stands for everything the conversion turns
into an invalid sample. `RobotControl` has the same filter as a choice: it
explores what any reading may cause, `RangeGuard` which readings there can be.

**Embodiment** extends `RobotControl` with what reasoning and the gateway do:
`Observe` keeps the capabilities of this moment in `caps`, any number of calls of
the loop may follow, and `Submit` resolves an intent against `caps` and executes
the command through the handlers of `RobotControl`. `Outcome` is the robot
afterwards with the status the gateway reports; the properties look at it for
every intent, so they speak of all that could be submitted in any reachable
state. Nothing in `loop()` calls the gateway yet; as it calls
`ControlRouter::execute` without a lock, its caller must run in the loop task, and
the model lets it run where commands do.

**Joint** is one `ServoJoint` with its `JointMotion` and the angle `Servo8Bus` has
written last. Its actions are the public calls (a jump, a timed move, rest,
cancel) and a pass of the loop of any length; commands interrupt motions as they
like. The easing curve is the code's integer arithmetic. `Sent` is the angle a
position is sent as: mirrored if the joint is inverted, then limited once more. In
`RobotControl` the five joints of the robot are moving or still, since no property
there asks where they are.

**ControlProtocol** parses a line that is already split into words, by bars or by
single blanks, and returns the set of commands it stands for: one or none. A word
is a word; what `toInt()` and the digit loop make of it is the function `Atoi`.
Numbers keep their width where the code cuts them (`UInt16`, `Int16`).

**LoopTask** is the loop of `RobotControl` seen by the clock. There the calls and
the handlers are complete and time stands still; here the robot is reduced to the
supervisor's state and to what turns its wheels, and everything that is measured
has its number: the grip on both buttons, the phases of the boot, the deadline of
a drive command, the 30 seconds of a bench test. `handleSerial` is here too, word
by word: `serial` holds the buffer and the line that is being sent, and a line may
arrive over many passes. A line that is complete goes through `ParseLine`, and the
command through `Execute`, whose disjuncts are the outcomes `execute` can have.

**WebControlProtocol** is the parser of the web messages after `deserializeJson`: a
frame is a function from field names to values with their JSON type. `WellFormed`
is what every frame must satisfy, `Commands` the switch over the message type.

**Admission** extends it with the part of `WifiControl.cpp` that decides who is
heard: the client table, the limit on messages, the pairing code with its
life, the display that shows it, and the three limits on guessing (by connection,
by all connections together, and the lockout). `WifiControl` starts where
`Admission` ends: there a pairing just succeeds, and the steps behind it are in
full. Both have the same two tasks, cut at the same critical sections.

### Modelling decisions

* `ALLOW_MOTOR_ARMING` is `false` in `Config.h` as shipped; the models take it as
  true, because with it off nothing can move. `ALLOW_ACTION_DRIVE_MOVEMENT` and
  `ENABLE_BENCH_TESTING` are the constants `ActionDrives` and `BenchTesting`, true
  in the runs: more can happen then.
* `HoldFitsInBoot` says whether the stop chord (1200 ms) can be held through while
  the robot boots. Buttons are polled during boot, but the waits of its five
  timed phases (`BootDiagnostics.cpp`) add up to some 600 ms, so the runs take it
  as false and the two incident theorems assume it. They would not hold without
  it: `completeBoot` does not write a restored incident again, so a stop latched
  during a boot that restored a fault could be overlooked by the record.
* In `RobotControl` the clock stands still. What elapsed time would decide is a
  choice of the handler that reads the clock. A manual override lapses only
  after the autonomy manager has seen it once: it lasts 600 ms, a pass of the
  loop far less.
* `REVERSE` stands for both turns: every test in the code asks whether a mode is
  `FORWARD` or `STOPPED`. `WAVE`, `DANCE` and `SLEEP` stand for the three drive
  policies an action can have.
* `SET_MOOD` stops the robot (ALERT), starts the sleep action (SLEEPY) or does
  nothing that is modelled (`ExecuteMood`; CALM stands for those).
* The wire to the two rollers is one: `RollerDrive` takes the failure of either for
  its own (`RollerWire`). Which wheel still turns afterwards is not told apart.
* A watchdog started when `millis()` reads 0 is never looked at
  (`lastActiveDriveMs != 0`). In `WifiControl`, whose time is abstract, it is the
  state `blind`, and every move may meet it; that drive ends by its own time limit.
* Request ids count on where they wrap: `lastId` is the number of ids gone through,
  the device has it modulo `IdModulus`, and `Acceptable` compares as the code does,
  by the sign of the difference.
* `stop()` does not wait for a handler of the callback task; `FinishWifiOff` does,
  which is why its fairness is strong.
* In `RangeGuard` the clock ticks once per sampling interval and the times of
  `Config.h` are scaled with it; distances are the real millimetres. A pass
  cannot be as long as the clock's period: the task watchdog restarts the robot
  long before (`MaxPassMs`).
* `Embodiment` leaves out three things `RobotControl` can do beside it (bench
  tests, actions that drive, joint commands), by the constants of its run.
* In `Joint` the mirroring of an inverted servo is about half a turn (`Mirror`),
  and `writeAngle` limits the mirrored angle with the limits of the unmirrored
  one. With the shipped calibration (0 to 180 degrees, not inverted) that changes
  nothing; an inverted joint with uneven limits stands at a limit instead of the
  mirror of where it believes to be. The model does the same, and the properties
  are about what the servo is sent.
* In `WifiControl` messages that a handler merely answers (bad token, replayed id,
  unknown type) leave no trace and are no steps, and the limits on messages and
  guesses are left to `Admission`: without them strictly more messages are
  accepted.
* `Admission` keeps the age of a window instead of its beginning: modulo the range
  of the clock for the one of all connections, up to the longest age a test asks
  for for those of one client (there a window that is over seems young again when
  the clock has gone round, which only refuses more). The end of a lockout is kept
  as it is, with 0 for none and the signed comparison. The ages of the code and of
  a client are left out: any `update()` may find a code expired and an unpaired
  client idle, which includes the underflow of `nowMs - lastActivityMs` for a
  client younger than `nowMs`.
* In `LoopTask` the commands of Wi-Fi and autonomy are one remote move; a drive
  command is granted, refused or the discovery of a fault, freely. A pass reads
  the clock once, when it starts.
* `IncidentServiced` is stated as an invariant with a bound (before anything
  acts in the next pass), which is stronger than an eventuality and needs no
  fairness.

## 3. The runs

| Run | Configuration | Shows |
|---|---|---|
| `supervisor` | `MCSafetySupervisor.cfg` | `TypeOK`, `IncidentSafe`, `ManualPrecedence`, refinement of `SafetyLatch` |
| `wifi` | `MCWifiControl.cfg` | `CommandAuthority`, `OvertakenNeverRuns`, `StopWins`, `RemoteDriveAttended` |
| `wifi_ids` | `WifiIds.cfg` | `TypeOK`, `NoReplay`, `IntentOnce` with two clients, ids that jump and wrap, two intents, a queue of one |
| `wifi_liveness` | `WifiLiveness.cfg` | `RemoteDriveAttended`, and `StopServed` and `ControllerLossStops` under fairness, with WIFI OFF and ON |
| `robot` | `MCRobotControl.cfg` | `TypeOK`, `LatchedIsStill`, `ArmedAgrees`, `WheelsSupervised`, `NoForwardIntoObstacle`, `NothingToResume`, `IncidentServiced` |
| `range` | `MCRangeGuard.cfg` | `TypeOK`, `ReadingCurrent`, `NearBlocks`, `ClearIsEarned`, `SteadyWayClears` |
| `embodiment` | `MCEmbodiment.cfg` | `SuccessIsReal`, `RefusalIsStill`, `DecisionAccepted` |
| `joint` | `MCJoint.cfg` | `TypeOK`, `WhereItSays`, `InTime`, `NeverTurnsBack` |
| `loop` | `MCLoopTask.cfg` | `TypeOK`, `ChordActs`, `WheelsEnd`, `LineAsSent`; the assumption `DialectsAgree` |
| `admission` | `MCAdmission.cfg` | `TypeOK`, `GuessesBounded`, `DisplayShowsCode`; the assumption `ExamplesParse` |

The other two runs are those of section 4. Distinct states:
`supervisor` 1.1 million, `wifi` 1.2 million, `wifi_ids` 910 000,
`wifi_liveness` 330 000, `robot` 580 000,
`range` 195 000, `embodiment` 510 000, `joint` 240 000, `loop` 1.8 million,
`admission` 2.6 million; none takes four minutes with two workers.

What the properties say:

* `IncidentSafe` is `IncidentRecorded`, `FaultNamed` and `AuthorityWithdrawn`
  together: state, cause and authority of the supervisor agree at every moment, and
  between calls flash agrees with them wherever it answered, also when a restart
  found or could read one key only. `LatchSpec` is the refinement of
  `SafetyLatch`: no call forgets an incident but the two that may, flash is never
  written anything but what stands, and a restart knows what is on record unless
  it cannot read it.
* `ManualPrecedence`: a history variable counts the time since a manual drive was
  granted; autonomy is not allowed before the override time is over, also across
  the wrap of the clock.
* `CommandAuthority`: a command handed to the router belongs to the session that
  is active at that moment. `NoReplay`: the commands of one session are executed
  in the order in which their ids were accepted, each as often as it was accepted;
  ids count on where they wrap, so an id that is accepted a second time half a
  turn later is another one (section 4). `OvertakenNeverRuns`: what a local
  intervention or a stop found waiting is not executed afterwards, though it may
  be in three places (the queue, dequeued, before the mutex).
* `IntentOnce`: while the ring has room for all intents, a session executes an
  intent once, whenever it is sent again and whatever has become of its command.
* `StopWins`: when an update is over and no stop is pending, no move accepted
  before the last acknowledged stop is driving. `RemoteDriveAttended`: between two
  updates Wi-Fi is on and a remote drive has a controller whose watchdog was
  started for it, a newer controller, or a stop on its way. `Abandoned` is the one
  exception: the drive of a controller that had just gone by itself when Wi-Fi was
  switched off (`wifi_lost_stop`), which also lasts through WIFI ON.
* `StopServed`, `ControllerLossStops`: while Wi-Fi stays on, a requested stop is
  carried out and a lost controller leaves the robot faulted.
* `LatchedIsStill`: in BOOT, FAULT and ESTOP, once serviced, every source of
  motion of the wheels is off. `ArmedAgrees`: supervisor and drive agree on
  armed. `WheelsSupervised`: wheels that turn have a running deadline or a bench
  test that will end. `NoForwardIntoObstacle`: no call leaves a forward drive
  that the last reading forbids. `NothingToResume`: an avoidance manoeuvre never
  restarts an old command. `IncidentServiced`: a fault found in a pass is serviced
  before the autonomy or a command acts in the next.

* `ReadingCurrent`: a reading that counts as valid was taken at the last attempt
  and is not due for another. `NearBlocks`: the third near echo in a row blocks
  forward drive, whatever came before. `ClearIsEarned`: CLEAR only after open
  readings without a gap for the hysteresis time. `SteadyWayClears`: after eight
  equal open echoes the state is CLEAR, whatever the spike test and the median
  remembered; with seven it need not be.
* `SuccessIsReal`: SUCCEEDED is reported only when the robot drives, is armed,
  stands, is disarmed, acts or moves its accessory as the intent asked
  (`Fulfilled`). `NotReported` is the exception: a move whose write a roller
  missed, and an action, SLEEPY or an accessory that the robot drops because its
  manipulators may not move (`embodiment_dropped`). `RefusalIsStill`: an intent
  that is rejected, denied or failed may stop something but starts no drive, no
  arming and no action. A refused MOVE does send arms and head back to rest
  (RobotAPI.cpp:368). `DecisionAccepted`: what the rules decide, the resolver
  accepts on the same observation.
* `WhereItSays`: the position a joint remembers, from which its next motion
  starts, is the one its servo was last sent for. `InTime`: no motion outlasts its
  duration by more than an interval of `update` and one long pass.
  `NeverTurnsBack`: no pass of a timed motion takes the servo farther from the
  angle its target is sent as.
* `ChordActs`: a history variable measures how long both buttons have been held.
  One grip does one thing, never too early; a grip that is not interrupted stops
  the robot within the hold time and a pass; and no boot lasts long enough for
  either, which is the assumption `~HoldFitsInBoot` of the supervisor. An
  interrupted grip goes on counting (section 4), so only the upper bound asks
  for a steady one.
* `WheelsEnd`: nobody need stop the wheels. A drive command ends after
  `SAFE_DRIVE_TIME_MS` and a pass, a wheel test 30 s and a pass after the last
  one was asked for. The exception is `DeadlineLost`, the end of the clock.
* `LineAsSent`: the serial buffer holds words of the line that is being sent and of
  no other, all of them unless the line is too long. `DialectsAgree`: a line of up
  to three words that both dialects accept means the same in both.
* `GuessesBounded`: in any span shorter than the lockout at most twice the
  allowed attempts and one more wrong guesses are judged, by how many
  connections whatever: an old window may be used up, then a new one and the
  guess that locks. A lockout whose end would be 0 locks nothing (section 4); for
  each of those the allowed attempts and one come on top, which makes 17 of 11 with
  the limit of 5. An observer starts at any wrong guess and counts on, over up to
  `MaxLost` such lockouts.
* `DisplayShowsCode`: when both tasks are done the display shows the code that is
  accepted, or nothing; unless one task changed the code between the change of
  the other and its way to the display.

### Bounds, and why they are enough

* `supervisor`: the clock has 5 ticks with an override and an IMU age of 2, so
  deadlines lie on both sides of the wrap. Readings: failed hardware, and every
  combination of range lost / blocked / clear, driving forward or not, one bad
  and one good IMU verdict, fresh and stale by the clock's motion. `StopFaults`
  has no fault, one that `FaultForArm` asks about again and one it does not.
  Nothing else is bounded: calls, failures of the flash and restarts come for
  ever.
* `wifi`: one client, two sessions, one request id each, queue of two, two local
  commands or stops. Two sessions are what stale commands need; the interleaving
  of one remote move with one local arm and a stop reaches every pair of
  critical sections.
* `wifi_ids`: one session that may send the ids 0, 1, 3 and 5 modulo 6 in any order
  until it has gone through more than a turn of them (`MaxId`): ids are skipped,
  repeated, wrap, and come again after half a turn. A queue of one and two clients
  for one slot make both overflow. Two intents fit the ring of two, as `IntentOnce`
  wants; no run overwrites a full ring, whose bound is proved (`WifiTypeCorrect`).
  Clients are interchangeable (`SYMMETRY`); no temporal property is checked with it.
* `wifi_liveness`: one session, three local commands or stops, and Wi-Fi that is
  switched off and on, so that a move drives while a stop and a disconnect are
  requested. No symmetry.
* `robot`: both drives, three startups (clean; ESTOP in flash on rollers; FAULT in
  flash with a drive that failed to begin), all readings, one IMU verdict that
  allows autonomy and one that does not. Unbounded: passes and commands come for
  ever. Half a million states.

* `range`: the clock has 8 ticks, wraps again and again and passes 0, where
  `_clearSinceMs` means something else; a pass lasts 0, 1 or 2 ticks, so that a
  sample is skipped, due or late; hysteresis 3. Five echoes: none, one in each
  band, and one so far away that its step from the near bands is a spike. The
  failure count wraps at 6, beyond the 4 that declare the sensor INVALID.
* `embodiment`: both drives, every intent kind, a malformed one and none; passes,
  commands, observations and submissions come for ever.
* `joint`: the clock has 11 ticks and wraps during motions of 2 to 5; passes of 0
  to 3 ticks with an update interval of 2, so that an update is skipped, due or
  late. Angles 0 to 12, mirrored at 12, limits of 1 and 9 that are not even, both
  ways of mounting; targets within, at and beyond the limits, durations none, too
  short and allowed. The runs
  sample the curve where these durations divide it; that it rises over all of
  its 1024 steps is an assumption TLC evaluates (`EasingRises` in `MCJoint`).

* `loop`: the clock has 11 ticks and wraps during every hold; passes of 0 and 1, so
  that every due time is met late as well as on time; holds of 2, 7 and 9, a boot
  of at most 6, drives of up to 3, tests of 2. Lines that drive or lines that
  test, among them one that is refused and one longer than the buffer of four
  words; a behaviour keeps to one of the two sets.
* `admission`: two clients for one slot, so that one reconnects as the other or
  pairs after its eviction; one attempt, a lockout of 3 windows of the message
  limit, counters modulo 3 that wrap within a window, and a clock of twice the
  lockout, the least there may be: its end falls on 0 and its sign turns over
  within the run. One lost lockout per observer. Frames: a stop, the right and the
  wrong code, whichever is right at the moment.

`CHECK_DEADLOCK FALSE` stands only in the Wi-Fi configurations: their bounds on
sessions and inputs let the model come to rest with Wi-Fi off.

### Fairness

Only `WifiControl` states fairness. `WF(CallbackHandler)`: a handler that has
begun goes on, because FreeRTOS schedules both tasks and a holder of the dispatch
mutex never waits for the other one. `WF(Update ...)`: `loop()` is called for
ever, and `update()` with it; the bounded work between two updates ends.
`SF(FinishWifiOff)`: a WIFI OFF that has begun ends, even when handlers begin again
and again; it must be strong only because the model lets `stop()` finish between
handlers, which the code does not wait for. No message, local command, time-out or
user is owed anything. Both liveness properties are claimed while Wi-Fi stays on;
switching it off at the wrong moment is one of the findings.

## 4. Findings

Two disagreements of a document with the code are defects of the code that a
short sequence of calls meets; a run exhibits each (`"expect": "violation"`).

| Run | Statement | What happens |
|---|---|---|
| `wifi_lost_stop` | WIFI_PROTOCOL.md:77, disconnect faults and disarms | disconnect, then WIFI OFF before the next update: the stop request is dropped |
| `embodiment_dropped` | intent-execution-contract.md:27 and 53, no command is silently ignored, SUCCEEDED means completed | an action or an accessory is dropped after a fault and reported SUCCEEDED |

More disagreements are visible in the models and have no run of their own; the
properties above leave each of them out by a named exception or do not speak of it:

* when the flash refuses a record or cannot be read, nobody is told and the next
  restart boots to DISARMED (`PutState`, `Restart`; CONFIGURATION.md:47,
  "a reboot cannot silently clear a safety incident");
* request ids are compared as `int32_t`: 1, 0x7FFFFFFF, 0xFFFFFFFE and 1 again are
  all executed in one session (`Acceptable`; WIFI_PROTOCOL.md:14, "strictly
  increasing", "replayed command IDs are rejected");
* `RobotActions::cancel` does not visit the accessory, so an E-stop leaves it moving
  (`CancelAction`; SAFETY_TEST_PLAN.md:64, "Active manipulator motion is cancelled");
* SERVO TEST UNLOCK disarms an armed robot and unlocks (`ExecuteUnlock`;
  SERVO_CALIBRATION_PROCEDURE.md:21, "Unlock is rejected if drive output is armed");
* a failure whose lockout would end when `millis()` is 0 locks nothing, and 2^31 ms
  after the end of a lockout the sign of the difference turns over and pairing is
  refused for another 24.8 days (`Failed`, `PairingRateLimited`; WIFI_PROTOCOL.md:78,
  "Pairing enters a temporary lockout after the configured failure threshold");
* an arm request is granted from FAULT (`RequestArm`; WIFI_PROTOCOL.md:29 has arming
  denied unless `disarmed`);
* a range sensor incident whose cause a later fault overwrites (a controller that
  disconnects, the chord) is settled by an arm request while the sensor is still
  dead (`FaultForArm`, SafetySupervisor.cpp:299; SAFETY_TEST_PLAN.md:40, "recovery
  requires a healthy sensor plus an explicit arm");
* an intent is recorded before its command is queued (`Recorded`,
  WifiControl.cpp:748); when the queue is full or a stop empties it, a retry is
  answered already_executed although the command never ran
  (intent-execution-contract.md:57, "only emit states they can genuinely
  establish");
* a move that `update` has already dequeued starts after a stop was acknowledged
  and is stopped at the end of the same update (`wifi` allows it, `StopWins`
  bounds it; WIFI_PROTOCOL.md:40 has stop immediate);
* one invalid reading leads from BLOCKED to CAUTION (`ObstacleUpdate`; the comment
  at ObstacleSafety.cpp:27 wants CLEAR_MM first);
* an obstacle refuses a move without latching a fault, so the intent is reported
  FAILED (`Status`; intent-execution-contract.md:51 has DENIED for an obstacle);
* a grip on both buttons that is interrupted, one button at a time, goes on
  counting: `chordStart` is cleared only when both are up (`OneButtonOrNone`;
  CONFIGURATION.md:47 and SAFETY_TEST_PLAN.md:61 speak of holding both);
* near the end of the clock, once in 49.7 days, the deadline of a drive command is
  lost: it is 0, or a pass steps over it, and the wheels turn until they are
  stopped (`DriveOver`, the exception of `WheelsEnd`);
* the two tasks may leave the display with another code than the one that is
  accepted, or without it, until the code expires or is replaced (`Show`,
  `ClearExpired`; WIFI_PROTOCOL.md:22, "the 8-digit pairing code displayed on the
  robot screen");
* after 256 messages within one second the message count of a client wraps and
  messages are accepted again (`Counted`); guesses do not profit
  (WIFI_PROTOCOL.md:78), as `GuessesBounded` shows;
* the examples of WIFI_PROTOCOL.md:41-55 for stop, action and mood lack `v`, and the
  latter two `id`: as they stand the parser refuses them (`ExamplesParse`);
  likewise `MOVE FORWARD 2000` of SAFETY_TEST_PLAN.md:24 is no serial command;
* `JOINT MOVE` reads garbage as 0 and cuts numbers to 16 bits (`JointMove`), so
  that 65536 ms means none.

## 5. The proofs

Every invariant and action property that a passing run checks is also a theorem,
proved by TLAPS for every value of the constants that the named assumptions
admit; so is the refinement of `SafetyLatch`. One more, `AutonomyYields`, is a step
property that is only proved: during an override autonomy neither moves nor stops
the wheels. Each proof module is checked with `tlapm <module>.tla`.

| Module | Theorems | Assumptions beyond those of the model |
|---|---|---|
| `SafetySupervisorProofs` | `TypeCorrect`, `IncidentsRecorded`, `ImplementsLatch`, `ManualDriveIsProtected` | `~HoldFitsInBoot` for the two in the middle; an override of at most half a turn of the clock for the last |
| `RobotControlProofs` | `RobotTypeCorrect`, `LatchedRobotIsStill`, `SupervisorAndDriveAgree`, `TurningWheelsAreSupervised`, `ForwardIsClear`, `AvoidanceForgets`, `IncidentsServiced`, `ManualDriveHasPrecedence`; of `Embodiment`: `IntentSuccessIsReal`, `IntentRefusalIsStill`, `DecisionsAreAccepted` | |
| `WifiControlProofs` | `WifiTypeCorrect`, `CommandsAreAuthorized`, `CommandsRunInOrder`, `OvertakenCommandsNeverRun`, `StopsWin`, `RemoteDrivesAreAttended`, `IntentsExecuteOnce` | finitely many intents for the last |
| `RangeGuardProofs` | `RangeTypeCorrect`, `ReadingsAreCurrent`, `ClearMustBeEarned`, `NearEchoesBlock`, `SteadyEchoesClear` | `EmergencyStopMm <= MaxValidMm + 1` for `NearEchoesBlock`, `Paced` for the last |
| `JointProofs` | `JointTypeCorrect`, `JointIsWhereItSays`, `MotionsEndInTime`, `MotionsNeverTurnBack` | |
| `LoopTaskProofs` | `LoopTypeCorrect`, `LinesAreReadAsSent`, `ChordsActOnce`, `WheelsStopByThemselves` | `BootShort` for `ChordsActOnce`, `SafeDriveTimeMs > 0` for the last |
| `AdmissionProofs` | `AdmissionTypeCorrect`, `GuessingIsBounded`, `DisplayIsTheCode` | |

`SafetyPolicyProofs` has lemmas only: the type of what every operator of
`SafetyPolicy` returns, so that the step proofs of its two users never expand one.

### The assumptions

`PolicyAssumption`, `SupervisorAssumption`, `RobotAssumption`, `WifiAssumption`,
`KindAssumption`, `RangeAssumption`, `EmbodimentAssumption`, `AdmissionAssumption`,
`ControlProtocolAssumption`, `RemoteAssumption`, `LoopAssumption` and
`JointAssumption` give the constants their types and order the times of
`Config.h` where the code relies on it: a duration and a pass fit into one
turn of the clock, a lockout into half of one, whose other half is what the sign of
a difference takes for the past. Four say more.

* `FrozenClockAssumption` (`RobotControl`): at the clock's one value an override is
  pending and a sample is fresh.
* `MaxLostAssumption` (`MCAdmission`): the observer of `GuessesBounded` has some
  limit of lost lockouts; the theorem holds for each.
* `EmbodimentAssumption`: a MOVE has a drive mode or is malformed; an ACTION and a
  SET_MOOD likewise, and an ACCESSORY has a place that is fitted or not. The types
  of `RobotIntent` (`IntentTypes.h`) leave no other.
* `LoopAssumption`: there is a longest pass. The task watchdog sees to it.

The others stand in the theorem that needs them.

* `2 * ManualOverrideMs <= ClockModulus`: `Reached` compares deadlines by the
  sign of a difference, which is right up to half a turn (600 ms of 2^32).
* `EmergencyStopMm <= MaxValidMm + 1`: every echo that should block is one that
  the sensor takes for valid. With the other order a near echo would be an
  invalid sample, and the third of them need not block.
* `Paced`: a reading does not grow old between two attempts, no time nears a turn
  of the clock, and the steady echoes that are counted take longer than the
  hysteresis.
* `BootShort`: the waits of the boot, and one pass for each of its phases, are
  shorter than the hold of the stop chord. This is the fact behind
  `~HoldFitsInBoot`, and `ChordsActOnce` shows in the model that measures it what
  the supervisor's model assumes.
* `SafeDriveTimeMs > 0`: a drive command has time to run. With 0 the deadline
  has passed when it is set.
* finitely many intents: `IntentOnce` compares their number with the ring.

### The arguments

None of the properties is inductive but the simplest type invariants. What each
proof adds, and why:

* **Supervisor.** `TypeInv` adds that a pending flash write is one of a latched
  state; without it `PutState` could put any state into flash. `SafeInv` adds
  `PendingWrite`, how far memory is ahead of the record at each pending flash
  access unless one has failed, and `BootState`, that before boot is complete
  memory is exactly what `begin()` could read of flash (`Read(lost)`): a restart
  between two writes leaves a state key without a name, or with the name of an
  earlier fault. The step proof rests on
  `Conserves`: every call but a granted arm request and the reset chord keeps
  an emergency stop, an incident and the absence of authority. The refinement
  follows from the same invariant, each action being one of the latch or a
  stutter. For manual precedence `OverrideInv` ties the history to the
  deadline: it lies as far ahead of the clock as the override has left, or that
  much minus a turn.
* **Robot.** The handlers are operators, so the proof follows the call tree: for
  each operator on the wheels and each call of the supervisor an `...Effect`
  lemma says what it leaves behind, for each handler a `...Keeps` lemma says
  that it takes a robot in order to one. In order (`RobotOK`) means the four
  properties, that the supervisor and the router agree about the boot, and
  `Forgotten`: an avoidance that waits has no remembered command, or an
  override is pending, or a disarm is. `NothingToResume` needs it because a
  remote move during the wait does remember a command. `LoopOK` adds where in
  the pass a disarm may still be due.
* **Intents.** `RobotInv` is an invariant of `Embodiment` too: an intent is one
  more way to call the handlers. That SUCCEEDED is the truth then follows from
  what each handler does when it answers yes, or from what the supervisor does not
  allow where it answers yes to everything; and that a refusal starts no drive, no
  arming and no action from `NothingStarted`, a relation that adds up along a
  handler: `updateSafety`, a refused move and a refused arm each satisfy it. The
  capabilities play no part, which is why the theorems hold for observations of
  any age.
* **Wi-Fi.** A command is known by its label (session, id, intent), and at any
  moment it is carried by the loop task, waits in the queue, or is offered by the
  callback task. `OrderInv` says that ids grow along that path (`Ahead`) from what
  ran to what was accepted last, and `Issued` that no label is newer than its
  session: replays and reordering are excluded at once. `SessionInv` is the mutex
  argument: while the loop task is between lock and execute no session ends, so
  what it read under the mutex still holds. `OvertakenInv` gives every command an
  epoch no later than the router's, earlier than the last intervention if that
  overtook it (`Aged`). For `StopWins`: a command a stop overtook is never behind
  the loop task, and if it is there or drives, the stop is still to come.
  `Attended` names the ways in which somebody will stop a remote drive, and
  `RunningInv` that no update is under way while Wi-Fi is off: a drive it leaves
  behind is `Abandoned`, and no other. `IntentInv` says that the ring holds the
  intent of every command of the session, each once; that it does not overflow is
  a pigeonhole argument over finite sets.
* **Range.** `ClearInv`: a wait for CLEAR is younger than the openness it waits
  for, or the clock's zero has cancelled it. `NearInv` and `SteadyInv` say what n
  equal echoes leave in the three samples, whatever the spike test refused;
  `WaitInv` turns samples into time: from the fifth on, the wait is as old as
  the attempts since.
* **Joint.** A motion has not moved yet (`NotMoved`) or is exactly where the curve
  was at its last update (`Moved`). The last update of a motion that has not
  been updated may seem to be in the future when it lies a whole period back: one
  pass is lost to that, which is where the extra pass of `InTime` comes from.
  `NeverTurnsBack` follows from the curve's rising, lemma by lemma through the
  integer divisions: the new position lies between the old one and the target
  (`Between`), and mirroring and limiting keep it there (`SentKeepsBetween`).
* **Loop.** `SerialInv` adds to `LineAsSent` that the buffer never exceeds its
  size and never more was received than was sent; then each word, appended or
  dropped with the whole buffer, leaves a stretch of the line that ends at that
  word. `BootInv` adds up the phases: a grip that began in the boot is no older
  than the boot. `ChordInv` relates the age the code computes to the true one,
  with the exception of a grip that begins when the clock reads 0. `DriveInv`: a
  drive counts down to its deadline, or the pass that stops it has begun;
  `TestInv` the same for tests.
* **Admission.** The connected clients are a finite set below the limit: their
  number cannot be counted in an infinite set of clients otherwise. `GuessInv` is
  a disjunction of three histories: all guesses seen lie in the present window; or
  in it and the one before; or the lockout will outlast the observation. Each lost
  lockout lets in a window more (`LetIn`). `DisplayInv`: a task that writes has
  the code in its hand, unless the other has changed it since.

### Only model-checked

* `StopServed` and `ControllerLossStops`: liveness under fairness is beyond the
  prover.
* The violations of section 4, which are counterexamples.
* `DialectsAgree` and `ExamplesParse`, which TLC evaluates over the words and frames
  of the runs. (`EasingRises` is one more; the lemmas of `JointProofs` prove it.)

## 6. Not modelled

* Capabilities that no intent and no rule looks at (autonomy, Wi-Fi, local
  protocol, IMU); reasoning providers other than the rules.
* Lifetimes of objects (`WIFI OFF` deletes the socket) and torn reads of
  unlocked fields.
* Display, persona, expressions, sound, status pages, telemetry, the event log:
  no path to an actuator. The pairing code on the display is the exception, since
  somebody acts on it.
* The poses and timings of the actions: tables of angles and waits, in the order
  `RobotControl` abstracts to "has it driven, has it ended".
* JSON decoding and the texts of replies; the tables of build profiles.
* `setup()` beyond what it leaves behind, the access point, HTTP pages.

## 7. Plan

What exists, in the order it was built: `SafetyPolicy`, `SafetyLatch`,
`SafetySupervisor` and its proofs (the core); `WifiControl` (the two tasks);
`RobotControl` (the loop task over the policy); `RangeGuard`; `Embodiment`;
`Joint`; `ControlProtocol` and `LoopTask`; `WebControlProtocol` and `Admission`.

Proved, in this order: the supervisor; the robot and its intents; the remote path;
the range sensor; the joint; the loop; admission.

What is worth doing next:

1. An abstract specification of the remote path (commands accepted in order, each
   executed at most once or overtaken) that `WifiControl` implements; its proof
   can use `OrderInv` and `OvertakenInv` as they stand.
2. `SafetyLatch` implemented by `RobotControl` as well: the supervisor inside the
   loop, without the flash.
3. The joints of `RobotControl` as `Joint`s; the range reading of `RobotControl` as
   the verdict of `RangeGuard`.
4. The event log as a ring that implements a bounded sequence; whose command an
   ARM is that clears a fault found meanwhile.

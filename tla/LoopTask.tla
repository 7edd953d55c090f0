------------------------------ MODULE LoopTask ------------------------------
(***************************************************************************)
(* What the loop task measures with millis(): the grip on both buttons     *)
(* (handleButtons), the phases of the boot (BootDiagnostics), the deadline *)
(* of a drive command (ServoDrive, and RollerDrive alike) and the time-out *)
(* of the bench diagnostics; and how it reads commands from the serial     *)
(* line (handleSerial).  RobotControl has the same calls without the time. *)
(*                                                                         *)
(* A pass reads the clock once, when it starts.  at is the call of loop()  *)
(* that comes next.  The robot is reduced to the supervisor's state and    *)
(* the wheels; which command is granted is decided elsewhere.              *)
(***************************************************************************)
EXTENDS ControlProtocol

CONSTANTS
  ClockModulus,                \* millis() is a uint32_t: 2^32 on the device
  PassMs,                      \* how long a pass may take
  StopHoldMs, ResetHoldMs,     \* PHYSICAL_ESTOP_HOLD_MS, .._RESET_HOLD_MS
  PairingHoldMs,               \* 350
  DisplayMs, PhaseMs,          \* waits of the boot: 200, 100
  BootTimeoutMs,               \* BOOT_TIMEOUT_MS
  TestTimeoutMs,               \* 30000
  Lines,                       \* the lines that are sent: words and bars
  SerialMax,                   \* SERIAL_COMMAND_MAX_LENGTH, in words
  RemoteCommands               \* what Wi-Fi and autonomy send

MaxPassMs == CHOOSE d \in PassMs : \A e \in PassMs : e <= d

ASSUME LoopAssumption ==
  /\ PassMs \subseteq Nat
  /\ \E longest \in PassMs : \A ms \in PassMs : ms <= longest
  /\ {StopHoldMs, ResetHoldMs, PairingHoldMs, DisplayMs, PhaseMs,
      BootTimeoutMs, TestTimeoutMs, SerialMax} \subseteq Nat
  /\ PairingHoldMs <= StopHoldMs /\ StopHoldMs <= ResetHoldMs
  /\ ClockModulus \in Nat
  /\ ResetHoldMs + MaxPassMs < ClockModulus
  /\ TestTimeoutMs + MaxPassMs < ClockModulus
  /\ SafeDriveTimeMs + MaxPassMs < ClockModulus
  /\ \A line \in Lines : line.words \in Seq(STRING)

\* No message of Wi-Fi and no decision of the autonomy is a wheel test.
ASSUME RemoteAssumption ==
  \A command \in RemoteCommands : command.kind # "SERVO_TEST"

VARIABLES
  now,        \* millis() of this pass
  at,
  chord,      \* the static variables of handleButtons
  boot,       \* BootDiagnostics
  state,      \* SafetySupervisor::_state
  wheels,     \* what turns them: a drive command, a wheel test
  drive,      \* _mode and _stopAtMs of the drive; it is armed when state is
  bench,      \* ServoDiagnostics
  serial      \* serialBuffer, and the line that is being received

robotVars == <<state, wheels, drive, bench>>
vars == <<now, at, chord, boot, robotVars, serial>>

Clock == 0 .. ClockModulus - 1
Elapsed(later, earlier) == (later - earlier) % ClockModulus

Call == {"buttons", "boot", "robot", "wifi", "serial"}

BootPhase == {"DISPLAY_OK", "I2C_SCAN", "SERVO8_CHECK", "SONIC_CHECK",
              "DRIVE_SAFE_STOP", "MANIPULATOR_CHECK", "COMPLETE", "DEGRADED"}

SafetyState == {"BOOT", "DISARMED", "ARMED", "FAULT", "ESTOP"}

\* Between two lines.
NoLine == [words |-> <<>>, bars |-> FALSE]
NothingRead == [buffer |-> <<>>, line |-> NoLine, received |-> 0]

Words == UNION {{line.words[i] : i \in DOMAIN line.words} : line \in Lines}

TypeOK ==
  /\ now \in Clock /\ at \in Call
  /\ chord \in [start: Clock, pairing: BOOLEAN, acted: BOOLEAN]
  /\ boot \in [phase: BootPhase, startedMs: Clock, phaseMs: Clock]
  /\ state \in SafetyState
  /\ wheels \subseteq {"drive", "test"}
  /\ drive \in [moving: BOOLEAN, stopAtMs: Clock]
  /\ bench \in [unlocked: BOOLEAN, unlockedMs: Clock, testing: BOOLEAN]
  /\ serial.buffer \in Seq(Words) /\ Len(serial.buffer) <= SerialMax
  /\ serial.line \in Lines \cup {NoLine}
  /\ serial.received \in 0 .. Len(serial.line.words)

Released == [start |-> 0, pairing |-> FALSE, acted |-> FALSE]
Stopped == [moving |-> FALSE, stopAtMs |-> 0]
Locked == [unlocked |-> FALSE, unlockedMs |-> 0, testing |-> FALSE]

\* setup() ends with bootDiag.begin(); the clock runs since power-up, or
\* since a restart of the counter.
Init ==
  /\ now \in Clock /\ at = "buttons"
  /\ chord = Released
  /\ boot = [phase |-> "DISPLAY_OK", startedMs |-> now, phaseMs |-> now]
  /\ state = "BOOT" /\ wheels = {} /\ drive = Stopped /\ bench = Locked
  /\ serial = NothingRead

-----------------------------------------------------------------------------
(* The robot. *)

\* emergencyStop() of the drive.
StopDrive == wheels' = {} /\ drive' = Stopped

\* An incident: everything is stopped, disarmed and locked.
Halt(s) == state' = s /\ StopDrive /\ bench' = Locked

MayTest == state \notin {"BOOT", "FAULT", "ESTOP"}

\* drive() of the drive; a command without a duration gets the longest.
Drive(durationMs) ==
  LET bounded == IF durationMs \in 1 .. SafeDriveTimeMs THEN durationMs
                 ELSE SafeDriveTimeMs
  IN /\ wheels' = wheels \cup {"drive"}
     /\ drive' = [moving |-> TRUE, stopAtMs |-> (now + bounded) % ClockModulus]
     /\ UNCHANGED <<state, bench>>

\* The servos are stopped to arm them, the rollers are not.
Arm ==
  /\ state \notin {"BOOT", "ESTOP"}
  /\ \/ state' = "ARMED" /\ wheels' \in {{}, wheels} /\ UNCHANGED <<drive, bench>>
     \/ Halt("FAULT")

Disarm ==
  /\ state' = IF state = "ARMED" THEN "DISARMED" ELSE state
  /\ StopDrive /\ UNCHANGED bench

Stop == StopDrive /\ UNCHANGED <<state, bench>>

\* A refusal stops the wheels, and may be the discovery of a fault.
Move(durationMs) ==
  /\ state = "ARMED"
  /\ Drive(durationMs) \/ Stop \/ Halt("FAULT")

\* Mutant: unlocking disarms no drive and stops no wheel.
UnlockTurning ==
  /\ MayTest
  /\ bench' = [bench EXCEPT !.unlocked = TRUE, !.unlockedMs = now]
  /\ UNCHANGED <<state, wheels, drive>>

\* unlock() follows a disarm.
Unlock ==
  /\ MayTest
  /\ state' = "DISARMED" /\ StopDrive
  /\ bench' = [bench EXCEPT !.unlocked = TRUE, !.unlockedMs = now]

Lock ==
  /\ MayTest
  /\ wheels' = IF bench.testing THEN wheels \ {"test"} ELSE wheels
  /\ bench' = Locked
  /\ UNCHANGED <<state, drive>>

\* testWheel(): the deadline is renewed even when the pulse is refused.
TestWheel ==
  /\ MayTest /\ bench.unlocked
  /\ \/ /\ wheels' = wheels \cup {"test"}
        /\ bench' = [bench EXCEPT !.unlockedMs = now, !.testing = TRUE]
     \/ /\ wheels' \in {wheels, wheels \ {"test"}}
        /\ bench' = [bench EXCEPT !.unlockedMs = now,
                                  !.testing = @ /\ "test" \in wheels']
  /\ UNCHANGED <<state, drive>>

\* execute(); a command that is refused outright changes nothing, and some of
\* the others (a mood, an action) stop the wheels.
Execute(command) ==
  \/ command.kind = "ARM" /\ Arm
  \/ command.kind = "DISARM" /\ Disarm
  \/ command.kind = "STOP" /\ Stop
  \/ command.kind = "MOVE" /\ Move(command.durationMs)
  \/ command.kind = "SERVO_TEST" /\ command.arg1 = -1 /\ Unlock
  \/ command.kind = "SERVO_TEST" /\ command.arg1 = -2 /\ Lock
  \/ command.kind = "SERVO_TEST" /\ command.arg1 > 0 /\ TestWheel
  \/ command.kind \in {"ACTION", "SET_MOOD"} /\ Stop
  \/ command.kind = "CTRL_WIFI_OFF" /\ state # "ESTOP" /\ Halt("FAULT")
  \/ command.kind # "STOP" /\ UNCHANGED robotVars

-----------------------------------------------------------------------------
(* handleButtons() *)

\* The grip: it begins when both buttons are seen down and the last one ended;
\* 0 stands for no grip, even if the clock reads 0.
Grip == IF chord.start = 0 THEN [Released EXCEPT !.start = now'] ELSE chord

HeldFor(ms) == Elapsed(now', Grip.start) >= ms

StopDue == state # "ESTOP" /\ ~Grip.acted /\ HeldFor(StopHoldMs)
ResetDue == state = "ESTOP" /\ ~Grip.acted /\ HeldFor(ResetHoldMs)

\* The reset is refused while the drive is not available.
BothButtons ==
  \/ /\ StopDue
     /\ chord' = [Grip EXCEPT !.acted = TRUE]
     /\ Halt("ESTOP")
  \/ /\ ResetDue
     /\ chord' = [Grip EXCEPT !.acted = TRUE]
     /\ \/ state' = "DISARMED" /\ StopDrive /\ UNCHANGED bench
        \/ UNCHANGED robotVars
  \/ /\ ~StopDue /\ ~ResetDue
     /\ \/ chord' = Grip
        \/ /\ state # "ESTOP" /\ ~Grip.pairing /\ HeldFor(PairingHoldMs)
           /\ chord' = [Grip EXCEPT !.pairing = TRUE]
     /\ UNCHANGED robotVars

\* Mutant: chordStart is not cleared.
OneButtonOrNoneKeeping(down) ==
  /\ chord' = IF down = {} THEN [Released EXCEPT !.start = chord.start] ELSE chord
  /\ UNCHANGED robotVars

\* The grip is over when neither is down.  A click, unless the grip did
\* something, changes the mood, and the mood ALERT stops the robot.
OneButtonOrNone(down) ==
  /\ chord' = IF down = {} THEN Released ELSE chord
  /\ \/ UNCHANGED robotVars
     \/ ~chord.pairing /\ ~chord.acted /\ Stop

HandleButtons(ms, down) ==
  /\ at = "buttons"
  /\ now' = (now + ms) % ClockModulus
  /\ IF down = {"A", "B"} THEN BothButtons ELSE OneButtonOrNone(down)
  /\ at' = IF boot.phase \in {"COMPLETE", "DEGRADED"} THEN "robot" ELSE "boot"
  /\ UNCHANGED <<boot, serial>>

-----------------------------------------------------------------------------
(* BootDiagnostics::update() *)

BootTimedOut == Elapsed(now, boot.startedMs) > BootTimeoutMs

After(phase, ms, next) ==
  /\ boot.phase = phase
  /\ Elapsed(now, boot.phaseMs) > ms
  /\ boot' = [boot EXCEPT !.phase = next, !.phaseMs = now]

Waiting ==
  \/ boot.phase = "DISPLAY_OK" /\ Elapsed(now, boot.phaseMs) <= DisplayMs
  \/ /\ boot.phase \notin {"DISPLAY_OK", "I2C_SCAN"}
     /\ Elapsed(now, boot.phaseMs) <= PhaseMs

BootGoesOn ==
  /\ at = "boot" /\ ~BootTimedOut
  /\ \/ Waiting /\ UNCHANGED boot
     \/ After("DISPLAY_OK", DisplayMs, "I2C_SCAN")
     \/ /\ boot.phase = "I2C_SCAN"
        /\ boot' = [boot EXCEPT !.phase = "SERVO8_CHECK", !.phaseMs = now]
     \/ After("SERVO8_CHECK", PhaseMs, "SONIC_CHECK")
     \/ After("SONIC_CHECK", PhaseMs, "DRIVE_SAFE_STOP")
     \/ After("DRIVE_SAFE_STOP", PhaseMs, "MANIPULATOR_CHECK")
  /\ IF boot.phase = "DRIVE_SAFE_STOP" /\ boot' # boot
     THEN Stop ELSE UNCHANGED robotVars
  /\ at' = "buttons"
  /\ UNCHANGED <<now, chord, serial>>

\* The boot is over, one way or the other, and completeBoot() restores the
\* incident that flash remembers.  No time of the boot is read again.
BootEnds ==
  /\ at = "boot"
  /\ \/ BootTimedOut
     \/ boot.phase = "MANIPULATOR_CHECK" /\ Elapsed(now, boot.phaseMs) > PhaseMs
  /\ boot' = [phase |-> IF BootTimedOut THEN "DEGRADED" ELSE "COMPLETE",
              startedMs |-> 0, phaseMs |-> 0]
  /\ state' \in {"DISARMED", "FAULT", "ESTOP"}
  /\ at' = "robot"
  /\ UNCHANGED <<now, chord, wheels, drive, bench, serial>>

-----------------------------------------------------------------------------
(* The rest of the pass. *)

\* The deadline is compared as a plain number, and 0 stands for none.
DriveOver == drive.stopAtMs > 0 /\ now >= drive.stopAtMs

BenchOver == bench.unlocked /\ Elapsed(now, bench.unlockedMs) > TestTimeoutMs

\* RobotAPI::update() and updateSafety(), which may find a fault.
RobotUpdate ==
  /\ at = "robot" /\ at' = "wifi"
  /\ \/ /\ wheels' = IF DriveOver THEN {}
                     ELSE IF BenchOver /\ bench.testing THEN wheels \ {"test"}
                     ELSE wheels
        /\ drive' = IF DriveOver THEN Stopped ELSE drive
        /\ bench' = IF BenchOver THEN Locked ELSE bench
        /\ UNCHANGED state
     \/ state \in {"DISARMED", "ARMED"} /\ Halt("FAULT")
  /\ UNCHANGED <<now, chord, boot, serial>>

\* handleAutonomy() and wifiControl.update(): any number of commands, and the
\* stops of Wi-Fi itself.
RemoteCommand ==
  /\ at = "wifi"
  /\ \/ \E command \in RemoteCommands : Execute(command)
     \/ state # "ESTOP" /\ Halt("FAULT")
  /\ UNCHANGED <<now, at, chord, boot, serial>>

RemoteDone ==
  /\ at = "wifi" /\ at' = "serial"
  /\ UNCHANGED <<now, chord, boot, robotVars, serial>>

\* Mutant: one word too many.
ReceiveWordBeyond(line) ==
  /\ at = "serial"
  /\ serial.line \in {line, NoLine}
  /\ serial.received < Len(line.words)
  /\ LET word == line.words[serial.received + 1]
         buffer == serial.buffer
     IN serial' =
          [buffer |-> IF Len(buffer) <= SerialMax THEN Append(buffer, word)
                      ELSE <<>>,
           line |-> line, received |-> serial.received + 1]
  /\ UNCHANGED <<now, at, chord, boot, robotVars>>

\* handleSerial(): a word that does not fit empties the buffer and is lost.
ReceiveWord(line) ==
  /\ at = "serial"
  /\ serial.line \in {line, NoLine}
  /\ serial.received < Len(line.words)
  /\ LET word == line.words[serial.received + 1]
         buffer == serial.buffer
     IN serial' =
          [buffer |-> IF Len(buffer) < SerialMax THEN Append(buffer, word)
                      ELSE <<>>,
           line |-> line, received |-> serial.received + 1]
  /\ UNCHANGED <<now, at, chord, boot, robotVars>>

LineRead == serial.line # NoLine /\ serial.received = Len(serial.line.words)

\* What the buffer says; a single word has no bar left.
Read == ParseLine(serial.buffer, serial.line.bars /\ Len(serial.buffer) > 1)

\* Mutant: a line that is refused stays in the buffer.
ReceiveEndKeeping ==
  /\ at = "serial"
  /\ LineRead
  /\ \/ \E command \in Read : Execute(command) /\ serial' = NothingRead
     \/ /\ Read = {} /\ UNCHANGED robotVars
        /\ serial' = [NothingRead EXCEPT !.buffer = serial.buffer]
  /\ UNCHANGED <<now, at, chord, boot>>

\* The end of a line.
ReceiveEnd ==
  /\ at = "serial"
  /\ LineRead
  /\ \/ \E command \in Read : Execute(command)
     \/ Read = {} /\ UNCHANGED robotVars
  /\ serial' = NothingRead
  /\ UNCHANGED <<now, at, chord, boot>>

\* Nothing more has arrived.
SerialDone ==
  /\ at = "serial" /\ at' = "buttons"
  /\ UNCHANGED <<now, chord, boot, robotVars, serial>>

LoopOther ==
  \/ BootGoesOn \/ BootEnds
  \/ RobotUpdate \/ RemoteCommand \/ RemoteDone
  \/ \E line \in Lines : ReceiveWord(line)
  \/ ReceiveEnd \/ SerialDone

Next ==
  \/ \E ms \in PassMs, down \in SUBSET {"A", "B"} : HandleButtons(ms, down)
  \/ LoopOther

Spec == Init /\ [][Next]_vars

-----------------------------------------------------------------------------
(* Correctness. *)

\* Whatever arrived before it, a line is read as it was sent: the buffer holds
\* nothing of another line, and all of this one unless it is too long, of
\* which a tail may remain (handleSerial).
LineAsSent ==
  LET words == serial.line.words
      kept == Len(serial.buffer)
  IN /\ kept <= serial.received
     /\ serial.buffer = SubSeq(words, serial.received - kept + 1, serial.received)
     /\ serial.received <= SerialMax => kept = serial.received

=============================================================================

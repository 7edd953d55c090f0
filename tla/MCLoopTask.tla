----------------------------- MODULE MCLoopTask -----------------------------
(***************************************************************************)
(* LoopTask for TLC: a vocabulary, the lines that are sent, and how long   *)
(* the operator has held the buttons and the wheels have been turning.     *)
(***************************************************************************)
EXTENDS LoopTask

MCDigits == {"1", "1500", "3", "65536"}

MCAtoi ==
  [word \in MCDigits \cup {"3x"} |->
     CASE word = "1" -> 1 [] word = "1500" -> 1500 [] word = "65536" -> 65536
       [] OTHER -> 3]

Legacy(words) == [words |-> words, bars |-> FALSE]
Pipe(words) == [words |-> words, bars |-> TRUE]

\* One is refused, and one is longer than the buffer.
DriveLines ==
  {Legacy(<<"ARM">>), Legacy(<<"MOVE", "FWD">>), Legacy(<<"MOVE", "FORWARD">>),
   Pipe(<<"CMD", "MOVE", "REV", "3", "3", "STOP">>)}

BenchLines ==
  {Legacy(<<"SERVO", "TEST", "UNLOCK">>),
   Legacy(<<"SERVO", "TEST", "1", "1500">>)}

MCLines == DriveLines \cup BenchLines

MCRemoteCommands == {Moving("REV", 3)}

-----------------------------------------------------------------------------
(* History. *)

VARIABLES
  script,   \* bound: a behaviour has lines that drive, or lines that test
  grip,     \* since both buttons were seen down, until both are seen up
  driveMs,  \* since the last drive command
  testMs    \* since the last wheel test was asked for

mcVars == <<vars, script, grip, driveMs, testMs>>

NoGrip == [on |-> FALSE, steady |-> FALSE, inEstop |-> FALSE, ms |-> 0,
           act |-> "none"]

Later(age, ms, cap) == IF age + ms > cap THEN cap ELSE age + ms

GripCap == ResetHoldMs + MaxPassMs

GripHeld(ms, both) ==
  [grip EXCEPT !.ms = Later(@, ms, GripCap), !.steady = @ /\ both]

GripBegun == [NoGrip EXCEPT !.on = TRUE, !.steady = TRUE,
                            !.inEstop = state = "ESTOP"]

\* What the chord did is seen in the supervisor's state.
Act(g) ==
  CASE g.act # "none" -> "twice"
    [] state # "ESTOP" -> IF g.ms >= StopHoldMs THEN "stop" ELSE "early"
    [] state = "ESTOP" -> IF g.ms >= ResetHoldMs THEN "reset" ELSE "early"

Acted(g) ==
  IF (state = "ESTOP") = (state' = "ESTOP") THEN g
  ELSE [g EXCEPT !.act = Act(g)]

MCInit ==
  /\ Init /\ script \in {DriveLines, BenchLines}
  /\ grip = NoGrip /\ driveMs = 0 /\ testMs = 0

Looked(ms, down) ==
  LET both == down = {"A", "B"}
  IN /\ grip' = IF down = {} THEN NoGrip
                ELSE IF grip.on THEN Acted(GripHeld(ms, both))
                ELSE IF both THEN Acted(GripBegun) ELSE grip
     /\ driveMs' = IF "drive" \in wheels'
                   THEN Later(driveMs, ms, SafeDriveTimeMs + MaxPassMs) ELSE 0
     /\ testMs' = IF "test" \in wheels'
                  THEN Later(testMs, ms, TestTimeoutMs + MaxPassMs + 1) ELSE 0

DriveAsked == drive'.moving /\ (~drive.moving \/ drive'.stopAtMs # drive.stopAtMs)

TestAsked ==
  /\ LineRead /\ serial'.received = 0
  /\ \E command \in Read : command.kind = "SERVO_TEST" /\ command.arg1 > 0

MCNext ==
  /\ UNCHANGED script
  /\ \/ \E ms \in PassMs, down \in SUBSET {"A", "B"} :
          HandleButtons(ms, down) /\ Looked(ms, down)
     \/ /\ LoopOther
        /\ driveMs' = IF DriveAsked \/ "drive" \notin wheels' THEN 0 ELSE driveMs
        /\ testMs' = IF TestAsked \/ "test" \notin wheels' THEN 0 ELSE testMs
        /\ UNCHANGED grip
  /\ serial'.line \in script \cup {NoLine}

MCSpec == MCInit /\ [][MCNext]_mcVars

-----------------------------------------------------------------------------

\* The two dialects agree on the words that both accept, and no line stands for
\* two commands (ControlProtocol.cpp).
Vocabulary == {"ARM", "MOVE", "FWD", "ACC", "ON", "1", "WIFI", "STATUS", "IMU",
               "AUTONOMY", "SERVO", "TEST", "UNLOCK", "JOINT", "REST", "3x"}

DialectsAgree ==
  \A words \in {<<u>> : u \in Vocabulary} \cup (Vocabulary \X Vocabulary)
               \cup (Vocabulary \X Vocabulary \X Vocabulary) :
    LET pipe == ParseLine(<<"CMD">> \o words, TRUE)
        legacy == ParseLine(words, FALSE)
    IN /\ Cardinality(pipe) <= 1 /\ Cardinality(legacy) <= 1
       /\ pipe # {} /\ legacy # {} => pipe = legacy

ASSUME DialectsAgree

-----------------------------------------------------------------------------
(* Correctness. *)

\* A grip on both buttons does one thing at most, and not before it is as old
\* as that takes; two buttons that stay down stop the robot in time; and no
\* boot is long enough for either, which would lose the incident
\* (handleButtons, loop(), BootDiagnostics::update).
ChordActs ==
  /\ grip.act \in {"none", "stop", "reset"}
  /\ at # "buttons" /\ grip.steady /\ ~grip.inEstop
     /\ grip.ms >= StopHoldMs + MaxPassMs
     => state = "ESTOP" \/ grip.act = "reset"
  /\ boot.phase \notin {"COMPLETE", "DEGRADED"} => state = "BOOT"

\* The deadline lies where a plain comparison cannot see it pass: it is 0, or
\* so close to the end of the clock that a pass may step over it.
DeadlineLost ==
  drive.stopAtMs = 0 \/ drive.stopAtMs > ClockModulus - MaxPassMs

\* Nobody need stop the wheels: a drive command ends by itself after
\* SAFE_DRIVE_TIME_MS and a pass, unless its deadline is lost at the end of the
\* clock, and a wheel test ends 30 s and a pass after the last one was asked for
\* (ServoDrive::update, ServoDiagnostics::update).
WheelsEnd ==
  /\ "drive" \in wheels =>
       driveMs < SafeDriveTimeMs + MaxPassMs \/ DeadlineLost
  /\ "test" \in wheels => testMs <= TestTimeoutMs + MaxPassMs

=============================================================================

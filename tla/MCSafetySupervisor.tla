------------------------- MODULE MCSafetySupervisor -------------------------
(***************************************************************************)
(* SafetySupervisor for TLC, with a history variable that remembers what  *)
(* the supervisor itself forgets.                                          *)
(***************************************************************************)
EXTENDS SafetySupervisor

CONSTANTS SampleTimes, Samples   \* bounds on the IMU readings enumerated

VARIABLE sinceManual   \* ms since a manual drive request was granted, capped

mcVars == <<sup, booted, nvs, nvsOp, lost, now, sinceManual>>

Hardware(ok) ==
  [NoInputs EXCEPT !.hardwareReady = ok, !.driveAvailable = ok]

\* Both hardware flags are the same expression in buildSafetyInputs, and a
\* range without a valid sample blocks forward motion.  Without one the IMU is
\* not looked at, so one verdict of it is enough there.
MCReadings ==
  {Hardware(FALSE)} \cup
  UNION {{[Hardware(TRUE) EXCEPT !.rangeValid = range # "lost",
                                 !.forwardMotionBlocked = range # "clear",
                                 !.driveForward = forward,
                                 !.imu = sample, !.imuSampleTimeMs = time] :
            range \in IF sample = "good" THEN {"blocked", "clear"}
                      ELSE {"lost", "blocked", "clear"},
            forward \in BOOLEAN, time \in SampleTimes} : sample \in Samples}

ManualDriveGranted ==
  /\ sup.state = "ARMED" /\ sup'.state = "ARMED"
  /\ sup'.manualOverrideUntilMs # sup.manualOverrideUntilMs

SinceManualNext ==
  sinceManual' =
    IF ManualDriveGranted THEN 0
    ELSE IF sup'.state # "ARMED" THEN ManualOverrideMs
    ELSE IF now' # now /\ sinceManual < ManualOverrideMs THEN sinceManual + 1
    ELSE sinceManual

MCInit == Init /\ sinceManual = ManualOverrideMs

MCNext == Next /\ SinceManualNext

MCSpec == MCInit /\ [][MCNext]_mcVars

-----------------------------------------------------------------------------

\* While the robot stays armed, a granted manual drive keeps autonomy out for
\* the whole override time, also across the wrap of millis() (requestDrive,
\* autonomyMotionAllowed; docs/CONFIGURATION.md:49).
ManualPrecedence ==
  AutonomyMotionAllowed(sup, now) => sinceManual >= ManualOverrideMs

=============================================================================

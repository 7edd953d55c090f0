--------------------------- MODULE LoopTaskProofs ---------------------------
(***************************************************************************)
(* TLAPS proofs about LoopTask and its history in MCLoopTask, for every    *)
(* clock width, all lengths of the passes, every line and buffer, and      *)
(* every choice of the times of Config.h.                                  *)
(***************************************************************************)
EXTENDS MCLoopTask, SequenceTheorems, TLAPS

-----------------------------------------------------------------------------
(* The clock. *)

LEMMA LongestPass ==
  /\ MaxPassMs \in PassMs /\ MaxPassMs \in Nat
  /\ \A ms \in PassMs : ms \in Nat /\ ms <= MaxPassMs
<1>1. \E longest \in PassMs : \A ms \in PassMs : ms <= longest
  BY LoopAssumption
<1>2. MaxPassMs \in PassMs /\ \A ms \in PassMs : ms <= MaxPassMs
  BY <1>1 DEF MaxPassMs
<1>3. QED
  BY <1>2, LoopAssumption

\* The times that the proofs compare.
LEMMA Times ==
  /\ ClockModulus \in Nat /\ ClockModulus > 0 /\ MaxPassMs \in Nat
  /\ StopHoldMs \in Nat /\ ResetHoldMs \in Nat /\ DisplayMs \in Nat
  /\ PhaseMs \in Nat /\ BootTimeoutMs \in Nat /\ TestTimeoutMs \in Nat
  /\ SerialMax \in Nat /\ SafeDriveTimeMs \in Nat
  /\ StopHoldMs <= ResetHoldMs
  /\ ResetHoldMs + MaxPassMs < ClockModulus
  /\ TestTimeoutMs + MaxPassMs < ClockModulus
  /\ SafeDriveTimeMs + MaxPassMs < ClockModulus
<1>1. MaxPassMs \in Nat
  BY LongestPass
<1>2. /\ ClockModulus \in Nat
      /\ StopHoldMs \in Nat /\ ResetHoldMs \in Nat /\ DisplayMs \in Nat
      /\ PhaseMs \in Nat /\ BootTimeoutMs \in Nat /\ TestTimeoutMs \in Nat
      /\ SerialMax \in Nat /\ SafeDriveTimeMs \in Nat
      /\ StopHoldMs <= ResetHoldMs
      /\ ResetHoldMs + MaxPassMs < ClockModulus
      /\ TestTimeoutMs + MaxPassMs < ClockModulus
      /\ SafeDriveTimeMs + MaxPassMs < ClockModulus
  <2>1. PairingHoldMs \in Nat /\ StopHoldMs \in Nat /\ ResetHoldMs \in Nat
    BY LoopAssumption
  <2>2. StopHoldMs <= ResetHoldMs
    BY LoopAssumption
  <2>3. QED
    BY <2>1, <2>2, LoopAssumption, ControlProtocolAssumption
<1>3. ClockModulus > 0
  BY <1>1, <1>2
<1>4. QED
  BY <1>1, <1>2, <1>3

LEMMA ElapsedWraps ==
  ASSUME NEW t \in Clock, NEW u \in Clock
  PROVE  Elapsed(t, u) = IF u <= t THEN t - u ELSE t - u + ClockModulus
<1>1. CASE u <= t
  BY <1>1, Times DEF Elapsed, Clock
<1>2. CASE ~(u <= t)
  BY <1>2, Times DEF Elapsed, Clock
<1>3. QED
  BY <1>1, <1>2

LEMMA ElapsedType ==
  ASSUME NEW t \in Clock, NEW u \in Clock
  PROVE  Elapsed(t, u) \in Clock /\ Elapsed(t, u) \in Nat
<1>1. Elapsed(t, u) = IF u <= t THEN t - u ELSE t - u + ClockModulus
  BY ElapsedWraps
<1>2. QED
  BY <1>1, Times DEF Clock

LEMMA ElapsedFromSelf ==
  ASSUME NEW t \in Clock
  PROVE  Elapsed(t, t) = 0
<1>1. Elapsed(t, t) = t - t
  BY ElapsedWraps, Times DEF Clock
<1>2. QED
  BY <1>1, Times DEF Clock

LEMMA SumWraps ==
  ASSUME NEW t \in Clock, NEW ms \in Nat, ms < ClockModulus
  PROVE  /\ (t + ms) % ClockModulus \in Clock
         /\ (t + ms) % ClockModulus
              = IF t + ms < ClockModulus THEN t + ms ELSE t + ms - ClockModulus
<1>1. CASE t + ms < ClockModulus
  BY <1>1, Times DEF Clock
<1>2. CASE ~(t + ms < ClockModulus)
  BY <1>2, Times DEF Clock
<1>3. QED
  BY <1>1, <1>2

\* A pass adds its length to every elapsed time, up to the modulus.
LEMMA PassElapses ==
  ASSUME NEW t \in Clock, NEW u \in Clock, NEW ms \in Nat, ms < ClockModulus
  PROVE  Elapsed((t + ms) % ClockModulus, u) =
           IF Elapsed(t, u) + ms < ClockModulus THEN Elapsed(t, u) + ms
           ELSE Elapsed(t, u) + ms - ClockModulus
<1> DEFINE s == (t + ms) % ClockModulus
<1>0. /\ ClockModulus \in Nat
      /\ t \in 0 .. ClockModulus - 1 /\ u \in 0 .. ClockModulus - 1
  BY Times DEF Clock
<1>1. s = IF t + ms < ClockModulus THEN t + ms ELSE t + ms - ClockModulus
  BY SumWraps
<1>2. s \in Clock
  BY SumWraps
<1> HIDE DEF s
<1>3. Elapsed(s, u) = IF u <= s THEN s - u ELSE s - u + ClockModulus
  BY <1>2, ElapsedWraps
<1>4. Elapsed(t, u) = IF u <= t THEN t - u ELSE t - u + ClockModulus
  BY ElapsedWraps
<1>5. Elapsed(s, u) = IF Elapsed(t, u) + ms < ClockModulus
                      THEN Elapsed(t, u) + ms
                      ELSE Elapsed(t, u) + ms - ClockModulus
  BY <1>0, <1>1, <1>3, <1>4
<1>6. QED
  BY <1>5 DEF s

-----------------------------------------------------------------------------
(* What commands do to the robot. *)

\* All that a command other than a wheel test may do.
Commanded ==
  \/ Arm \/ Disarm \/ Stop \/ Unlock \/ Lock
  \/ \E durationMs : Move(durationMs)
  \/ state # "ESTOP" /\ Halt("FAULT")
  \/ UNCHANGED robotVars

LEMMA ExecuteDoes ==
  ASSUME NEW command, Execute(command)
  PROVE  \/ Commanded
         \/ /\ command.kind = "SERVO_TEST" /\ command.arg1 > 0
            /\ TestWheel
BY DEF Execute, Commanded

LEMMA RemoteDoes ==
  ASSUME RemoteCommand
  PROVE  Commanded
<1>1. CASE state # "ESTOP" /\ Halt("FAULT")
  BY <1>1 DEF Commanded
<1>2. ASSUME NEW command \in RemoteCommands, Execute(command)
      PROVE  Commanded
  BY <1>2, ExecuteDoes, RemoteAssumption
<1>3. QED
  BY <1>1, <1>2 DEF RemoteCommand

\* The robot's part of TypeOK.
RobotTypes ==
  /\ state \in SafetyState
  /\ wheels \subseteq {"drive", "test"}
  /\ drive \in [moving: BOOLEAN, stopAtMs: Clock]
  /\ bench \in [unlocked: BOOLEAN, unlockedMs: Clock, testing: BOOLEAN]

LEMMA StoppedTypes ==
  /\ Stopped \in [moving: BOOLEAN, stopAtMs: Clock]
  /\ Locked \in [unlocked: BOOLEAN, unlockedMs: Clock, testing: BOOLEAN]
BY Times DEF Stopped, Locked, Clock

LEMMA HaltTypes ==
  ASSUME NEW s \in SafetyState, Halt(s)
  PROVE  RobotTypes'
BY StoppedTypes DEF Halt, StopDrive, RobotTypes

\* The duration that a command gets.
BoundedMs(durationMs) ==
  IF durationMs \in 1 .. SafeDriveTimeMs THEN durationMs ELSE SafeDriveTimeMs

LEMMA BoundedDuration ==
  ASSUME NEW durationMs
  PROVE  /\ BoundedMs(durationMs) \in Nat
         /\ BoundedMs(durationMs) <= SafeDriveTimeMs
         /\ BoundedMs(durationMs) < ClockModulus
         /\ SafeDriveTimeMs > 0 => BoundedMs(durationMs) > 0
<1>1. CASE durationMs \in 1 .. SafeDriveTimeMs
  BY <1>1, Times DEF BoundedMs
<1>2. CASE durationMs \notin 1 .. SafeDriveTimeMs
  BY <1>2, Times DEF BoundedMs
<1>3. QED
  BY <1>1, <1>2

LEMMA DriveDoes ==
  ASSUME now \in Clock, NEW durationMs, Drive(durationMs)
  PROVE  /\ wheels' = wheels \cup {"drive"}
         /\ drive' = [moving |-> TRUE,
                      stopAtMs |-> (now + BoundedMs(durationMs)) % ClockModulus]
         /\ drive' \in [moving: BOOLEAN, stopAtMs: Clock]
         /\ state' = state /\ bench' = bench
<1>1. /\ wheels' = wheels \cup {"drive"} /\ state' = state /\ bench' = bench
      /\ drive' = [moving |-> TRUE,
                   stopAtMs |-> (now + BoundedMs(durationMs)) % ClockModulus]
  BY DEF Drive, BoundedMs
<1>2. (now + BoundedMs(durationMs)) % ClockModulus \in Clock
  BY BoundedDuration, SumWraps
<1>3. QED
  BY <1>1, <1>2

LEMMA CommandedTypes ==
  ASSUME RobotTypes, now \in Clock, Commanded
  PROVE  RobotTypes'
<1>1. CASE Arm
  BY <1>1, StoppedTypes DEF Arm, Halt, StopDrive, RobotTypes, SafetyState
<1>2. CASE Disarm
  BY <1>2, StoppedTypes DEF Disarm, StopDrive, RobotTypes, SafetyState
<1>3. CASE Stop
  BY <1>3, StoppedTypes DEF Stop, StopDrive, RobotTypes
<1>4. CASE Unlock
  BY <1>4, StoppedTypes DEF Unlock, StopDrive, RobotTypes, SafetyState
<1>5. CASE Lock
  BY <1>5, StoppedTypes DEF Lock, RobotTypes
<1>6. ASSUME NEW durationMs, Move(durationMs)
      PROVE  RobotTypes'
  <2>1. CASE Drive(durationMs)
    <3>1. /\ wheels' = wheels \cup {"drive"} /\ state' = state /\ bench' = bench
          /\ drive' \in [moving: BOOLEAN, stopAtMs: Clock]
      BY <2>1, DriveDoes
    <3>2. QED
      BY <3>1 DEF RobotTypes
  <2>2. CASE Stop
    BY <2>2, StoppedTypes DEF Stop, StopDrive, RobotTypes
  <2>3. CASE Halt("FAULT")
    BY <2>3, HaltTypes DEF SafetyState
  <2>4. QED
    BY <1>6, <2>1, <2>2, <2>3 DEF Move
<1>7. CASE Halt("FAULT")
  BY <1>7, HaltTypes DEF SafetyState
<1>8. CASE UNCHANGED robotVars
  BY <1>8 DEF robotVars, RobotTypes
<1>9. QED
  BY <1>1, <1>2, <1>3, <1>4, <1>5, <1>6, <1>7, <1>8 DEF Commanded

LEMMA TestTypes ==
  ASSUME RobotTypes, now \in Clock, TestWheel
  PROVE  RobotTypes'
BY DEF TestWheel, RobotTypes
-----------------------------------------------------------------------------
(* The serial line. *)

LEMMA LineWords ==
  ASSUME NEW line \in Lines
  PROVE  /\ line.words \in Seq(STRING) /\ Len(line.words) \in Nat
         /\ DOMAIN line.words = 1 .. Len(line.words)
         /\ \A i \in 1 .. Len(line.words) :
              line.words[i] \in STRING /\ line.words[i] \in Words
<1>1. line.words \in Seq(STRING)
  BY LoopAssumption
<1>2. /\ Len(line.words) \in Nat
      /\ DOMAIN line.words = 1 .. Len(line.words)
      /\ \A i \in 1 .. Len(line.words) : line.words[i] \in STRING
  BY <1>1, LenProperties, ElementOfSeq
<1>3. ASSUME NEW i \in 1 .. Len(line.words)
      PROVE  line.words[i] \in Words
  BY <1>2 DEF Words
<1>4. QED
  BY <1>1, <1>2, <1>3

LEMMA NoLineWords ==
  NoLine.words = <<>> /\ Len(NoLine.words) = 0
BY DEF NoLine

\* What is taken from a line grows by its next word.
LEMMA OneWordMore ==
  ASSUME NEW w \in Seq(STRING), NEW k \in Nat, NEW r \in Nat,
         k <= r, r < Len(w), NEW s, s = SubSeq(w, r - k + 1, r)
  PROVE  Append(s, w[r + 1]) = SubSeq(w, r + 1 - (k + 1) + 1, r + 1)
<1> DEFINE a == r - k + 1
<1>1. Len(w) \in Nat
  BY LenProperties
<1>2. /\ a \in 1 .. Len(w) /\ r + 1 \in a .. Len(w)
      /\ a \in Int /\ r \in Int
  BY <1>1
<1>3. r + 1 \in 1 .. Len(w)
  BY <1>1
<1>4. w[r + 1] \in STRING
  BY <1>3, ElementOfSeq
<1>5. ASSUME NEW i \in a .. r
      PROVE  w[i] \in STRING
  <2>1. i \in 1 .. Len(w)
    BY <1>1, <1>2, <1>5
  <2>2. QED
    BY <2>1, ElementOfSeq
<1>6. s \in Seq(STRING)
  BY <1>2, <1>5, SubSeqProperties
<1>7. SubSeq(w, a, r + 1) = SubSeq(w, a, (r + 1) - 1) \o <<w[r + 1]>>
  BY <1>2, SubSeqRecursiveSecond
<1>8. (r + 1) - 1 = r /\ r + 1 - (k + 1) + 1 = a
  OBVIOUS
<1>9. SubSeq(w, a, r + 1) = s \o <<w[r + 1]>>
  BY <1>7, <1>8
<1>10. Append(s, w[r + 1]) = s \o <<w[r + 1]>>
  BY <1>4, <1>6, AppendIsConcat
<1>11. QED
  BY <1>8, <1>9, <1>10

\* The serial part of TypeOK, and what it holds.
SerialInv ==
  /\ serial.buffer \in Seq(Words) /\ Len(serial.buffer) <= SerialMax
  /\ serial.line \in Lines \cup {NoLine}
  /\ serial.received \in 0 .. Len(serial.line.words)
  /\ LineAsSent

LEMMA NothingReadInv ==
  ASSUME serial' = NothingRead
  PROVE  SerialInv'
<1>1. /\ serial'.buffer = <<>> /\ serial'.line = NoLine
      /\ serial'.received = 0
  BY DEF NothingRead
<1>2. Len(serial'.buffer) = 0 /\ serial'.buffer \in Seq(Words)
  BY <1>1
<1>3. SubSeq(NoLine.words, 0 - 0 + 1, 0) = <<>>
  BY SubSeqEmpty
<1>4. QED
  BY <1>1, <1>2, <1>3, NoLineWords, Times DEF SerialInv, LineAsSent

LEMMA ReceiveWordSerial ==
  ASSUME SerialInv, NEW line \in Lines, ReceiveWord(line)
  PROVE  SerialInv'
<1> DEFINE w == line.words
           r == serial.received
           b == serial.buffer
           k == Len(b)
<1>1. /\ w \in Seq(STRING) /\ Len(w) \in Nat
      /\ \A i \in 1 .. Len(w) : w[i] \in STRING /\ w[i] \in Words
  BY LineWords
<1>2. r \in Nat /\ k \in Nat /\ b \in Seq(Words) /\ k <= SerialMax /\ k <= r
  <2>1. Len(serial.line.words) \in Nat
    BY LineWords, NoLineWords DEF SerialInv
  <2>2. QED
    BY <2>1, LenProperties DEF SerialInv, LineAsSent
<1>3. r < Len(w) /\ w[r + 1] \in Words
  <2>1. r < Len(w)
    BY DEF ReceiveWord
  <2>2. r + 1 \in 1 .. Len(w)
    BY <1>1, <1>2, <2>1
  <2>3. QED
    BY <1>1, <2>1, <2>2
<1>4. /\ serial'.line = line /\ serial'.received = r + 1
      /\ serial'.buffer = IF k < SerialMax THEN Append(b, w[r + 1]) ELSE <<>>
  BY DEF ReceiveWord
\* The first word of a line finds the buffer empty.
<1>5. b = SubSeq(w, r - k + 1, r) /\ (r <= SerialMax => k = r)
  <2>1. CASE serial.line = line
    BY <2>1 DEF SerialInv, LineAsSent
  <2>2. CASE serial.line = NoLine
    <3>1. r = 0 /\ k = 0
      BY <1>2, <2>2, NoLineWords DEF SerialInv
    <3>2. b = <<>>
      BY <1>2, <3>1, EmptySeq
    <3>3. SubSeq(w, 0 - 0 + 1, 0) = <<>>
      BY SubSeqEmpty
    <3>4. QED
      BY <3>1, <3>2, <3>3
  <2>3. QED
    BY <2>1, <2>2 DEF ReceiveWord
<1>6. serial'.line \in Lines \cup {NoLine}
  BY <1>4
<1>7. serial'.received \in 0 .. Len(serial'.line.words)
  BY <1>1, <1>2, <1>3, <1>4
<1>8. CASE k < SerialMax
  <2>1. serial'.buffer = Append(b, w[r + 1])
    BY <1>4, <1>8
  <2>2. serial'.buffer \in Seq(Words) /\ Len(serial'.buffer) = k + 1
    BY <1>2, <1>3, <2>1, AppendProperties
  <2>3. serial'.buffer = SubSeq(w, r + 1 - (k + 1) + 1, r + 1)
    BY <1>1, <1>2, <1>3, <1>5, <2>1, OneWordMore
  <2> HIDE DEF w, r, b, k
  <2>4. k + 1 <= SerialMax /\ k + 1 <= r + 1
    BY <1>2, <1>8, Times
  <2>5. r + 1 <= SerialMax => k + 1 = r + 1
    BY <1>2, <1>5, Times
  <2>6. LineAsSent'
    <3>1. serial'.line.words = w /\ serial'.received = r + 1
      BY <1>4 DEF w
    <3>2. serial'.buffer = SubSeq(serial'.line.words,
                                  serial'.received - Len(serial'.buffer) + 1,
                                  serial'.received)
      BY ONLY <2>2, <2>3, <3>1
    <3>3. Len(serial'.buffer) <= serial'.received
      BY ONLY <2>2, <2>4, <3>1
    <3>4. serial'.received <= SerialMax => Len(serial'.buffer) = serial'.received
      BY ONLY <2>2, <2>5, <3>1
    <3>5. QED
      BY <3>2, <3>3, <3>4 DEF LineAsSent
  <2>7. QED
    BY <1>6, <1>7, <2>2, <2>4, <2>6 DEF SerialInv
<1>9. CASE ~(k < SerialMax)
  <2>1. serial'.buffer = <<>> /\ Len(serial'.buffer) = 0
    BY <1>4, <1>9
  <2>2. SubSeq(w, r + 1 - 0 + 1, r + 1) = <<>>
    BY <1>2, SubSeqEmpty
  <2> HIDE DEF w, r, b, k
  <2>3. ~(r + 1 <= SerialMax)
    BY <1>2, <1>5, <1>9, Times
  <2>4. LineAsSent'
    BY <1>2, <1>4, <2>1, <2>2, <2>3 DEF LineAsSent, w
  <2>5. serial'.buffer \in Seq(Words) /\ Len(serial'.buffer) <= SerialMax
    BY <2>1, Times
  <2>6. QED
    BY <1>6, <1>7, <2>4, <2>5 DEF SerialInv
<1>10. QED
  BY <1>8, <1>9

-----------------------------------------------------------------------------
(* Types, and lines as they were sent. *)

Chord == [start: Clock, pairing: BOOLEAN, acted: BOOLEAN]
Boot == [phase: BootPhase, startedMs: Clock, phaseMs: Clock]

Types ==
  /\ now \in Clock /\ at \in Call /\ chord \in Chord /\ boot \in Boot
  /\ RobotTypes

LoopInv == Types /\ SerialInv

LEMMA LoopInvGivesProperties ==
  LoopInv => TypeOK /\ LineAsSent
BY DEF LoopInv, Types, RobotTypes, SerialInv, TypeOK, Chord, Boot

LEMMA ReleasedType ==
  Released \in Chord
BY Times DEF Released, Chord, Clock

LEMMA GripType ==
  ASSUME chord \in Chord, now' \in Clock
  PROVE  /\ Grip \in Chord
         /\ Grip.start = IF chord.start = 0 THEN now' ELSE chord.start
         /\ chord.start # 0 => Grip = chord
         /\ chord.start = 0 => ~Grip.acted
<1>1. CASE chord.start = 0
  BY <1>1, ReleasedType DEF Grip, Chord, Released
<1>2. CASE chord.start # 0
  BY <1>2 DEF Grip
<1>3. QED
  BY <1>1, <1>2

\* The ways of a chord in a pass with both buttons down.
LEMMA BothButtonsChord ==
  ASSUME chord \in Chord, now' \in Clock, BothButtons
  PROVE  /\ chord' \in Chord /\ chord'.start = Grip.start
         /\ chord'.acted = (Grip.acted \/ StopDue \/ ResetDue)
<1>1. Grip \in Chord
  BY GripType
<1>2. CASE StopDue \/ ResetDue
  <2>1. chord' = [Grip EXCEPT !.acted = TRUE]
    BY <1>2 DEF BothButtons
  <2>2. QED
    BY <1>1, <1>2, <2>1 DEF Chord
<1>3. CASE ~(StopDue \/ ResetDue)
  <2>1. chord' = Grip \/ chord' = [Grip EXCEPT !.pairing = TRUE]
    BY <1>3 DEF BothButtons
  <2>2. CASE chord' = Grip
    BY <1>1, <1>3, <2>2 DEF Chord
  <2>3. CASE chord' = [Grip EXCEPT !.pairing = TRUE]
    <3>1. chord' \in Chord /\ chord'.start = Grip.start /\ chord'.acted = Grip.acted
      BY <1>1, <2>3 DEF Chord
    <3>2. Grip.acted \in BOOLEAN
      BY <1>1 DEF Chord
    <3>3. QED
      BY <1>3, <3>1, <3>2
  <2>4. QED
    BY <2>1, <2>2, <2>3
<1>4. QED
  BY <1>2, <1>3

\* What the buttons do to the robot.
LEMMA BothButtonsRobot ==
  ASSUME RobotTypes, BothButtons
  PROVE  RobotTypes'
<1>1. CASE Halt("ESTOP")
  BY <1>1, HaltTypes DEF SafetyState
<1>2. CASE state' = "DISARMED" /\ StopDrive /\ UNCHANGED bench
  BY <1>2, StoppedTypes DEF StopDrive, RobotTypes, SafetyState
<1>3. CASE UNCHANGED robotVars
  BY <1>3 DEF robotVars, RobotTypes
<1>4. QED
  BY <1>1, <1>2, <1>3 DEF BothButtons

LEMMA OneButtonRobot ==
  ASSUME RobotTypes, NEW down, OneButtonOrNone(down)
  PROVE  RobotTypes'
<1>1. CASE Stop
  BY <1>1, StoppedTypes DEF Stop, StopDrive, RobotTypes
<1>2. CASE UNCHANGED robotVars
  BY <1>2 DEF robotVars, RobotTypes
<1>3. QED
  BY <1>1, <1>2 DEF OneButtonOrNone

LEMMA InitLoop ==
  Init => LoopInv
<1> SUFFICES ASSUME Init PROVE LoopInv
  OBVIOUS
<1>1. serial = NothingRead
  BY DEF Init
<1>2. SerialInv
  <2>1. /\ serial.buffer = <<>> /\ serial.line = NoLine /\ serial.received = 0
    BY <1>1 DEF NothingRead
  <2>2. Len(serial.buffer) = 0 /\ serial.buffer \in Seq(Words)
    BY <2>1
  <2>3. SubSeq(NoLine.words, 0 - 0 + 1, 0) = <<>>
    BY SubSeqEmpty
  <2>4. QED
    BY <2>1, <2>2, <2>3, NoLineWords, Times DEF SerialInv, LineAsSent
<1>3. boot \in Boot /\ chord \in Chord
  BY ReleasedType DEF Init, Boot, BootPhase
<1>4. RobotTypes
  BY StoppedTypes DEF Init, RobotTypes, SafetyState
<1>5. QED
  BY <1>2, <1>3, <1>4 DEF Init, LoopInv, Types, Call

LEMMA ButtonsKeepLoop ==
  ASSUME LoopInv, NEW ms \in PassMs, NEW down, HandleButtons(ms, down)
  PROVE  LoopInv'
<1>1. now \in Clock /\ chord \in Chord /\ RobotTypes /\ boot \in Boot
  BY DEF LoopInv, Types
<1>2. now' \in Clock
  BY <1>1, LongestPass, Times, SumWraps DEF HandleButtons
<1>3. chord' \in Chord /\ RobotTypes'
  <2>1. CASE BothButtons
    BY <1>1, <1>2, <2>1, BothButtonsChord, BothButtonsRobot
  <2>2. CASE OneButtonOrNone(down)
    BY <1>1, <2>2, ReleasedType, OneButtonRobot DEF OneButtonOrNone
  <2>3. QED
    BY <2>1, <2>2 DEF HandleButtons
<1>4. boot' \in Boot /\ at' \in Call
  BY <1>1 DEF HandleButtons, Call
<1>5. SerialInv'
  BY DEF HandleButtons, LoopInv, SerialInv, LineAsSent
<1>6. QED
  BY <1>2, <1>3, <1>4, <1>5 DEF LoopInv, Types

LEMMA BootGoesOnKeepsLoop ==
  ASSUME LoopInv, BootGoesOn
  PROVE  LoopInv'
<1>1. /\ now \in Clock /\ chord \in Chord /\ RobotTypes /\ boot \in Boot
      /\ now' = now /\ chord' = chord /\ at' \in Call
  BY DEF LoopInv, Types, BootGoesOn, Call
<1>2. \/ boot' = boot
      \/ \E next \in BootPhase :
           boot' = [boot EXCEPT !.phase = next, !.phaseMs = now]
  BY DEF BootGoesOn, After, BootPhase
<1>3. boot' \in Boot
  BY <1>1, <1>2 DEF Boot
<1>4. Stop \/ UNCHANGED robotVars
  BY DEF BootGoesOn
<1>5. RobotTypes'
  BY <1>1, <1>4, StoppedTypes DEF Stop, StopDrive, RobotTypes, robotVars
<1>6. SerialInv'
  BY DEF BootGoesOn, LoopInv, SerialInv, LineAsSent
<1>7. QED
  BY <1>1, <1>3, <1>5, <1>6 DEF LoopInv, Types

LEMMA BootEndsKeepsLoop ==
  ASSUME LoopInv, BootEnds
  PROVE  LoopInv'
<1>1. boot' \in Boot
  BY Times DEF BootEnds, Boot, BootPhase, Clock
<1>2. RobotTypes'
  BY DEF BootEnds, LoopInv, Types, RobotTypes, SafetyState
<1>3. SerialInv'
  BY DEF BootEnds, LoopInv, SerialInv, LineAsSent
<1>4. QED
  BY <1>1, <1>2, <1>3 DEF BootEnds, LoopInv, Types, Call

LEMMA RobotUpdateKeepsLoop ==
  ASSUME LoopInv, RobotUpdate
  PROVE  LoopInv'
<1>1. RobotTypes'
  <2>1. CASE Halt("FAULT")
    BY <2>1, HaltTypes DEF SafetyState
  <2>2. CASE ~Halt("FAULT")
    BY <2>2, StoppedTypes DEF RobotUpdate, LoopInv, Types, RobotTypes
  <2>3. QED
    BY <2>1, <2>2
<1>2. SerialInv'
  BY DEF RobotUpdate, LoopInv, SerialInv, LineAsSent
<1>3. QED
  BY <1>1, <1>2 DEF RobotUpdate, LoopInv, Types, Call

LEMMA RestKeepsLoop ==
  ASSUME LoopInv, RemoteCommand \/ RemoteDone \/ SerialDone
  PROVE  LoopInv'
<1>1. RobotTypes /\ now \in Clock
  BY DEF LoopInv, Types
<1>2. RobotTypes'
  <2>1. CASE RemoteCommand
    BY <1>1, <2>1, RemoteDoes, CommandedTypes
  <2>2. CASE RemoteDone \/ SerialDone
    BY <1>1, <2>2 DEF RemoteDone, SerialDone, RobotTypes, robotVars
  <2>3. QED
    BY <2>1, <2>2
<1>3. SerialInv'
  BY DEF RemoteCommand, RemoteDone, SerialDone, LoopInv, SerialInv, LineAsSent
<1>4. now' = now /\ chord' = chord /\ boot' = boot /\ at' \in Call
  BY DEF RemoteCommand, RemoteDone, SerialDone, LoopInv, Types, Call
<1>5. QED
  BY <1>2, <1>3, <1>4 DEF LoopInv, Types

LEMMA ReceiveKeepsLoop ==
  ASSUME LoopInv, ReceiveEnd \/ \E line \in Lines : ReceiveWord(line)
  PROVE  LoopInv'
<1>1. RobotTypes /\ now \in Clock /\ SerialInv
  BY DEF LoopInv, Types
<1>2. RobotTypes' /\ SerialInv'
  <2>1. CASE ReceiveEnd
    <3>1. Commanded \/ TestWheel
      BY <2>1, ExecuteDoes DEF ReceiveEnd, Commanded
    <3>2. RobotTypes'
      BY <1>1, <3>1, CommandedTypes, TestTypes
    <3>3. SerialInv'
      BY <2>1, NothingReadInv DEF ReceiveEnd
    <3>4. QED
      BY <3>2, <3>3
  <2>2. ASSUME NEW line \in Lines, ReceiveWord(line)
        PROVE  RobotTypes' /\ SerialInv'
    <3>1. SerialInv'
      BY <1>1, <2>2, ReceiveWordSerial
    <3>2. RobotTypes'
      BY <1>1, <2>2 DEF ReceiveWord, RobotTypes, robotVars
    <3>3. QED
      BY <3>1, <3>2
  <2>3. QED
    BY <2>1, <2>2
<1>3. now' = now /\ chord' = chord /\ boot' = boot /\ at' = at
  BY DEF ReceiveEnd, ReceiveWord
<1>4. QED
  BY <1>2, <1>3 DEF LoopInv, Types

LEMMA NextKeepsLoop ==
  ASSUME LoopInv, [Next]_vars
  PROVE  LoopInv'
<1>1. CASE \E ms \in PassMs, down \in SUBSET {"A", "B"} : HandleButtons(ms, down)
  BY <1>1, ButtonsKeepLoop
<1>2. CASE BootGoesOn
  BY <1>2, BootGoesOnKeepsLoop
<1>3. CASE BootEnds
  BY <1>3, BootEndsKeepsLoop
<1>4. CASE RobotUpdate
  BY <1>4, RobotUpdateKeepsLoop
<1>5. CASE RemoteCommand \/ RemoteDone \/ SerialDone
  BY <1>5, RestKeepsLoop
<1>6. CASE ReceiveEnd \/ \E line \in Lines : ReceiveWord(line)
  BY <1>6, ReceiveKeepsLoop
<1>7. CASE UNCHANGED vars
  BY <1>7 DEF vars, robotVars, LoopInv, Types, RobotTypes, SerialInv, LineAsSent
<1>8. QED
  BY <1>1, <1>2, <1>3, <1>4, <1>5, <1>6, <1>7 DEF Next, LoopOther

\* What both theorems follow from.
LEMMA LoopAlways == Spec => []LoopInv
<1>1. LoopInv /\ [Next]_vars => LoopInv'
  BY NextKeepsLoop
<1>2. QED
  BY InitLoop, <1>1, PTL DEF Spec

\* Clock times, the states of boot and robot, and the buffer stay in their
\* types and bounds; the buffer never holds more than it has room for
\* (loop(), handleSerial).
THEOREM LoopTypeCorrect == Spec => []TypeOK
BY LoopAlways, LoopInvGivesProperties, PTL

\* Every line is read as it was sent, whatever lines and overflows came before
\* it, for every set of lines and every size of the buffer (handleSerial).
THEOREM LinesAreReadAsSent == Spec => []LineAsSent
BY LoopAlways, LoopInvGivesProperties, PTL
-----------------------------------------------------------------------------
(* The boot.  Each phase lasts no longer than it waits for, and a pass; so   *)
(* the boot is over before the buttons can have been held long enough.       *)

InBoot == boot.phase \notin {"COMPLETE", "DEGRADED"}

BootAge == Elapsed(now, boot.startedMs)
PhaseAge == Elapsed(now, boot.phaseMs)
Held == Elapsed(now, chord.start)

\* How long a phase waits, and how old the boot is at most when it begins.
Wait ==
  [DISPLAY_OK |-> DisplayMs, I2C_SCAN |-> 0, SERVO8_CHECK |-> PhaseMs,
   SONIC_CHECK |-> PhaseMs, DRIVE_SAFE_STOP |-> PhaseMs,
   MANIPULATOR_CHECK |-> PhaseMs]

Begun ==
  [DISPLAY_OK |-> 0,
   I2C_SCAN |-> DisplayMs + MaxPassMs,
   SERVO8_CHECK |-> DisplayMs + 2 * MaxPassMs,
   SONIC_CHECK |-> DisplayMs + PhaseMs + 3 * MaxPassMs,
   DRIVE_SAFE_STOP |-> DisplayMs + 2 * PhaseMs + 4 * MaxPassMs,
   MANIPULATOR_CHECK |-> DisplayMs + 3 * PhaseMs + 5 * MaxPassMs]

\* The whole boot, which the buttons must outlast: 600 ms and six passes on the
\* device, against 1200 ms.
BootShort == DisplayMs + 4 * PhaseMs + 6 * MaxPassMs < StopHoldMs

BootInv ==
  /\ at = "boot" => InBoot
  /\ InBoot =>
       /\ at \in {"buttons", "boot"} /\ state = "BOOT" /\ wheels = {}
       /\ PhaseAge <= Wait[boot.phase] + (IF at = "boot" THEN MaxPassMs ELSE 0)
       /\ BootAge <= Begun[boot.phase] + PhaseAge
       /\ chord.start = 0 \/ Held <= BootAge

Starting ==
  {"DISPLAY_OK", "I2C_SCAN", "SERVO8_CHECK", "SONIC_CHECK", "DRIVE_SAFE_STOP",
   "MANIPULATOR_CHECK"}

LEMMA BootTimes ==
  ASSUME BootShort, NEW phase \in Starting
  PROVE  /\ Wait[phase] \in Nat /\ Begun[phase] \in Nat
         /\ Begun[phase] + Wait[phase] + MaxPassMs < StopHoldMs
BY Times DEF BootShort, Starting, Wait, Begun

\* A phase begins in time when the one before it ends in time.
LEMMA BootPhases ==
  ASSUME BootShort, NEW phase \in Starting, NEW next \in Starting,
         \/ phase = "DISPLAY_OK" /\ next = "I2C_SCAN"
         \/ phase = "I2C_SCAN" /\ next = "SERVO8_CHECK"
         \/ phase = "SERVO8_CHECK" /\ next = "SONIC_CHECK"
         \/ phase = "SONIC_CHECK" /\ next = "DRIVE_SAFE_STOP"
         \/ phase = "DRIVE_SAFE_STOP" /\ next = "MANIPULATOR_CHECK"
  PROVE  Begun[phase] + Wait[phase] + MaxPassMs <= Begun[next]
BY Times DEF BootShort, Starting, Wait, Begun

\* The ages, and how a pass changes them.
LEMMA Ages ==
  ASSUME LoopInv
  PROVE  BootAge \in Nat /\ PhaseAge \in Nat /\ Held \in Nat
BY ElapsedType DEF LoopInv, Types, Boot, Chord, BootAge, PhaseAge, Held

LEMMA ButtonsAges ==
  ASSUME LoopInv, NEW ms \in PassMs, NEW down, HandleButtons(ms, down)
  PROVE  /\ ms \in Nat /\ ms <= MaxPassMs /\ now' \in Clock
         /\ BootAge' = IF BootAge + ms < ClockModulus THEN BootAge + ms
                       ELSE BootAge + ms - ClockModulus
         /\ PhaseAge' = IF PhaseAge + ms < ClockModulus THEN PhaseAge + ms
                        ELSE PhaseAge + ms - ClockModulus
         /\ Elapsed(now', chord.start) =
              IF Held + ms < ClockModulus THEN Held + ms
              ELSE Held + ms - ClockModulus
<1>1. /\ now \in Clock /\ boot.startedMs \in Clock /\ boot.phaseMs \in Clock
      /\ chord.start \in Clock
  BY DEF LoopInv, Types, Boot, Chord
<1>2. ms \in Nat /\ ms <= MaxPassMs /\ ms < ClockModulus
  BY LongestPass, Times
<1>3. now' = (now + ms) % ClockModulus /\ boot' = boot
  BY DEF HandleButtons
<1>4. now' \in Clock
  BY <1>1, <1>2, <1>3, SumWraps
<1>5. Elapsed(now', boot.startedMs) =
        IF BootAge + ms < ClockModulus THEN BootAge + ms
        ELSE BootAge + ms - ClockModulus
  BY <1>1, <1>2, <1>3, PassElapses DEF BootAge
<1>6. Elapsed(now', boot.phaseMs) =
        IF PhaseAge + ms < ClockModulus THEN PhaseAge + ms
        ELSE PhaseAge + ms - ClockModulus
  BY <1>1, <1>2, <1>3, PassElapses DEF PhaseAge
<1>7. Elapsed(now', chord.start) =
        IF Held + ms < ClockModulus THEN Held + ms
        ELSE Held + ms - ClockModulus
  BY <1>1, <1>2, <1>3, PassElapses DEF Held
<1>8. BootAge' = Elapsed(now', boot.startedMs)
  BY <1>3 DEF BootAge
<1>9. PhaseAge' = Elapsed(now', boot.phaseMs)
  BY <1>3 DEF PhaseAge
<1>10. QED
  BY <1>2, <1>4, <1>5, <1>6, <1>7, <1>8, <1>9

\* What a look at the buttons leaves of the chord.
LEMMA ButtonsChord ==
  ASSUME LoopInv, NEW ms \in PassMs, NEW down, HandleButtons(ms, down)
  PROVE  chord'.start \in {0, now', chord.start}
<1>1. chord \in Chord /\ now' \in Clock
  BY ButtonsAges DEF LoopInv, Types
<1>2. CASE BothButtons
  BY <1>1, <1>2, BothButtonsChord, GripType
<1>3. CASE OneButtonOrNone(down)
  BY <1>3 DEF OneButtonOrNone, Released
<1>4. QED
  BY <1>2, <1>3 DEF HandleButtons

\* How long the grip has lasted in this pass.
LEMMA GripHolds ==
  ASSUME LoopInv, NEW ms \in PassMs, NEW down, HandleButtons(ms, down)
  PROVE  Elapsed(now', Grip.start) =
           IF chord.start = 0 THEN 0 ELSE Elapsed(now', chord.start)
<1>1. chord \in Chord /\ now' \in Clock
  BY ButtonsAges DEF LoopInv, Types
<1>2. Grip.start = IF chord.start = 0 THEN now' ELSE chord.start
  BY <1>1, GripType
<1>3. Elapsed(now', now') = 0
  BY <1>1, ElapsedFromSelf
<1>4. QED
  BY <1>2, <1>3

LEMMA InitBoot ==
  ASSUME Init, BootShort
  PROVE  BootInv
<1>1. Elapsed(now, now) = 0
  BY ElapsedFromSelf DEF Init
<1>2. BootAge = 0 /\ PhaseAge = 0
  BY <1>1 DEF Init, BootAge, PhaseAge
<1>3. Wait["DISPLAY_OK"] = DisplayMs /\ Begun["DISPLAY_OK"] = 0
  BY DEF Wait, Begun
<1>4. QED
  BY <1>2, <1>3, Times DEF BootInv, InBoot, Init, Released

LEMMA ButtonsKeepBoot ==
  ASSUME LoopInv, BootInv, BootShort,
         NEW ms \in PassMs, NEW down, HandleButtons(ms, down)
  PROVE  BootInv'
<1>1. boot' = boot /\ at' = IF InBoot THEN "boot" ELSE "robot"
  BY DEF HandleButtons, InBoot
<1>2. CASE ~InBoot
  BY <1>1, <1>2 DEF BootInv, InBoot
<1>3. CASE InBoot
  <2>1. boot.phase \in Starting
    BY <1>3 DEF InBoot, LoopInv, Types, Boot, BootPhase, Starting
  <2>2. /\ Wait[boot.phase] \in Nat /\ Begun[boot.phase] \in Nat
        /\ Begun[boot.phase] + Wait[boot.phase] + MaxPassMs < StopHoldMs
    BY <2>1, BootTimes
  <2>3. /\ at = "buttons" /\ state = "BOOT" /\ wheels = {}
        /\ PhaseAge <= Wait[boot.phase]
        /\ BootAge <= Begun[boot.phase] + PhaseAge
        /\ chord.start = 0 \/ Held <= BootAge
    <3>1. at = "buttons"
      BY DEF HandleButtons
    <3>2. Wait[boot.phase] + 0 = Wait[boot.phase]
      BY <2>2
    <3>3. QED
      BY <1>3, <3>1, <3>2 DEF BootInv
  <2>4. BootAge \in Nat /\ PhaseAge \in Nat /\ Held \in Nat
    BY Ages
  <2> DEFINE longer == Elapsed(now', chord.start)
             w == Wait[boot.phase]
             b == Begun[boot.phase]
  <2>5. /\ ms \in Nat /\ ms <= MaxPassMs
        /\ BootAge' = IF BootAge + ms < ClockModulus THEN BootAge + ms
                      ELSE BootAge + ms - ClockModulus
        /\ PhaseAge' = IF PhaseAge + ms < ClockModulus THEN PhaseAge + ms
                       ELSE PhaseAge + ms - ClockModulus
        /\ longer = IF Held + ms < ClockModulus THEN Held + ms
                    ELSE Held + ms - ClockModulus
    BY ButtonsAges
  <2>6. w \in Nat /\ b \in Nat /\ b + w + MaxPassMs < StopHoldMs
    BY <2>2
  <2> HIDE DEF longer, w, b
  <2>7. /\ PhaseAge <= w /\ BootAge <= b + PhaseAge
        /\ chord.start = 0 \/ Held <= BootAge
    BY <2>3 DEF w, b
  <2>8. BootAge + ms < StopHoldMs
    BY <2>4, <2>5, <2>6, <2>7, Times
  <2>9. /\ BootAge' = BootAge + ms /\ PhaseAge' = PhaseAge + ms
    BY <2>4, <2>5, <2>6, <2>7, <2>8, Times
  <2>10. /\ PhaseAge' <= w + MaxPassMs /\ BootAge' <= b + PhaseAge'
         /\ BootAge' < StopHoldMs
    BY <2>4, <2>5, <2>6, <2>7, <2>8, <2>9, Times
  <2>11. chord.start = 0 \/ longer <= BootAge'
    BY <2>4, <2>5, <2>7, <2>8, <2>9, Times
  <2>12. Elapsed(now', Grip.start) < StopHoldMs /\ Elapsed(now', Grip.start) \in Nat
    <3>1. Elapsed(now', Grip.start) = IF chord.start = 0 THEN 0 ELSE longer
      BY GripHolds DEF longer
    <3>2. chord.start # 0 => longer \in Nat /\ longer < StopHoldMs
      BY <2>4, <2>5, <2>7, <2>8, Times
    <3>3. 0 < StopHoldMs
      BY <2>4, <2>5, <2>8, Times
    <3>4. QED
      BY <3>1, <3>2, <3>3
  <2>13. ~StopDue /\ ~ResetDue
    BY <2>3, <2>12, Times DEF StopDue, ResetDue, HeldFor
  <2>14. state' = "BOOT" /\ wheels' = {}
    <3>1. UNCHANGED robotVars \/ Stop
      BY <2>13 DEF HandleButtons, BothButtons, OneButtonOrNone
    <3>2. QED
      BY <2>3, <3>1 DEF robotVars, Stop, StopDrive
  <2>15. chord'.start = 0 \/ Held' <= BootAge'
    <3>1. chord'.start \in {0, now', chord.start}
      BY ButtonsChord
    <3>2. Elapsed(now', now') = 0
      BY ButtonsAges, ElapsedFromSelf
    <3>3. CASE chord'.start = now'
      <4>1. Held' = 0
        BY <3>2, <3>3 DEF Held
      <4>2. QED
        BY <2>4, <2>5, <2>9, <4>1
    <3>4. CASE chord'.start = chord.start
      <4>1. Held' = longer
        BY <3>4 DEF Held, longer
      <4>2. QED
        BY <2>11, <3>4, <4>1
    <3>5. QED
      BY <3>1, <3>3, <3>4
  <2>16. at' = "boot" /\ InBoot' /\ boot'.phase = boot.phase
    BY <1>1, <1>3 DEF InBoot
  <2>17. QED
    BY <2>10, <2>14, <2>15, <2>16 DEF BootInv, w, b
<1>4. QED
  BY <1>2, <1>3

LEMMA WaitValues ==
  /\ Wait["DISPLAY_OK"] = DisplayMs
  /\ \A phase \in Starting \ {"DISPLAY_OK", "I2C_SCAN"} : Wait[phase] = PhaseMs
BY DEF Wait, Starting

\* The next phase begins now.
LEMMA PhaseBegins ==
  ASSUME LoopInv, BootInv, BootShort, at = "boot",
         NEW phase \in Starting, NEW next \in Starting,
         boot.phase = phase,
         boot' = [boot EXCEPT !.phase = next, !.phaseMs = now],
         now' = now, chord' = chord,
         Begun[phase] + Wait[phase] + MaxPassMs <= Begun[next]
  PROVE  /\ boot'.phase = next /\ PhaseAge' = 0 /\ BootAge' = BootAge
         /\ Held' = Held /\ BootAge <= Begun[next]
<1>1. boot \in Boot /\ now \in Clock
  BY DEF LoopInv, Types
<1>2. /\ boot'.phase = next /\ boot'.phaseMs = now
      /\ boot'.startedMs = boot.startedMs
  BY <1>1 DEF Boot
<1>3. PhaseAge' = 0
  BY <1>1, <1>2, ElapsedFromSelf DEF PhaseAge
<1>4. BootAge' = BootAge /\ Held' = Held
  BY <1>2 DEF BootAge, Held
<1>5. BootAge \in Nat /\ PhaseAge \in Nat
  BY Ages
<1>6. PhaseAge <= Wait[phase] + MaxPassMs /\ BootAge <= Begun[phase] + PhaseAge
  BY DEF BootInv
<1>7. Wait[phase] \in Nat /\ Begun[phase] \in Nat /\ Begun[next] \in Nat
  BY BootTimes
<1>8. BootAge <= Begun[next]
  BY <1>5, <1>6, <1>7, Times
<1>9. QED
  BY <1>2, <1>3, <1>4, <1>8

LEMMA BootGoesOnKeepsBoot ==
  ASSUME LoopInv, BootInv, BootShort, BootGoesOn
  PROVE  BootInv'
<1>1. /\ at = "boot" /\ at' = "buttons" /\ now' = now /\ chord' = chord
  BY DEF BootGoesOn
<1>2. /\ InBoot /\ state = "BOOT" /\ wheels = {}
      /\ chord.start = 0 \/ Held <= BootAge
      /\ BootAge <= Begun[boot.phase] + PhaseAge
  BY <1>1 DEF BootInv
<1>3. boot.phase \in Starting
  BY <1>2 DEF InBoot, LoopInv, Types, Boot, BootPhase, Starting
<1>4. state' = "BOOT" /\ wheels' = {}
  <2>1. UNCHANGED robotVars \/ Stop
    BY DEF BootGoesOn
  <2>2. QED
    BY <1>2, <2>1 DEF robotVars, Stop, StopDrive
<1>5. CASE Waiting /\ boot' = boot
  <2>1. PhaseAge <= Wait[boot.phase]
    <3>1. CASE boot.phase = "DISPLAY_OK"
      BY <1>5, <3>1, WaitValues DEF Waiting, PhaseAge
    <3>2. CASE boot.phase # "DISPLAY_OK"
      BY <1>3, <1>5, <3>2, WaitValues DEF Waiting, PhaseAge
    <3>3. QED
      BY <3>1, <3>2
  <2>2. PhaseAge' = PhaseAge /\ BootAge' = BootAge /\ Held' = Held
    BY <1>1, <1>5 DEF PhaseAge, BootAge, Held
  <2>3. Wait[boot.phase] + 0 = Wait[boot.phase]
    BY <1>3, BootTimes
  <2>4. QED
    BY <1>1, <1>2, <1>4, <1>5, <2>1, <2>2, <2>3 DEF BootInv, InBoot
<1>6. ASSUME NEW next \in Starting,
             \/ boot.phase = "DISPLAY_OK" /\ next = "I2C_SCAN"
             \/ boot.phase = "I2C_SCAN" /\ next = "SERVO8_CHECK"
             \/ boot.phase = "SERVO8_CHECK" /\ next = "SONIC_CHECK"
             \/ boot.phase = "SONIC_CHECK" /\ next = "DRIVE_SAFE_STOP"
             \/ boot.phase = "DRIVE_SAFE_STOP" /\ next = "MANIPULATOR_CHECK",
             boot' = [boot EXCEPT !.phase = next, !.phaseMs = now]
      PROVE  BootInv'
  <2>1. Begun[boot.phase] + Wait[boot.phase] + MaxPassMs <= Begun[next]
    BY <1>3, <1>6, BootPhases
  <2>2. /\ boot'.phase = next /\ PhaseAge' = 0 /\ BootAge' = BootAge
        /\ Held' = Held /\ BootAge <= Begun[next]
    BY <1>1, <1>3, <1>6, <2>1, PhaseBegins
  <2>3. Wait[next] \in Nat /\ Begun[next] \in Nat
    BY BootTimes
  <2>4. PhaseAge' <= Wait[next] + 0 /\ BootAge' <= Begun[next] + PhaseAge'
    <3>1. Begun[next] + 0 = Begun[next] /\ 0 <= Wait[next] + 0
      BY <2>3
    <3>2. QED
      BY <2>2, <3>1
  <2>5. chord'.start = 0 \/ Held' <= BootAge'
    BY <1>1, <1>2, <2>2
  <2>6. QED
    BY <1>1, <1>4, <2>2, <2>4, <2>5 DEF BootInv, InBoot, Starting
<1>7. \/ Waiting /\ boot' = boot
      \/ \E next \in Starting :
           /\ \/ boot.phase = "DISPLAY_OK" /\ next = "I2C_SCAN"
              \/ boot.phase = "I2C_SCAN" /\ next = "SERVO8_CHECK"
              \/ boot.phase = "SERVO8_CHECK" /\ next = "SONIC_CHECK"
              \/ boot.phase = "SONIC_CHECK" /\ next = "DRIVE_SAFE_STOP"
              \/ boot.phase = "DRIVE_SAFE_STOP" /\ next = "MANIPULATOR_CHECK"
           /\ boot' = [boot EXCEPT !.phase = next, !.phaseMs = now]
  BY DEF BootGoesOn, After, Starting
<1>8. QED
  BY <1>5, <1>6, <1>7

\* The calls that come after the boot.
AfterBoot ==
  RobotUpdate \/ RemoteCommand \/ RemoteDone \/ ReceiveEnd \/ SerialDone
    \/ \E line \in Lines : ReceiveWord(line)

LEMMA AfterBootLeaves ==
  ASSUME AfterBoot
  PROVE  /\ at \in {"robot", "wifi", "serial"}
         /\ at' \in {"wifi", "serial", "buttons"}
         /\ now' = now /\ chord' = chord /\ boot' = boot
BY DEF AfterBoot, RobotUpdate, RemoteCommand, RemoteDone, ReceiveEnd,
       SerialDone, ReceiveWord

LEMMA OtherKeepsBoot ==
  ASSUME LoopInv, BootInv, BootShort, LoopOther
  PROVE  BootInv'
<1>1. CASE BootGoesOn
  BY <1>1, BootGoesOnKeepsBoot
<1>2. CASE BootEnds
  BY <1>2 DEF BootEnds, BootInv, InBoot
<1>3. CASE AfterBoot
  BY <1>3, AfterBootLeaves DEF BootInv, InBoot
<1>4. QED
  BY <1>1, <1>2, <1>3 DEF LoopOther, AfterBoot

-----------------------------------------------------------------------------
(* The grip on both buttons.  What handleButtons takes for its age is never  *)
(* more than its age, and at most a pass less: a grip that begins when the   *)
(* clock reads 0 is taken for none.                                          *)

GripTypes ==
  [on: BOOLEAN, steady: BOOLEAN, inEstop: BOOLEAN, ms: 0 .. GripCap,
   act: {"none", "stop", "reset"}]

ChordInv ==
  /\ grip \in GripTypes
  /\ ~grip.on => grip = NoGrip
  /\ chord.start # 0 => grip.on
  /\ chord.acted => chord.start # 0
  /\ grip.act # "none" => chord.acted
  /\ chord.acted => state = "ESTOP" \/ grip.act = "reset"
  /\ chord.start # 0 => Held <= grip.ms \/ grip.ms = GripCap
  /\ grip.steady /\ state # "ESTOP" /\ ~chord.acted =>
       IF chord.start = 0 THEN now = 0 /\ grip.ms = 0
       ELSE Held < StopHoldMs /\ grip.ms <= Held + MaxPassMs

LEMMA LaterBounds ==
  ASSUME NEW age \in Nat, NEW ms \in Nat, NEW cap \in Nat
  PROVE  /\ Later(age, ms, cap) \in 0 .. cap
         /\ Later(age, ms, cap) <= age + ms
         /\ Later(age, ms, cap) = cap \/ Later(age, ms, cap) = age + ms
BY DEF Later

LEMMA GripCapIsLong ==
  GripCap \in Nat /\ StopHoldMs <= GripCap /\ ResetHoldMs <= GripCap
BY Times DEF GripCap

LEMMA NoGripType ==
  NoGrip \in GripTypes /\ ~NoGrip.on /\ ~NoGrip.steady /\ NoGrip.act = "none"
BY GripCapIsLong DEF NoGrip, GripTypes

LEMMA GripBegunType ==
  /\ GripBegun \in GripTypes /\ GripBegun.on /\ GripBegun.steady
  /\ GripBegun.act = "none" /\ GripBegun.ms = 0
<1> DEFINE b == state = "ESTOP"
           g == [NoGrip EXCEPT !.on = TRUE, !.steady = TRUE, !.inEstop = b]
<1>1. b \in BOOLEAN
  OBVIOUS
<1>2. GripBegun = g
  BY DEF GripBegun
<1> HIDE DEF b
<1>3. /\ g \in [on: BOOLEAN, steady: BOOLEAN, inEstop: BOOLEAN, ms: {0},
                act: {"none"}]
      /\ g.on = TRUE /\ g.steady = TRUE
  BY <1>1 DEF NoGrip
<1> HIDE DEF g
<1>4. 0 \in 0 .. GripCap
  BY GripCapIsLong
<1>5. g \in GripTypes /\ g.ms = 0 /\ g.act = "none"
  BY <1>3, <1>4 DEF GripTypes
<1>6. QED
  BY <1>2, <1>3, <1>5

LEMMA GripHeldType ==
  ASSUME grip \in GripTypes, NEW ms \in Nat, NEW both \in BOOLEAN
  PROVE  /\ GripHeld(ms, both) \in GripTypes
         /\ GripHeld(ms, both).on = grip.on
         /\ GripHeld(ms, both).steady <=> (grip.steady /\ both)
         /\ GripHeld(ms, both).act = grip.act
         /\ GripHeld(ms, both).ms \in Nat
         /\ GripHeld(ms, both).ms <= GripCap
         /\ GripHeld(ms, both).ms <= grip.ms + ms
         /\ \/ GripHeld(ms, both).ms = GripCap
            \/ GripHeld(ms, both).ms = grip.ms + ms
<1> DEFINE older == Later(grip.ms, ms, GripCap)
           steady == grip.steady /\ both
<1>1. grip.ms \in Nat /\ GripCap \in Nat
  BY GripCapIsLong DEF GripTypes
<1>2. older \in 0 .. GripCap
  BY <1>1, LaterBounds
<1>3. older \in Nat /\ older <= GripCap /\ older <= grip.ms + ms
  BY <1>1 DEF Later
<1>4. older = GripCap \/ older = grip.ms + ms
  BY <1>1 DEF Later
<1>5. steady \in BOOLEAN /\ (steady <=> grip.steady /\ both)
  OBVIOUS
<1>6. GripHeld(ms, both) = [grip EXCEPT !.ms = older, !.steady = steady]
  BY DEF GripHeld
<1> HIDE DEF older, steady
<1> DEFINE g == [grip EXCEPT !.ms = older, !.steady = steady]
<1>7. /\ g \in GripTypes /\ g.on = grip.on /\ g.act = grip.act
      /\ g.ms = older /\ g.steady = steady
  BY <1>2, <1>5 DEF GripTypes
<1> HIDE DEF g
<1>8. GripHeld(ms, both) = g
  BY <1>6 DEF g
<1>9. QED
  BY <1>3, <1>4, <1>5, <1>7, <1>8

\* What the history makes of a change of the supervisor's state.
LEMMA ActedCases ==
  ASSUME NEW g \in GripTypes
  PROVE  /\ (state = "ESTOP") = (state' = "ESTOP") => Acted(g) = g
         /\ g.act = "none" /\ state # "ESTOP" /\ state' = "ESTOP"
              /\ g.ms >= StopHoldMs
              => Acted(g) = [g EXCEPT !.act = "stop"]
         /\ g.act = "none" /\ state = "ESTOP" /\ state' # "ESTOP"
              /\ g.ms >= ResetHoldMs
              => Acted(g) = [g EXCEPT !.act = "reset"]
BY DEF Acted, Act

LEMMA InitChord ==
  ASSUME MCInit
  PROVE  ChordInv
BY NoGripType DEF MCInit, Init, Released, ChordInv

\* Fewer than two buttons are down.
LEMMA OneButtonKeepsChord ==
  ASSUME LoopInv, ChordInv, NEW ms \in PassMs, NEW down \in SUBSET {"A", "B"},
         down # {"A", "B"}, HandleButtons(ms, down), Looked(ms, down)
  PROVE  ChordInv'
<1>1. state' = state
  BY DEF HandleButtons, OneButtonOrNone, robotVars, Stop
<1>2. CASE down = {}
  <2>1. chord' = Released /\ grip' = NoGrip
    BY <1>2 DEF HandleButtons, OneButtonOrNone, Looked
  <2>2. QED
    BY <2>1, NoGripType DEF ChordInv, Released
<1>3. CASE down # {}
  <2>1. chord' = chord
    BY <1>3 DEF HandleButtons, OneButtonOrNone
  <2>2. CASE ~grip.on
    <3>1. grip' = grip
      BY <1>3, <2>2 DEF Looked
    <3>2. QED
      BY <1>1, <2>1, <2>2, <3>1, NoGripType DEF ChordInv
  <2>3. CASE grip.on
    <3> DEFINE g == GripHeld(ms, FALSE)
    <3>1. ms \in Nat /\ grip \in GripTypes /\ grip.ms \in Nat
      BY LongestPass DEF ChordInv, GripTypes
    <3>2. /\ g \in GripTypes /\ g.on /\ ~g.steady /\ g.act = grip.act
          /\ g.ms \in Nat /\ (g.ms = GripCap \/ g.ms = grip.ms + ms)
      BY <2>3, <3>1, GripHeldType
    <3>3. grip' = Acted(g)
      BY <1>3, <2>3 DEF Looked
    <3> HIDE DEF g
    <3>4. grip' = g
      BY <1>1, <3>2, <3>3, ActedCases
    <3>5. chord.start # 0 => Held' <= g.ms \/ g.ms = GripCap
      <4>1. SUFFICES ASSUME chord.start # 0
                     PROVE  Held' <= g.ms \/ g.ms = GripCap
        OBVIOUS
      <4>2. Held <= grip.ms \/ grip.ms = GripCap
        BY <4>1 DEF ChordInv
      <4>3. Held' = IF Held + ms < ClockModulus THEN Held + ms
                    ELSE Held + ms - ClockModulus
        BY <2>1, ButtonsAges DEF Held
      <4>4. Held \in Nat
        BY Ages
      <4>5. g.ms \in Nat /\ g.ms <= GripCap /\ GripCap \in Nat
        BY <3>2, GripCapIsLong DEF GripTypes
      <4>6. QED
        BY <3>1, <3>2, <4>2, <4>3, <4>4, <4>5, Times
    <3>6. QED
      BY <1>1, <2>1, <3>2, <3>4, <3>5 DEF ChordInv
  <2>4. QED
    BY <2>2, <2>3
<1>4. QED
  BY <1>2, <1>3

\* Both buttons are down: how old the grip is, by the history and by the code.
GripNow(ms) == IF grip.on THEN GripHeld(ms, TRUE) ELSE GripBegun
GripAge == Elapsed(now', Grip.start)

LEMMA GripNowType ==
  ASSUME ChordInv, NEW ms \in Nat
  PROVE  /\ GripNow(ms) \in GripTypes /\ GripNow(ms).on
         /\ GripNow(ms).act = grip.act
         /\ GripNow(ms).ms \in Nat /\ GripNow(ms).ms <= GripCap
         /\ grip.on => /\ GripNow(ms).steady => grip.steady
                       /\ GripNow(ms).ms <= grip.ms + ms
                       /\ \/ GripNow(ms).ms = GripCap
                          \/ GripNow(ms).ms = grip.ms + ms
         /\ ~grip.on => GripNow(ms).ms = 0
<1>1. grip \in GripTypes
  BY DEF ChordInv
<1>2. CASE grip.on
  <2>1. GripNow(ms) = GripHeld(ms, TRUE)
    BY <1>2 DEF GripNow
  <2>2. /\ GripHeld(ms, TRUE) \in GripTypes /\ GripHeld(ms, TRUE).on = grip.on
        /\ GripHeld(ms, TRUE).act = grip.act
        /\ GripHeld(ms, TRUE).steady => grip.steady
    BY <1>1, GripHeldType
  <2>3. /\ GripHeld(ms, TRUE).ms \in Nat
        /\ GripHeld(ms, TRUE).ms <= grip.ms + ms
        /\ \/ GripHeld(ms, TRUE).ms = GripCap
           \/ GripHeld(ms, TRUE).ms = grip.ms + ms
    BY <1>1, GripHeldType
  <2>4. GripHeld(ms, TRUE).ms <= GripCap
    BY <1>1, GripHeldType
  <2>5. QED
    BY <1>2, <2>1, <2>2, <2>3, <2>4
<1>3. CASE ~grip.on
  <2>1. GripNow(ms) = GripBegun /\ grip.act = "none"
    BY <1>3, NoGripType DEF GripNow, ChordInv
  <2>2. QED
    BY <1>3, <2>1, GripBegunType, GripCapIsLong
<1>4. QED
  BY <1>2, <1>3

LEMMA GripAges ==
  ASSUME LoopInv, ChordInv, NEW ms \in PassMs, HandleButtons(ms, {"A", "B"})
  PROVE  /\ GripAge \in Nat
         /\ GripAge <= GripNow(ms).ms \/ GripNow(ms).ms = GripCap
         /\ chord.start = 0 => GripAge = 0
         /\ GripNow(ms).steady /\ state # "ESTOP" /\ ~chord.acted =>
              /\ GripNow(ms).ms <= GripAge + MaxPassMs
              /\ chord.start = 0 /\ now' = 0 => GripNow(ms).ms = 0
<1>1. /\ ms \in Nat /\ ms <= MaxPassMs
      /\ Elapsed(now', chord.start) =
           IF Held + ms < ClockModulus THEN Held + ms
           ELSE Held + ms - ClockModulus
  BY ButtonsAges
<1>2. /\ GripNow(ms).ms \in Nat /\ GripNow(ms).ms <= GripCap
      /\ grip.on => /\ GripNow(ms).steady => grip.steady
                    /\ GripNow(ms).ms <= grip.ms + ms
                    /\ \/ GripNow(ms).ms = GripCap
                       \/ GripNow(ms).ms = grip.ms + ms
      /\ ~grip.on => GripNow(ms).ms = 0
  BY <1>1, GripNowType
<1>3. PICK m \in Nat : m = GripNow(ms).ms
  BY <1>2
<1>4. PICK longer : longer = Elapsed(now', chord.start)
  OBVIOUS
<1>5. PICK before \in Nat : before = grip.ms
  BY GripCapIsLong DEF ChordInv, GripTypes
<1>6. PICK held \in Nat : held = Held
  BY Ages
<1>7. PICK age : age = GripAge
  OBVIOUS
<1>8. age = IF chord.start = 0 THEN 0 ELSE longer
  BY <1>4, <1>7, GripHolds DEF GripAge
<1>9. /\ longer = IF held + ms < ClockModulus THEN held + ms
                  ELSE held + ms - ClockModulus
      /\ held < ClockModulus /\ longer \in Nat
  <2>1. Held \in Clock
    BY ElapsedType DEF LoopInv, Types, Chord, Held
  <2>2. held < ClockModulus
    BY <1>6, <2>1, Times DEF Clock
  <2>3. longer = IF held + ms < ClockModulus THEN held + ms
                 ELSE held + ms - ClockModulus
    BY <1>1, <1>4, <1>6
  <2>4. QED
    BY <1>1, <2>2, <2>3, Times
<1>10. age \in Nat /\ (chord.start = 0 => age = 0)
  BY <1>8, <1>9
<1>11. age <= m \/ m = GripCap
  <2>1. CASE chord.start = 0
    BY <1>10, <2>1
  <2>2. CASE chord.start # 0
    <3>1. grip.on /\ (held <= before \/ before = GripCap)
      BY <1>5, <1>6, <2>2 DEF ChordInv
    <3>2. m <= GripCap /\ (m = GripCap \/ m = before + ms)
      BY <1>2, <1>3, <1>5, <3>1
    <3>3. age = longer
      BY <1>8, <2>2
    <3>4. QED
      BY <1>1, <1>9, <3>1, <3>2, <3>3, GripCapIsLong, Times
  <2>3. QED
    BY <2>1, <2>2
<1>12. ASSUME GripNow(ms).steady, state # "ESTOP", ~chord.acted
       PROVE  /\ m <= age + MaxPassMs
              /\ chord.start = 0 /\ now' = 0 => m = 0
  <2>1. CASE ~grip.on
    <3>1. m = 0
      BY <1>2, <1>3, <2>1
    <3>2. QED
      BY <1>10, <3>1, Times
  <2>2. CASE grip.on
    <3>1. IF chord.start = 0 THEN now = 0 /\ before = 0
          ELSE held < StopHoldMs /\ before <= held + MaxPassMs
      BY <1>2, <1>5, <1>6, <1>12, <2>2 DEF ChordInv
    <3>2. m <= before + ms
      BY <1>2, <1>3, <1>5, <2>2
    <3>3. CASE chord.start = 0
      <4>1. age = 0 /\ m <= ms
        BY <1>1, <1>10, <3>1, <3>2, <3>3
      <4>2. now' = ms
        <5>1. now' = (now + ms) % ClockModulus /\ now \in Clock
          BY DEF HandleButtons, LoopInv, Types
        <5>2. ms < ClockModulus
          BY <1>1, Times
        <5>3. now' = IF now + ms < ClockModulus THEN now + ms
                     ELSE now + ms - ClockModulus
          BY <1>1, <5>1, <5>2, SumWraps
        <5>4. QED
          BY <1>1, <3>1, <3>3, <5>2, <5>3
      <4>3. QED
        BY <1>1, <4>1, <4>2, Times
    <3>4. CASE chord.start # 0
      <4>1. age = longer /\ longer = held + ms
        BY <1>1, <1>8, <1>9, <3>1, <3>4, Times
      <4>2. before <= held + MaxPassMs
        BY <3>1, <3>4
      <4>3. m <= age + MaxPassMs
        BY <1>1, <3>2, <4>1, <4>2, Times
      <4>4. QED
        BY <3>4, <4>3
    <3>5. QED
      BY <3>3, <3>4
  <2>3. QED
    BY <2>1, <2>2
<1>13. QED
  BY <1>3, <1>7, <1>10, <1>11, <1>12

LEMMA BothButtonsKeepChord ==
  ASSUME LoopInv, ChordInv, StopHoldMs > 0, NEW ms \in PassMs,
         HandleButtons(ms, {"A", "B"}), Looked(ms, {"A", "B"})
  PROVE  ChordInv'
<1> DEFINE g == GripNow(ms)
           age == GripAge
<1>1. BothButtons /\ grip' = Acted(g)
  BY DEF HandleButtons, Looked, GripNow
<1>2. chord \in Chord /\ now' \in Clock
  BY ButtonsAges DEF LoopInv, Types
<1>3. /\ g \in GripTypes /\ g.on /\ g.act = grip.act /\ g.ms \in Nat
      /\ age \in Nat /\ (age <= g.ms \/ g.ms = GripCap)
      /\ chord.start = 0 => age = 0
      /\ g.steady /\ state # "ESTOP" /\ ~chord.acted =>
           /\ g.ms <= age + MaxPassMs
           /\ chord.start = 0 /\ now' = 0 => g.ms = 0
  <2>1. ms \in Nat
    BY LongestPass
  <2>2. QED
    BY <2>1, GripAges, GripNowType
<1>4. /\ Grip.start = IF chord.start = 0 THEN now' ELSE chord.start
      /\ chord.start # 0 => Grip = chord
      /\ chord.start = 0 => ~Grip.acted
  BY <1>2, GripType
<1>5. /\ chord' \in Chord /\ chord'.start = Grip.start
      /\ chord'.acted = (Grip.acted \/ StopDue \/ ResetDue)
  BY <1>1, <1>2, BothButtonsChord
<1>6. Held' = age
  BY <1>5 DEF Held, GripAge
<1>7. (Grip.acted <=> chord.acted) /\ (chord.acted => chord.start # 0)
  BY <1>4 DEF ChordInv
<1> HIDE DEF g
<1>8. CASE StopDue
  <2>1. /\ state # "ESTOP" /\ state' = "ESTOP" /\ ~Grip.acted
        /\ age >= StopHoldMs
    BY <1>1, <1>8 DEF StopDue, ResetDue, HeldFor, BothButtons, Halt, GripAge
  <2>2. chord.start # 0 /\ chord'.start # 0
    BY <1>3, <1>4, <1>5, <2>1, Times
  <2>3. g.act = "none"
    BY <1>3, <1>7, <2>1 DEF ChordInv
  <2>4. g.ms >= StopHoldMs
    BY <1>3, <2>1, GripCapIsLong, Times
  <2>5. grip' = [g EXCEPT !.act = "stop"]
    BY <1>1, <1>3, <2>1, <2>3, <2>4, ActedCases
  <2>6. /\ grip' \in GripTypes /\ grip'.on /\ grip'.ms = g.ms
        /\ grip'.act = "stop"
    BY <1>3, <2>5 DEF GripTypes
  <2>7. chord'.acted
    BY <1>5, <1>8
  <2>8. QED
    BY <1>3, <1>6, <2>1, <2>2, <2>6, <2>7 DEF ChordInv
<1>9. CASE ResetDue
  <2>1. /\ state = "ESTOP" /\ ~Grip.acted /\ age >= ResetHoldMs
        /\ state' = "DISARMED" \/ state' = state
    BY <1>1, <1>9 DEF StopDue, ResetDue, HeldFor, BothButtons, robotVars, GripAge
  <2>2. chord.start # 0 /\ chord'.start # 0
    BY <1>3, <1>4, <1>5, <2>1, Times
  <2>3. g.act = "none"
    BY <1>3, <1>7, <2>1 DEF ChordInv
  <2>4. g.ms >= ResetHoldMs
    BY <1>3, <2>1, GripCapIsLong, Times
  <2>5. /\ grip' \in GripTypes /\ grip'.on /\ grip'.ms = g.ms
        /\ IF state' = "DISARMED" THEN grip'.act = "reset"
           ELSE grip'.act = "none" /\ state' = "ESTOP"
    <3>1. CASE state' = "DISARMED"
      <4>1. grip' = [g EXCEPT !.act = "reset"]
        BY <1>1, <1>3, <2>1, <2>3, <2>4, <3>1, ActedCases
      <4>2. QED
        BY <1>3, <3>1, <4>1 DEF GripTypes
    <3>2. CASE state' # "DISARMED"
      <4>1. state' = "ESTOP" /\ grip' = g
        BY <1>1, <1>3, <2>1, <3>2, ActedCases
      <4>2. QED
        BY <1>3, <2>3, <3>2, <4>1
    <3>3. QED
      BY <3>1, <3>2
  <2>6. chord'.acted
    BY <1>5, <1>9
  <2>7. QED
    BY <1>3, <1>6, <2>2, <2>5, <2>6 DEF ChordInv
<1>10. CASE ~StopDue /\ ~ResetDue
  <2>1. state' = state /\ grip' = g
    <3>1. state' = state
      BY <1>1, <1>10 DEF BothButtons, robotVars
    <3>2. QED
      BY <1>1, <1>3, <3>1, ActedCases
  <2>2. chord'.acted = chord.acted
    <3>1. chord.acted \in BOOLEAN
      BY <1>2 DEF Chord
    <3>2. QED
      BY <1>5, <1>7, <1>10, <3>1
  <2>3. chord'.acted => chord'.start # 0
    BY <1>4, <1>5, <1>7, <2>2
  <2>4. state' = "ESTOP" \/ chord'.acted \/ age < StopHoldMs
    <3>1. CASE state # "ESTOP" /\ ~Grip.acted
      <4>1. ~(age >= StopHoldMs)
        BY <1>10, <3>1 DEF StopDue, HeldFor, GripAge
      <4>2. QED
        BY <1>3, <4>1, Times
    <3>2. QED
      BY <1>7, <2>1, <2>2, <3>1
  <2>5. grip'.steady /\ state' # "ESTOP" /\ ~chord'.acted =>
          IF chord'.start = 0 THEN now' = 0 /\ grip'.ms = 0
          ELSE Held' < StopHoldMs /\ grip'.ms <= Held' + MaxPassMs
    BY <1>3, <1>4, <1>5, <1>6, <2>1, <2>2, <2>4
  <2>6. /\ grip'.act # "none" => chord'.acted
        /\ chord'.acted => state' = "ESTOP" \/ grip'.act = "reset"
    BY <1>3, <2>1, <2>2 DEF ChordInv
  <2>7. QED
    BY <1>3, <1>6, <2>1, <2>3, <2>5, <2>6 DEF ChordInv
<1>11. QED
  BY <1>8, <1>9, <1>10


\* A command, and the rest of a pass, leave an emergency stop alone.
LEMMA OtherKeepsEstop ==
  ASSUME LoopOther, BootInv, state = "ESTOP"
  PROVE  state' = "ESTOP"
<1>1. CASE BootGoesOn
  BY <1>1 DEF BootGoesOn, BootInv
<1>2. CASE BootEnds
  BY <1>2 DEF BootEnds, BootInv
<1>3. CASE RobotUpdate
  BY <1>3 DEF RobotUpdate
<1>4. Commanded => state' = "ESTOP"
  BY DEF Commanded, Arm, Disarm, Stop, Unlock, Lock, Move, MayTest, robotVars
<1>5. TestWheel => state' = "ESTOP"
  BY DEF TestWheel
<1>6. CASE RemoteCommand
  BY <1>4, <1>6, RemoteDoes
<1>7. CASE ReceiveEnd
  BY <1>4, <1>5, <1>7, ExecuteDoes DEF ReceiveEnd, robotVars
<1>8. CASE RemoteDone \/ SerialDone \/ \E line \in Lines : ReceiveWord(line)
  BY <1>8 DEF RemoteDone, SerialDone, ReceiveWord, robotVars
<1>9. QED
  BY <1>1, <1>2, <1>3, <1>6, <1>7, <1>8 DEF LoopOther

LEMMA OtherLeavesChord ==
  ASSUME LoopOther
  PROVE  now' = now /\ chord' = chord
BY DEF LoopOther, BootGoesOn, BootEnds, RobotUpdate, RemoteCommand, RemoteDone,
       ReceiveEnd, SerialDone, ReceiveWord

LEMMA OtherKeepsChord ==
  ASSUME ChordInv, BootInv, LoopOther, grip' = grip
  PROVE  ChordInv'
<1>1. now' = now /\ chord' = chord
  BY OtherLeavesChord
<1>2. state = "ESTOP" => state' = "ESTOP"
  BY OtherKeepsEstop
<1>3. CASE BootEnds
  <2>1. chord.acted => grip.act = "reset"
    BY <1>3 DEF BootEnds, BootInv, ChordInv
  <2>2. Held' = Held
    BY <1>1 DEF Held
  <2>3. state # "ESTOP"
    BY <1>3 DEF BootEnds, BootInv
  <2>4. QED
    BY <1>1, <2>1, <2>2, <2>3 DEF ChordInv
<1>4. CASE ~BootEnds
  <2>1. Held' = Held
    BY <1>1 DEF Held
  <2>2. QED
    BY <1>1, <1>2, <2>1 DEF ChordInv
<1>5. QED
  BY <1>3, <1>4

LEMMA MCStepIsStep ==
  ASSUME MCNext
  PROVE  Next
BY DEF MCNext, Next

LEMMA ChordStep ==
  ASSUME LoopInv, BootInv, ChordInv, BootShort, [MCNext]_mcVars
  PROVE  LoopInv' /\ BootInv' /\ ChordInv'
<1>1. CASE UNCHANGED mcVars
  <2>1. UNCHANGED <<vars, grip>>
    BY <1>1 DEF mcVars
  <2>2. LoopInv'
    BY <2>1, NextKeepsLoop DEF vars
  <2>3. BootInv'
    BY <2>1 DEF vars, robotVars, BootInv, InBoot, PhaseAge, BootAge, Held
  <2>4. ChordInv'
    BY <2>1 DEF vars, robotVars, ChordInv, Held
  <2>5. QED
    BY <2>2, <2>3, <2>4
<1>2. CASE MCNext
  <2>1. LoopInv'
    BY <1>2, MCStepIsStep, NextKeepsLoop
  <2>2. ASSUME NEW ms \in PassMs, NEW down \in SUBSET {"A", "B"},
               HandleButtons(ms, down), Looked(ms, down)
        PROVE  BootInv' /\ ChordInv'
    <3>1. BootInv'
      BY <2>2, ButtonsKeepBoot
    <3>2. StopHoldMs > 0
      BY Times DEF BootShort
    <3>3. ChordInv'
      BY <2>2, <3>2, OneButtonKeepsChord, BothButtonsKeepChord
    <3>4. QED
      BY <3>1, <3>3
  <2>3. ASSUME LoopOther, grip' = grip
        PROVE  BootInv' /\ ChordInv'
    <3>1. BootInv'
      BY <2>3, OtherKeepsBoot
    <3>2. ChordInv'
      BY <2>3, OtherKeepsChord
    <3>3. QED
      BY <3>1, <3>2
  <2>4. QED
    BY <1>2, <2>1, <2>2, <2>3 DEF MCNext
<1>3. QED
  BY <1>1, <1>2

LEMMA ChordGivesProperty ==
  ASSUME LoopInv, BootInv, ChordInv, StopHoldMs > 0
  PROVE  ChordActs
<1>1. grip.act \in {"none", "stop", "reset"} /\ grip.ms \in Nat
  BY GripCapIsLong DEF ChordInv, GripTypes
<1>2. ASSUME grip.steady, grip.ms >= StopHoldMs + MaxPassMs, state # "ESTOP"
      PROVE  grip.act = "reset"
  <2>1. CASE chord.acted
    BY <1>2, <2>1 DEF ChordInv
  <2>2. CASE ~chord.acted
    <3>1. \/ grip.ms = 0
          \/ Held < StopHoldMs /\ grip.ms <= Held + MaxPassMs
      BY <1>2, <2>2 DEF ChordInv
    <3>2. Held \in Nat
      BY Ages
    <3>3. QED
      BY <1>1, <1>2, <3>1, <3>2, Times
  <2>3. QED
    BY <2>1, <2>2
<1>3. InBoot => state = "BOOT"
  BY DEF BootInv
<1>4. QED
  BY <1>1, <1>2, <1>3 DEF ChordActs, InBoot

\* A grip on both buttons acts once, in time, and never before the boot is over
\* (handleButtons, BootDiagnostics::update), when the boot is shorter than the
\* hold that stops the robot.
THEOREM ChordsActOnce ==
  ASSUME BootShort
  PROVE  MCSpec => []ChordActs
<1>1. StopHoldMs > 0
  BY Times DEF BootShort
<1>2. MCInit => LoopInv /\ BootInv /\ ChordInv
  BY InitLoop, InitBoot, InitChord DEF MCInit
<1>3. LoopInv /\ BootInv /\ ChordInv /\ [MCNext]_mcVars
        => LoopInv' /\ BootInv' /\ ChordInv'
  BY ChordStep
<1>4. LoopInv /\ BootInv /\ ChordInv => ChordActs
  BY <1>1, ChordGivesProperty
<1>5. QED
  BY <1>2, <1>3, <1>4, PTL DEF MCSpec

-----------------------------------------------------------------------------
(* The wheels.  A drive command counts down to its deadline, and a wheel     *)
(* test is as old as its unlock, or younger.                                 *)

Left == Elapsed(drive.stopAtMs, now)

CountsDown ==
  1 <= Left /\ Left <= SafeDriveTimeMs /\ driveMs + Left <= SafeDriveTimeMs

\* Between the pass that steps over the deadline and update().
Due ==
  at = "robot" /\ DriveOver /\ driveMs < SafeDriveTimeMs + MaxPassMs

DriveInv ==
  /\ driveMs \in Nat
  /\ "drive" \notin wheels => driveMs = 0
  /\ "drive" \in wheels => drive.moving
  /\ "drive" \in wheels /\ ~DeadlineLost => CountsDown \/ Due

TestAge == Elapsed(now, bench.unlockedMs)

TestInv ==
  /\ testMs \in Nat
  /\ "test" \in wheels =>
       /\ bench.unlocked = TRUE /\ bench.testing = TRUE
       /\ testMs <= TestAge
       /\ IF at = "robot" THEN TestAge <= TestTimeoutMs + MaxPassMs
          ELSE TestAge <= TestTimeoutMs

\* Nothing turns before the boot is over.
Asleep ==
  /\ at = "boot" => InBoot
  /\ InBoot => at \in {"buttons", "boot"} /\ wheels = {}

LEMMA InitWheels ==
  ASSUME MCInit
  PROVE  Asleep /\ DriveInv /\ TestInv
BY DEF MCInit, Init, Asleep, InBoot, DriveInv, TestInv

LEMMA ButtonsKeepAsleep ==
  ASSUME Asleep, NEW ms \in PassMs, NEW down, HandleButtons(ms, down)
  PROVE  /\ Asleep' /\ at = "buttons" /\ wheels' \subseteq wheels
         /\ wheels' # {} => at' = "robot" /\ drive' = drive /\ bench' = bench
<1>1. /\ at = "buttons" /\ boot' = boot
      /\ at' = IF InBoot THEN "boot" ELSE "robot"
  BY DEF HandleButtons, InBoot
<1>2. \/ wheels' = {}
      \/ wheels' = wheels /\ drive' = drive /\ bench' = bench
  BY DEF HandleButtons, BothButtons, OneButtonOrNone, Halt, Stop, StopDrive,
         robotVars
<1>3. QED
  BY <1>1, <1>2 DEF Asleep, InBoot

LEMMA OtherKeepsAsleep ==
  ASSUME Asleep, LoopOther
  PROVE  Asleep'
<1>1. CASE BootGoesOn
  <2>1. at' = "buttons" /\ (wheels' = {} \/ wheels' = wheels)
    BY <1>1 DEF BootGoesOn, Stop, StopDrive, robotVars
  <2>2. wheels = {}
    BY <1>1 DEF BootGoesOn, Asleep
  <2>3. QED
    BY <2>1, <2>2 DEF Asleep
<1>2. CASE BootEnds
  BY <1>2 DEF BootEnds, Asleep, InBoot
<1>3. CASE AfterBoot
  BY <1>3, AfterBootLeaves DEF Asleep, InBoot
<1>4. QED
  BY <1>1, <1>2, <1>3 DEF LoopOther, AfterBoot

\* What is left of a duration that begins now.
LEMMA DurationLeft ==
  ASSUME now \in Clock, NEW ms \in Nat, ms < ClockModulus
  PROVE  Elapsed((now + ms) % ClockModulus, now) = ms
<1>1. Elapsed(now, now) = 0
  BY ElapsedFromSelf
<1>2. Elapsed((now + ms) % ClockModulus, now) =
        IF 0 + ms < ClockModulus THEN 0 + ms ELSE 0 + ms - ClockModulus
  BY <1>1, PassElapses
<1>3. QED
  BY <1>2, Times

\* A deadline that is not lost is seen to pass by a plain comparison.
LEMMA DeadlineSeen ==
  ASSUME NEW t \in Clock, NEW ms \in Nat, ms <= MaxPassMs, NEW stop \in Clock,
         stop > 0, stop <= ClockModulus - MaxPassMs,
         Elapsed(stop, t) <= ms, 1 <= Elapsed(stop, t)
  PROVE  (t + ms) % ClockModulus >= stop
<1>1. Elapsed(stop, t) = IF t <= stop THEN stop - t ELSE stop - t + ClockModulus
  BY ElapsedWraps
<1>2. ms < ClockModulus
  BY Times
<1>3. (t + ms) % ClockModulus
        = IF t + ms < ClockModulus THEN t + ms ELSE t + ms - ClockModulus
  BY <1>2, SumWraps
<1>4. t \in Nat /\ stop \in Nat /\ t < ClockModulus
  BY Times DEF Clock
<1>5. QED
  BY <1>1, <1>3, <1>4, Times

\* Time passes; the deadline that is not lost stays ahead by less.
LEMMA LeftShrinks ==
  ASSUME NEW t \in Clock, NEW ms \in Nat, ms < ClockModulus, NEW stop \in Clock,
         ms < Elapsed(stop, t)
  PROVE  Elapsed(stop, (t + ms) % ClockModulus) = Elapsed(stop, t) - ms
<1> DEFINE s == (t + ms) % ClockModulus
<1>1. Elapsed(stop, t) = IF t <= stop THEN stop - t ELSE stop - t + ClockModulus
  BY ElapsedWraps
<1>2. s = IF t + ms < ClockModulus THEN t + ms ELSE t + ms - ClockModulus
  BY SumWraps
<1>3. s \in Clock
  BY SumWraps
<1> HIDE DEF s
<1>4. Elapsed(stop, s) = IF s <= stop THEN stop - s ELSE stop - s + ClockModulus
  BY <1>3, ElapsedWraps
<1>5. /\ t \in Nat /\ stop \in Nat /\ s \in Nat
      /\ t < ClockModulus /\ stop < ClockModulus /\ s < ClockModulus
  BY <1>3, Times DEF Clock
<1>6. Elapsed(stop, s) = Elapsed(stop, t) - ms
  BY <1>1, <1>2, <1>4, <1>5, Times
<1>7. QED
  BY <1>6 DEF s

LEMMA DriveTypes ==
  ASSUME LoopInv
  PROVE  /\ now \in Clock /\ drive.stopAtMs \in Clock
         /\ drive.stopAtMs \in Nat /\ Left \in Nat
<1>1. now \in Clock /\ drive.stopAtMs \in Clock
  BY DEF LoopInv, Types, RobotTypes
<1>2. drive.stopAtMs \in Nat
  BY <1>1, Times DEF Clock
<1>3. Left \in Nat
  BY <1>1, ElapsedType DEF Left
<1>4. QED
  BY <1>1, <1>2, <1>3

\* A look at the buttons takes the length of the pass from what is left.
LEMMA ButtonsKeepDrive ==
  ASSUME LoopInv, Asleep, DriveInv, NEW ms \in PassMs, NEW down,
         HandleButtons(ms, down), Looked(ms, down)
  PROVE  DriveInv'
<1>1. ms \in Nat /\ ms <= MaxPassMs /\ ms < ClockModulus
  BY LongestPass, Times
<1>2. /\ at = "buttons" /\ wheels' \subseteq wheels
      /\ wheels' # {} => at' = "robot" /\ drive' = drive
  BY ButtonsKeepAsleep
<1>3. driveMs' = IF "drive" \in wheels'
                 THEN Later(driveMs, ms, SafeDriveTimeMs + MaxPassMs) ELSE 0
  BY DEF Looked
<1>4. CASE "drive" \notin wheels'
  BY <1>3, <1>4 DEF DriveInv
<1>5. CASE "drive" \in wheels'
  <2>1. /\ "drive" \in wheels /\ at' = "robot" /\ drive' = drive
        /\ drive.moving
    BY <1>2, <1>5 DEF DriveInv
  <2>2. driveMs' = Later(driveMs, ms, SafeDriveTimeMs + MaxPassMs)
    BY <1>3, <1>5
  <2>3. /\ driveMs' \in Nat /\ driveMs' <= driveMs + ms
    <3>1. driveMs \in Nat /\ SafeDriveTimeMs + MaxPassMs \in Nat
      BY Times DEF DriveInv
    <3>2. PICK cap \in Nat : cap = SafeDriveTimeMs + MaxPassMs
      BY <3>1
    <3>3. driveMs' = Later(driveMs, ms, cap)
      BY <2>2, <3>2
    <3>4. QED
      BY <1>1, <3>1, <3>3 DEF Later
  <2>4. DeadlineLost' <=> DeadlineLost
    BY <2>1 DEF DeadlineLost
  <2>5. ASSUME ~DeadlineLost
        PROVE  (CountsDown \/ Due)'
    <3>1. CountsDown
      BY <1>2, <2>1, <2>5 DEF DriveInv, Due
    <3>2. /\ Left \in Nat /\ 1 <= Left /\ Left <= SafeDriveTimeMs
          /\ driveMs + Left <= SafeDriveTimeMs /\ driveMs \in Nat
      BY <3>1, DriveTypes DEF CountsDown, DriveInv
    <3>3. /\ now' = (now + ms) % ClockModulus
          /\ now \in Clock /\ drive.stopAtMs \in Clock
      BY DriveTypes DEF HandleButtons
    <3>4. CASE ms < Left
      <4>1. Left' = Left - ms
        BY <1>1, <2>1, <3>3, <3>4, LeftShrinks DEF Left
      <4>2. PICK left \in Nat : left = Left
        BY <3>2
      <4>3. PICK after \in Nat : after = driveMs'
        BY <2>3
      <4>4. /\ 1 <= left - ms /\ left - ms <= SafeDriveTimeMs
            /\ after + (left - ms) <= SafeDriveTimeMs
        <5>1. PICK before \in Nat : before = driveMs
          BY <3>2
        <5>2. /\ ms < left /\ left <= SafeDriveTimeMs /\ after <= before + ms
              /\ before + left <= SafeDriveTimeMs /\ SafeDriveTimeMs \in Nat
          BY <2>3, <3>2, <3>4, <4>2, <4>3, <5>1, Times
        <5>3. QED
          BY <1>1, <5>2
      <4>5. /\ 1 <= Left' /\ Left' <= SafeDriveTimeMs
            /\ driveMs' + Left' <= SafeDriveTimeMs
        BY <4>1, <4>2, <4>3, <4>4
      <4>6. CountsDown'
        BY <4>5 DEF CountsDown
      <4>7. QED
        BY <4>6
    <3>5. CASE ~(ms < Left)
      <4>1. Left <= ms
        BY <1>1, <3>2, <3>5
      <4>2. drive.stopAtMs > 0 /\ drive.stopAtMs <= ClockModulus - MaxPassMs
        BY <2>5, DriveTypes, Times DEF DeadlineLost
      <4>3. now' >= drive.stopAtMs
        BY <1>1, <3>2, <3>3, <4>1, <4>2, DeadlineSeen DEF Left
      <4>4. DriveOver'
        BY <2>1, <4>2, <4>3 DEF DriveOver
      <4>5. driveMs' < SafeDriveTimeMs + MaxPassMs
        BY <1>1, <2>3, <3>2, Times
      <4>6. Due'
        BY <2>1, <4>4, <4>5 DEF Due
      <4>7. QED
        BY <4>6
    <3>6. QED
      BY <3>4, <3>5
  <2>6. QED
    BY <1>5, <2>1, <2>3, <2>4, <2>5 DEF DriveInv
<1>6. QED
  BY <1>4, <1>5

\* What the history makes of a step that takes no time.
DriveCounted ==
  driveMs' = IF DriveAsked \/ "drive" \notin wheels' THEN 0 ELSE driveMs

\* The wheels go on as they were, or stop.
LEMMA SameDriveKeeps ==
  ASSUME DriveInv, DriveCounted, drive' = drive, now' = now,
         "drive" \in wheels' => "drive" \in wheels /\ (~DriveOver \/ at # "robot"),
         at' # "robot" \/ wheels = {}
  PROVE  DriveInv'
<1>1. ~DriveAsked
  BY DEF DriveAsked
<1>2. driveMs' = IF "drive" \notin wheels' THEN 0 ELSE driveMs
  BY <1>1 DEF DriveCounted
<1>3. CASE "drive" \notin wheels'
  BY <1>2, <1>3 DEF DriveInv
<1>4. CASE "drive" \in wheels'
  <2>1. "drive" \in wheels /\ driveMs' = driveMs /\ ~Due
    BY <1>2, <1>4 DEF Due
  <2>2. (DeadlineLost' <=> DeadlineLost) /\ Left' = Left
    BY DEF DeadlineLost, Left
  <2>3. CountsDown => CountsDown'
    BY <2>1, <2>2 DEF CountsDown
  <2>4. QED
    BY <1>4, <2>1, <2>2, <2>3 DEF DriveInv
<1>5. QED
  BY <1>3, <1>4

LEMMA StoppedDriveKeeps ==
  ASSUME DriveCounted, wheels' = {}
  PROVE  DriveInv'
BY DEF DriveCounted, DriveInv

\* A new command has the whole of its duration left, and the same command
\* leaves the old one as it was.
LEMMA NewDriveKeeps ==
  ASSUME LoopInv, DriveInv, DriveCounted, SafeDriveTimeMs > 0, at # "robot",
         now' = now, NEW durationMs, Drive(durationMs)
  PROVE  DriveInv'
<1>1. /\ BoundedMs(durationMs) \in Nat
      /\ BoundedMs(durationMs) <= SafeDriveTimeMs
      /\ BoundedMs(durationMs) < ClockModulus
      /\ BoundedMs(durationMs) > 0
  BY BoundedDuration
<1>2. PICK d \in Nat : d = BoundedMs(durationMs)
  BY <1>1
<1>3. /\ wheels' = wheels \cup {"drive"}
      /\ drive'.moving /\ drive'.stopAtMs = (now + d) % ClockModulus
  BY <1>2, DriveTypes, DriveDoes
<1>4. Left' = d
  BY <1>1, <1>2, <1>3, DriveTypes, DurationLeft DEF Left
<1>5. 1 <= d /\ d <= SafeDriveTimeMs
  BY <1>1, <1>2
<1>6. driveMs \in Nat
  BY DEF DriveInv
<1>7. driveMs' = 0 \/ (~DriveAsked /\ driveMs' = driveMs)
  <2>1. "drive" \in wheels'
    BY <1>3
  <2>2. CASE DriveAsked
    BY <2>2 DEF DriveCounted
  <2>3. CASE ~DriveAsked
    BY <2>1, <2>3 DEF DriveCounted
  <2>4. QED
    BY <2>2, <2>3
<1>8. CASE driveMs' = 0
  <2>1. CountsDown'
    BY <1>4, <1>5, <1>8, Times DEF CountsDown
  <2>2. QED
    BY <1>3, <1>8, <2>1 DEF DriveInv
<1>9. CASE driveMs' = driveMs /\ ~DriveAsked /\ driveMs # 0
  <2>1. drive.stopAtMs = drive'.stopAtMs /\ "drive" \in wheels
    BY <1>3, <1>9 DEF DriveAsked, DriveInv
  <2>2. (DeadlineLost' <=> DeadlineLost) /\ Left' = Left
    BY <2>1 DEF DeadlineLost, Left
  <2>3. CountsDown => CountsDown'
    BY <1>9, <2>2 DEF CountsDown
  <2>4. QED
    BY <1>3, <1>6, <1>9, <2>1, <2>2, <2>3 DEF DriveInv, Due
<1>10. QED
  BY <1>7, <1>8, <1>9

LEMMA CommandKeepsDrive ==
  ASSUME LoopInv, DriveInv, DriveCounted, SafeDriveTimeMs > 0,
         at # "robot", at' = at, now' = now, Commanded \/ TestWheel
  PROVE  DriveInv'
<1>1. CASE /\ drive' = drive
           /\ "drive" \in wheels' => "drive" \in wheels
  BY <1>1, SameDriveKeeps
<1>2. CASE wheels' = {}
  BY <1>2, StoppedDriveKeeps
<1>3. CASE \E durationMs : Drive(durationMs)
  BY <1>3, NewDriveKeeps
<1>4. \/ /\ drive' = drive
         /\ "drive" \in wheels' => "drive" \in wheels
      \/ wheels' = {}
      \/ \E durationMs : Drive(durationMs)
  BY DEF Commanded, TestWheel, Arm, Disarm, Stop, Unlock, Lock, Move, Halt,
         StopDrive, robotVars
<1>5. QED
  BY <1>1, <1>2, <1>3, <1>4

LEMMA OtherKeepsDrive ==
  ASSUME LoopInv, Asleep, DriveInv, DriveCounted, SafeDriveTimeMs > 0, LoopOther
  PROVE  DriveInv'
<1>1. now' = now
  BY OtherLeavesChord
<1>2. CASE BootGoesOn \/ BootEnds
  <2>1. wheels' = {}
    BY <1>2 DEF BootGoesOn, BootEnds, Asleep, Stop, StopDrive, robotVars
  <2>2. QED
    BY <2>1, StoppedDriveKeeps
<1>3. CASE RobotUpdate
  <2>1. CASE wheels' = {}
    BY <2>1, StoppedDriveKeeps
  <2>2. CASE /\ ~DriveOver /\ drive' = drive
             /\ "drive" \in wheels' => "drive" \in wheels
    <3>1. at' # "robot"
      BY <1>3 DEF RobotUpdate
    <3>2. QED
      BY <1>1, <2>2, <3>1, SameDriveKeeps
  <2>3. QED
    BY <1>3, <2>1, <2>2 DEF RobotUpdate, Halt, StopDrive
<1>4. CASE RemoteCommand
  <2>1. at # "robot" /\ at' = at /\ Commanded
    BY <1>4, RemoteDoes DEF RemoteCommand
  <2>2. QED
    BY <1>1, <2>1, CommandKeepsDrive
<1>5. CASE ReceiveEnd
  <2>1. at # "robot" /\ at' = at
    BY <1>5 DEF ReceiveEnd
  <2>2. Commanded \/ TestWheel
    BY <1>5, ExecuteDoes DEF ReceiveEnd, Commanded
  <2>3. QED
    BY <1>1, <2>1, <2>2, CommandKeepsDrive
<1>6. CASE RemoteDone \/ SerialDone \/ \E line \in Lines : ReceiveWord(line)
  <2>1. /\ at # "robot" /\ at' # "robot" /\ drive' = drive /\ wheels' = wheels
    BY <1>6 DEF RemoteDone, SerialDone, ReceiveWord, robotVars
  <2>2. QED
    BY <1>1, <2>1, SameDriveKeeps
<1>7. QED
  BY <1>2, <1>3, <1>4, <1>5, <1>6 DEF LoopOther

TestCounted ==
  testMs' = IF TestAsked \/ "test" \notin wheels' THEN 0 ELSE testMs

LEMMA TestTypesNow ==
  ASSUME LoopInv
  PROVE  now \in Clock /\ bench.unlockedMs \in Clock /\ TestAge \in Nat
<1>1. now \in Clock /\ bench.unlockedMs \in Clock
  BY DEF LoopInv, Types, RobotTypes
<1>2. QED
  BY <1>1, ElapsedType DEF TestAge

LEMMA ButtonsKeepTest ==
  ASSUME LoopInv, Asleep, TestInv, NEW ms \in PassMs, NEW down,
         HandleButtons(ms, down), Looked(ms, down)
  PROVE  TestInv'
<1>1. ms \in Nat /\ ms <= MaxPassMs /\ ms < ClockModulus
  BY LongestPass, Times
<1>2. /\ at = "buttons" /\ wheels' \subseteq wheels
      /\ wheels' # {} => at' = "robot" /\ bench' = bench
  BY ButtonsKeepAsleep
<1>3. testMs' = IF "test" \in wheels'
                THEN Later(testMs, ms, TestTimeoutMs + MaxPassMs + 1) ELSE 0
  BY DEF Looked
<1>4. CASE "test" \notin wheels'
  BY <1>3, <1>4 DEF TestInv
<1>5. CASE "test" \in wheels'
  <2>1. "test" \in wheels /\ at' = "robot" /\ bench' = bench
    BY <1>2, <1>5
  <2>2. /\ bench.unlocked = TRUE /\ bench.testing = TRUE /\ testMs \in Nat
        /\ testMs <= TestAge /\ TestAge <= TestTimeoutMs
    BY <1>2, <2>1 DEF TestInv
  <2>3. PICK age \in Nat : age = TestAge
    BY TestTypesNow
  <2>4. testMs' \in Nat /\ testMs' <= testMs + ms
    <3>1. PICK cap \in Nat : cap = TestTimeoutMs + MaxPassMs + 1
      BY Times
    <3>2. testMs' = Later(testMs, ms, cap)
      BY <1>3, <1>5, <3>1
    <3>3. QED
      BY <1>1, <2>2, <3>2 DEF Later
  <2>5. TestAge' = age + ms
    <3>1. now' = (now + ms) % ClockModulus
      BY DEF HandleButtons
    <3>2. TestAge' = IF TestAge + ms < ClockModulus THEN TestAge + ms
                     ELSE TestAge + ms - ClockModulus
      BY <1>1, <2>1, <3>1, TestTypesNow, PassElapses DEF TestAge
    <3>3. age + ms < ClockModulus
      BY <1>1, <2>2, <2>3, Times
    <3>4. QED
      BY <2>3, <3>2, <3>3
  <2>6. testMs' <= TestAge' /\ TestAge' <= TestTimeoutMs + MaxPassMs
    <3>1. PICK before \in Nat : before = testMs
      BY <2>2
    <3>2. PICK after \in Nat : after = testMs'
      BY <2>4
    <3>3. before <= age /\ age <= TestTimeoutMs /\ after <= before + ms
      BY <2>2, <2>3, <2>4, <3>1, <3>2
    <3>4. after <= age + ms /\ age + ms <= TestTimeoutMs + MaxPassMs
      BY <1>1, <3>3, Times
    <3>5. QED
      BY <2>5, <3>2, <3>4
  <2>7. QED
    BY <2>1, <2>2, <2>4, <2>6 DEF TestInv
<1>6. QED
  BY <1>4, <1>5

\* The wheels under test go on, or stop.
LEMMA SameTestKeeps ==
  ASSUME LoopInv, TestInv, TestCounted, bench' = bench, now' = now,
         "test" \in wheels' => "test" \in wheels /\ TestAge <= TestTimeoutMs
  PROVE  TestInv'
<1>1. CASE "test" \notin wheels'
  BY <1>1 DEF TestCounted, TestInv
<1>2. CASE "test" \in wheels'
  <2>1. TestAge' = TestAge
    BY DEF TestAge
  <2>2. testMs \in Nat /\ TestAge \in Nat
    BY TestTypesNow DEF TestInv
  <2>3. testMs' = 0 \/ testMs' = testMs
    BY DEF TestCounted
  <2>4. /\ bench.unlocked = TRUE /\ bench.testing = TRUE
        /\ testMs <= TestAge /\ TestAge <= TestTimeoutMs
    BY <1>2 DEF TestInv
  <2>5. /\ testMs' \in Nat /\ testMs' <= TestAge'
        /\ TestAge' <= TestTimeoutMs /\ TestAge' <= TestTimeoutMs + MaxPassMs
    BY <2>1, <2>2, <2>3, <2>4, Times
  <2>6. QED
    BY <2>4, <2>5 DEF TestInv
<1>3. QED
  BY <1>1, <1>2

LEMMA StoppedTestKeeps ==
  ASSUME TestCounted, "test" \notin wheels'
  PROVE  TestInv'
BY DEF TestCounted, TestInv

\* Before update() has looked, the test may be a pass too old; afterwards not.
LEMMA TestInTime ==
  ASSUME TestInv, at # "robot", "test" \in wheels
  PROVE  TestAge <= TestTimeoutMs
BY DEF TestInv

LEMMA CommandKeepsTest ==
  ASSUME LoopInv, TestInv, TestCounted, at # "robot", now' = now, Commanded
  PROVE  TestInv'
<1>1. CASE "test" \notin wheels'
  BY <1>1, StoppedTestKeeps
<1>2. CASE bench' = bench /\ ("test" \in wheels' => "test" \in wheels)
  BY <1>2, SameTestKeeps, TestInTime
<1>3. CASE Lock
  <2>1. "test" \in wheels => "test" \notin wheels'
    BY <1>3 DEF Lock, TestInv
  <2>2. wheels' \subseteq wheels
    BY <1>3 DEF Lock
  <2>3. QED
    BY <1>1, <2>1, <2>2
<1>4. CASE \E durationMs : Drive(durationMs)
  <2>1. wheels' = wheels \cup {"drive"} /\ bench' = bench
    BY <1>4 DEF Drive
  <2>2. QED
    BY <1>2, <2>1
<1>5. \/ "test" \notin wheels'
      \/ bench' = bench /\ ("test" \in wheels' => "test" \in wheels)
      \/ Lock \/ \E durationMs : Drive(durationMs)
  BY DEF Commanded, Arm, Disarm, Stop, Unlock, Move, Halt, StopDrive, robotVars
<1>6. QED
  BY <1>1, <1>2, <1>3, <1>4, <1>5

\* A wheel test renews the deadline, and the age with it.
LEMMA TestWheelKeepsTest ==
  ASSUME LoopInv, TestInv, TestCounted, at # "robot", now' = now,
         TestAsked, TestWheel
  PROVE  TestInv'
<1>1. testMs' = 0
  BY DEF TestCounted
<1>2. CASE "test" \notin wheels'
  BY <1>2, StoppedTestKeeps
<1>3. CASE "test" \in wheels'
  <2>1. bench \in [unlocked: BOOLEAN, unlockedMs: Clock, testing: BOOLEAN]
    BY DEF LoopInv, Types, RobotTypes
  <2>2. bench.unlocked = TRUE
    BY <2>1 DEF TestWheel
  <2>3. /\ bench'.unlocked = TRUE /\ bench'.unlockedMs = now
        /\ bench'.testing = TRUE
    <3>1. CASE bench' = [bench EXCEPT !.unlockedMs = now, !.testing = TRUE]
      BY <2>1, <2>2, <3>1
    <3>2. CASE /\ wheels' \in {wheels, wheels \ {"test"}}
               /\ bench' = [bench EXCEPT !.unlockedMs = now,
                                         !.testing = @ /\ "test" \in wheels']
      <4>1. bench.testing = TRUE
        BY <1>3, <3>2 DEF TestInv
      <4>2. PICK tested \in BOOLEAN : tested = (bench.testing /\ "test" \in wheels')
        OBVIOUS
      <4>3. tested = TRUE
        BY <1>3, <4>1, <4>2
      <4>4. bench' = [bench EXCEPT !.unlockedMs = now, !.testing = tested]
        BY <3>2, <4>2
      <4>5. QED
        BY <2>1, <2>2, <4>3, <4>4
    <3>3. QED
      BY <3>1, <3>2 DEF TestWheel
  <2>4. TestAge' = 0
    BY <2>3, TestTypesNow, ElapsedFromSelf DEF TestAge
  <2>5. QED
    BY <1>1, <2>3, <2>4, Times DEF TestInv
<1>4. QED
  BY <1>2, <1>3

LEMMA OtherKeepsTest ==
  ASSUME LoopInv, Asleep, TestInv, TestCounted, LoopOther
  PROVE  TestInv'
<1>1. now' = now
  BY OtherLeavesChord
<1>2. CASE BootGoesOn \/ BootEnds
  <2>1. wheels' = {}
    BY <1>2 DEF BootGoesOn, BootEnds, Asleep, Stop, StopDrive, robotVars
  <2>2. QED
    BY <2>1, StoppedTestKeeps
<1>3. CASE RobotUpdate
  <2>1. CASE "test" \notin wheels'
    BY <2>1, StoppedTestKeeps
  <2>2. CASE "test" \in wheels'
    <3>1. /\ "test" \in wheels /\ ~(BenchOver /\ bench.testing)
          /\ bench' = IF BenchOver THEN Locked ELSE bench
      BY <1>3, <2>2 DEF RobotUpdate, Halt, StopDrive
    <3>2. bench.unlocked = TRUE /\ bench.testing = TRUE
      BY <3>1 DEF TestInv
    <3>3. ~(TestAge > TestTimeoutMs) /\ bench' = bench
      BY <3>1, <3>2 DEF BenchOver, TestAge
    <3>4. TestAge <= TestTimeoutMs
      BY <3>3, TestTypesNow, Times
    <3>5. QED
      BY <1>1, <3>1, <3>3, <3>4, SameTestKeeps
  <2>3. QED
    BY <2>1, <2>2
<1>4. CASE RemoteCommand
  <2>1. at # "robot" /\ Commanded
    BY <1>4, RemoteDoes DEF RemoteCommand
  <2>2. QED
    BY <1>1, <2>1, CommandKeepsTest
<1>5. CASE ReceiveEnd
  <2>1. at # "robot" /\ LineRead /\ serial' = NothingRead
    BY <1>5 DEF ReceiveEnd
  <2>2. CASE Commanded
    BY <1>1, <2>1, <2>2, CommandKeepsTest
  <2>3. ASSUME NEW command \in Read, command.kind = "SERVO_TEST",
               command.arg1 > 0, TestWheel
        PROVE  TestInv'
    <3>1. TestAsked
      BY <2>1, <2>3 DEF TestAsked, NothingRead
    <3>2. QED
      BY <1>1, <2>1, <2>3, <3>1, TestWheelKeepsTest
  <2>4. QED
    BY <1>5, <2>2, <2>3, ExecuteDoes DEF ReceiveEnd, Commanded
<1>6. CASE RemoteDone \/ SerialDone \/ \E line \in Lines : ReceiveWord(line)
  <2>1. at # "robot" /\ bench' = bench /\ wheels' = wheels
    BY <1>6 DEF RemoteDone, SerialDone, ReceiveWord, robotVars
  <2>2. QED
    BY <1>1, <2>1, SameTestKeeps, TestInTime
<1>7. QED
  BY <1>2, <1>3, <1>4, <1>5, <1>6 DEF LoopOther

WheelsInv == LoopInv /\ Asleep /\ DriveInv /\ TestInv

LEMMA WheelsStep ==
  ASSUME WheelsInv, SafeDriveTimeMs > 0, [MCNext]_mcVars
  PROVE  WheelsInv'
<1>1. LoopInv /\ Asleep /\ DriveInv /\ TestInv
  BY DEF WheelsInv
<1>2. CASE UNCHANGED mcVars
  <2>1. UNCHANGED <<vars, driveMs, testMs>>
    BY <1>2 DEF mcVars
  <2>2. LoopInv'
    BY <1>1, <2>1, NextKeepsLoop DEF vars
  <2>3. Asleep'
    BY <1>1, <2>1 DEF vars, robotVars, Asleep, InBoot
  <2>4. DriveInv'
    BY <1>1, <2>1 DEF vars, robotVars, DriveInv, CountsDown, Due, Left,
                      DeadlineLost, DriveOver
  <2>5. TestInv'
    BY <1>1, <2>1 DEF vars, robotVars, TestInv, TestAge
  <2>6. QED
    BY <2>2, <2>3, <2>4, <2>5 DEF WheelsInv
<1>3. CASE MCNext
  <2>1. LoopInv'
    BY <1>1, <1>3, MCStepIsStep, NextKeepsLoop
  <2>2. ASSUME NEW ms \in PassMs, NEW down,
               HandleButtons(ms, down), Looked(ms, down)
        PROVE  Asleep' /\ DriveInv' /\ TestInv'
    <3>1. Asleep'
      BY <1>1, <2>2, ButtonsKeepAsleep
    <3>2. DriveInv'
      BY <1>1, <2>2, ButtonsKeepDrive
    <3>3. TestInv'
      BY <1>1, <2>2, ButtonsKeepTest
    <3>4. QED
      BY <3>1, <3>2, <3>3
  <2>3. ASSUME LoopOther, DriveCounted, TestCounted
        PROVE  Asleep' /\ DriveInv' /\ TestInv'
    <3>1. Asleep'
      BY <1>1, <2>3, OtherKeepsAsleep
    <3>2. DriveInv'
      BY <1>1, <2>3, OtherKeepsDrive
    <3>3. TestInv'
      BY <1>1, <2>3, OtherKeepsTest
    <3>4. QED
      BY <3>1, <3>2, <3>3
  <2>4. QED
    BY <1>3, <2>1, <2>2, <2>3 DEF MCNext, DriveCounted, TestCounted, WheelsInv
<1>4. QED
  BY <1>2, <1>3

LEMMA WheelsGiveProperty ==
  ASSUME WheelsInv, SafeDriveTimeMs > 0
  PROVE  WheelsEnd
<1>1. LoopInv /\ DriveInv /\ TestInv
  BY DEF WheelsInv
<1>2. ASSUME "drive" \in wheels, ~DeadlineLost
      PROVE  driveMs < SafeDriveTimeMs + MaxPassMs
  <2>1. CountsDown \/ Due
    BY <1>1, <1>2 DEF DriveInv
  <2>2. driveMs \in Nat /\ Left \in Nat
    BY <1>1, DriveTypes DEF DriveInv
  <2>3. QED
    BY <2>1, <2>2, Times DEF CountsDown, Due
<1>3. ASSUME "test" \in wheels
      PROVE  testMs <= TestTimeoutMs + MaxPassMs
  <2>1. testMs \in Nat /\ TestAge \in Nat
    BY <1>1, TestTypesNow DEF TestInv
  <2>2. testMs <= TestAge
    BY <1>1, <1>3 DEF TestInv
  <2>3. TestAge <= TestTimeoutMs \/ TestAge <= TestTimeoutMs + MaxPassMs
    BY <1>1, <1>3 DEF TestInv
  <2>4. QED
    BY <2>1, <2>2, <2>3, Times
<1>4. QED
  BY <1>2, <1>3 DEF WheelsEnd

\* Nobody need stop the wheels (ServoDrive::update, ServoDiagnostics::update),
\* when there is a time that a drive command may last.
THEOREM WheelsStopByThemselves ==
  ASSUME SafeDriveTimeMs > 0
  PROVE  MCSpec => []WheelsEnd
<1>1. MCInit => WheelsInv
  BY InitLoop, InitWheels DEF MCInit, WheelsInv
<1>2. WheelsInv /\ [MCNext]_mcVars => WheelsInv'
  BY WheelsStep
<1>3. WheelsInv => WheelsEnd
  BY WheelsGiveProperty
<1>4. QED
  BY <1>1, <1>2, <1>3, PTL DEF MCSpec

=============================================================================

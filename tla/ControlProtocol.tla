--------------------------- MODULE ControlProtocol ---------------------------
(***************************************************************************)
(* The two dialects of the serial line (ControlProtocol.cpp).  A line, in  *)
(* capitals and without the blanks around it, is a sequence of words: the  *)
(* tokens between its bars ("pipe"), or, when it has no bar, the words     *)
(* between its single blanks ("legacy").  A parser returns the set of the  *)
(* commands a line stands for, which is empty when the line is refused.    *)
(***************************************************************************)
EXTENDS Integers, Sequences, FiniteSets, TLC

CONSTANTS
  Atoi,              \* what String::toInt() reads at the head of a word
  Digits,            \* the words that consist of digits
  SafeDriveTimeMs,   \* SAFE_DRIVE_TIME_MS, which also bounds MOVE
  ServoMinUs, ServoMaxUs

ASSUME ControlProtocolAssumption ==
  /\ Digits \subseteq DOMAIN Atoi
  /\ \A word \in DOMAIN Atoi : Atoi[word] \in Int
  /\ \A word \in Digits : Atoi[word] \in Nat
  /\ SafeDriveTimeMs \in Nat /\ ServoMinUs \in Nat /\ ServoMaxUs \in Nat

\* RobotCommand.  value is the mood, drive mode, action, expression or
\* attention target.
NoCommand ==
  [kind |-> "NONE", value |-> "", index |-> 0, flag |-> FALSE,
   durationMs |-> 0, arg1 |-> 0, arg2 |-> 0]

Command(kind) == [NoCommand EXCEPT !.kind = kind]

UInt16(n) == n % 65536
Int16(n) == ((n + 32768) % 65536) - 32768
ToInt(word) == IF word \in DOMAIN Atoi THEN Atoi[word] ELSE 0

\* parseBoundedUInt(); no value that is read further overflows 32 bits.
Bounded(low, high) == {word \in Digits : Atoi[word] \in low .. high}

-----------------------------------------------------------------------------
(* What both dialects say with the same words. *)

Queries ==
  [ARM |-> "ARM", DISARM |-> "DISARM", STOP |-> "STOP",
   RANGE |-> "RANGE_QUERY", STATUS |-> "STATUS_QUERY", VERSION |-> "VERSION"]

Topics ==
  [PERSONA |-> [NEXT |-> "NEXT_PERSONA"],
   PROFILE |-> [LIST |-> "PROFILE_LIST", SHOW |-> "PROFILE_SHOW"],
   WIFI |-> [STATUS |-> "CTRL_WIFI_STATUS", ON |-> "CTRL_WIFI_ON",
             OFF |-> "CTRL_WIFI_OFF", PAIR |-> "CTRL_WIFI_PAIR"],
   IMU |-> [STATUS |-> "CTRL_IMU_STATUS"]]

Selections ==
  [MOOD |-> [kind |-> "SET_MOOD",
             values |-> {"IDLE", "HAPPY", "CURIOUS", "SLEEPY", "EXCITED",
                         "ALERT"}],
   EXPR |-> [kind |-> "PLAY_EXPRESSION",
             values |-> {"NONE", "SURPRISED", "CONFUSED", "WORRIED", "SCARED",
                         "GIGGLE", "LOVE", "PROUD", "SLEEPYAWN", "THINK",
                         "LISTEN", "OBSTACLE", "WINKLEFT", "WINKRIGHT"}],
   ATTENTION |-> [kind |-> "SET_ATTENTION",
                  values |-> {"CENTER", "LEFT", "RIGHT", "UP", "DOWN",
                              "RANDOM"}]]
  @@ "ACTION" :> [kind |-> "ACTION",
                  values |-> {"WAVE", "GREET", "LOOKLEFT", "LOOKRIGHT",
                              "CELEBRATE", "DANCE", "SLEEP"}]

Switch == [ON |-> TRUE, OFF |-> FALSE]

Direction ==
  [FWD |-> "FORWARD", REV |-> "REVERSE", LEFT |-> "TURN_LEFT",
   RIGHT |-> "TURN_RIGHT"]

Query(words) ==
  {Command(Queries[q]) : q \in {q \in DOMAIN Queries : words = <<q>>}}

Topic(words) ==
  UNION {{Command(Topics[t][s]) :
            s \in {s \in DOMAIN Topics[t] : words = <<t, s>>}} :
         t \in DOMAIN Topics}

Choice(words) ==
  UNION {{[Command(Selections[c].kind) EXCEPT !.value = v] :
            v \in {v \in Selections[c].values : words = <<c, v>>}} :
         c \in DOMAIN Selections}

AutonomySet(words) ==
  {[Command("AUTONOMY_SET") EXCEPT !.flag = Switch[s]] :
     s \in {s \in DOMAIN Switch : words = <<"AUTONOMY", s>>}}

\* Indices are the words that stand for 1 to 3.
Accessory(words, indices) ==
  {[Command("ACCESSORY") EXCEPT !.index = ToInt(p[1]),
                               !.flag = Switch[p[2]]] :
     p \in {p \in indices \X (DOMAIN Switch) :
              words = <<"ACC", p[1], p[2]>>}}

Common(words) ==
  Query(words) \cup Topic(words) \cup Choice(words) \cup AutonomySet(words)

Moving(direction, durationMs) ==
  [Command("MOVE") EXCEPT !.value = Direction[direction],
                          !.durationMs = durationMs]

-----------------------------------------------------------------------------
(* parsePipeCommand() *)

PipeMove(words) ==
  {Moving(p[1], Atoi[p[2]]) :
     p \in {p \in (DOMAIN Direction) \X Bounded(50, SafeDriveTimeMs) :
              words = <<"MOVE", p[1], p[2]>>}}

ParsePipeCommand(tokens) ==
  IF Head(tokens) # "CMD" THEN {}
  ELSE LET words == Tail(tokens)
       IN Common(words) \cup Accessory(words, Bounded(1, 3)) \cup PipeMove(words)

-----------------------------------------------------------------------------
(* parseLegacyCommand() *)

LegacyQueries ==
  <<"EVENTS">> :> "PRINT_EVENTS" @@ <<"DIAG", "BOOT">> :> "DIAG_BOOT" @@
  <<"SENSOR", "STATUS">> :> "CTRL_SENSOR_STATUS" @@
  <<"SAFETY", "STATUS">> :> "CTRL_SAFETY_STATUS" @@
  <<"AUTONOMY", "STATUS">> :> "CTRL_AUTONOMY_STATUS"

LegacyQuery(words) ==
  IF words \in DOMAIN LegacyQueries THEN {Command(LegacyQueries[words])} ELSE {}

LegacyMove(words) ==
  {Moving(d, IF d \in {"FWD", "REV"} THEN 500 ELSE 350) :
     d \in {d \in DOMAIN Direction : words = <<"MOVE", d>>}}

\* arg1 is -1 to unlock, -2 to stop, and the wheel's role otherwise.
ServoTest(words) ==
  {[Command("SERVO_TEST") EXCEPT !.arg1 = -1] :
     w \in {w \in {words} : w = <<"SERVO", "TEST", "UNLOCK">>}}
  \cup
  {[Command("SERVO_TEST") EXCEPT !.arg1 = -2] :
     w \in {w \in {words} : w = <<"SERVO", "TEST", "STOP">>}}
  \cup
  {[Command("SERVO_TEST") EXCEPT !.arg1 = Atoi[p[1]], !.arg2 = Atoi[p[2]]] :
     p \in {p \in Bounded(1, 4) \X Bounded(ServoMinUs, ServoMaxUs) :
              words = <<"SERVO", "TEST", p[1], p[2]>>}}

Begins(words, first, second, count) ==
  Len(words) >= count /\ words[1] = first /\ words[2] = second

\* Nothing is refused: what is no number reads as 0, and numbers are cut to
\* 16 bits, so that a long duration may become a short one or none.
JointMove(words) ==
  IF ~Begins(words, "JOINT", "MOVE", 4) THEN {}
  ELSE {[Command("JOINT_MOVE") EXCEPT
           !.arg1 = Int16(ToInt(words[3])), !.arg2 = Int16(ToInt(words[4])),
           !.durationMs = IF Len(words) = 4 THEN 500
                          ELSE UInt16(ToInt(words[5]))]}

JointRest(words) ==
  IF ~Begins(words, "JOINT", "REST", 3) THEN {}
  ELSE {[Command("JOINT_REST") EXCEPT !.arg1 = Int16(ToInt(words[3]))]}

ParseLegacyCommand(words) ==
  Common(words) \cup Accessory(words, {"1", "2", "3"}) \cup LegacyQuery(words)
  \cup LegacyMove(words) \cup ServoTest(words) \cup JointMove(words)
  \cup JointRest(words)

-----------------------------------------------------------------------------

\* parseLine(); bars says whether the line has one.
ParseLine(words, bars) ==
  IF words = <<>> THEN {}
  ELSE IF bars THEN ParsePipeCommand(words) ELSE ParseLegacyCommand(words)

=============================================================================

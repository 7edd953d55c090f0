------------------------- MODULE WebControlProtocol -------------------------
(***************************************************************************)
(* The messages of the web page (WebControlProtocol.cpp).  A frame is what *)
(* deserializeJson() makes of it: a function from the names of its fields  *)
(* to values, <<"null">> or a pair of a type and a value, where a number   *)
(* that is no integer is of a type of its own.  Frames                     *)
(* that are too long or are no JSON object are refused before that.  The   *)
(* parser returns the set of the messages a frame stands for, which is     *)
(* empty when it is refused.                                               *)
(***************************************************************************)
EXTENDS Integers, Sequences, TLC

CONSTANTS
  Tokens,          \* the texts that are 32 hexadecimal digits
  Codes,           \* what eight digits may be
  CodeOf,          \* the eight digits of a text of digits and blanks
  IntentTexts,     \* the texts that are neither empty nor too long
  IdModulus,       \* request ids are uint32_t: 2^32 on the device
  DurationMs       \* WIFI_DRIVE_COMMAND_DURATION_MS

Null == <<"null">>
Text(string) == <<"text", string>>
Number(n) == <<"number", n>>
Bool(b) == <<"bool", b>>

Absent(frame, field) == field \notin DOMAIN frame \/ frame[field] = Null

Has(frame, field, type) == ~Absent(frame, field) /\ frame[field][1] = type

HasNumber(frame, field, low, high) ==
  Has(frame, field, "number") /\ low <= frame[field][2] /\ frame[field][2] <= high

HasText(frame, field, texts) ==
  Has(frame, field, "text") /\ frame[field][2] \in texts

Queries == {"hello", "ping", "status", "state", "handshake"}

\* The messages that need nothing but the controller's identity, if that.
Orders ==
  [stop |-> "STOP", arm |-> "ARM", disarm |-> "DISARM",
   persona_next |-> "NEXT_PERSONA"]

DriveModes ==
  [forward |-> "FORWARD", reverse |-> "REVERSE",
   turn_left |-> "TURN_LEFT", left |-> "TURN_LEFT",
   turn_right |-> "TURN_RIGHT", right |-> "TURN_RIGHT"]

Actions ==
  {"wave", "look_left", "look_right", "greet", "celebrate", "dance", "sleep"}

Moods == {"idle", "happy", "curious", "sleepy", "excited", "alert"}

AllowedFields(type) ==
  {"v", "id", "type"} \cup
  CASE type = "pair" -> {"code"}
    [] type \in Queries -> {"token"}
    [] type \in DOMAIN Orders -> {"token", "intentId"}
    [] type = "move" -> {"token", "intentId", "mode", "durationMs"}
    [] type \in {"action", "mood"} -> {"token", "intentId", type}
    [] type = "accessory" -> {"token", "intentId", "index", "active"}

Types ==
  Queries \cup DOMAIN Orders \cup {"pair", "move", "action", "mood", "accessory"}

\* What every frame must be.
WellFormed(frame) ==
  /\ HasNumber(frame, "v", 1, 1)
  /\ Absent(frame, "id") \/ HasNumber(frame, "id", 0, IdModulus - 1)
  /\ HasText(frame, "type", Types)
  /\ Absent(frame, "token") \/ Has(frame, "token", "text")
  /\ DOMAIN frame \subseteq AllowedFields(frame["type"][2])
  /\ Absent(frame, "intentId") \/ HasText(frame, "intentId", IntentTexts)

\* 0 is no id for a command; a token that is not well formed is none.
RequestId(frame) == IF Absent(frame, "id") THEN 0 ELSE frame["id"][2]

Token(frame) ==
  IF HasText(frame, "token", Tokens) THEN frame["token"][2] ELSE "none"

RequiresControlIdentity(frame) == RequestId(frame) > 0 /\ Token(frame) # "none"

NoOrder == [kind |-> "NONE", value |-> "", index |-> 0, flag |-> FALSE]

Order(kind) == [NoOrder EXCEPT !.kind = kind]

\* The commands a well-formed frame stands for, one or none; index is a number
\* or a duration.
Commands(frame) ==
  LET type == frame["type"][2]
      one(holds, command) == IF holds THEN {command} ELSE {}
      moving == HasText(frame, "mode", DOMAIN DriveModes)
                  /\ HasNumber(frame, "durationMs", 50, DurationMs)
  IN CASE type \in Queries -> {NoOrder}
       [] type = "pair" -> one(HasText(frame, "code", DOMAIN CodeOf), NoOrder)
       [] type = "stop" -> {Order("STOP")}
       [] OTHER ->
         IF ~RequiresControlIdentity(frame) THEN {}
         ELSE CASE type \in DOMAIN Orders -> {Order(Orders[type])}
                [] type = "move" /\ HasText(frame, "mode", {"stop"}) ->
                     {Order("STOP")}
                [] type = "move" /\ ~HasText(frame, "mode", {"stop"}) ->
                     one(moving,
                         [Order("MOVE") EXCEPT
                            !.value = DriveModes[frame["mode"][2]],
                            !.index = frame["durationMs"][2]])
                [] type = "action" ->
                     one(HasText(frame, "action", Actions),
                         [Order("ACTION") EXCEPT !.value = frame["action"][2]])
                [] type = "mood" ->
                     one(HasText(frame, "mood", Moods),
                         [Order("SET_MOOD") EXCEPT !.value = frame["mood"][2]])
                [] type = "accessory" ->
                     one(HasNumber(frame, "index", 1, 3)
                           /\ Has(frame, "active", "bool"),
                         [Order("ACCESSORY") EXCEPT
                            !.index = frame["index"][2],
                            !.flag = frame["active"][2]])

\* parseCommand()
ParseCommand(frame) ==
  IF ~WellFormed(frame) THEN {}
  ELSE {[type |-> frame["type"][2], id |-> RequestId(frame),
         token |-> Token(frame),
         code |-> IF frame["type"][2] = "pair" THEN {CodeOf[frame["code"][2]]}
                  ELSE {},
         command |-> command] : command \in Commands(frame)}

=============================================================================

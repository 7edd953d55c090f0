---------------------------- MODULE MCEmbodiment ----------------------------
(***************************************************************************)
(* Embodiment for TLC: the ways to start, the intents that are submitted,  *)
(* and a statement of the repository that the code does not keep.          *)
(***************************************************************************)
EXTENDS Embodiment

\* Both drives; the roller is the one whose writes may fail.
MCStartups ==
  {[kind |-> "servo", connected |-> TRUE, state |-> "absent"],
   [kind |-> "roller", connected |-> TRUE, state |-> "absent"]}

MCIntents ==
  {Intent("MOVE", "FORWARD"), Intent("MOVE", "REVERSE"),
   Intent("MOVE", "malformed"), Intent("STOP", "NONE"), Intent("ARM", "NONE"),
   Intent("DISARM", "NONE"), Intent("ACTION", "DANCE"),
   Intent("SET_MOOD", "ALERT"), Intent("SET_MOOD", "SLEEPY"),
   Intent("SET_MOOD", "CALM"), Intent("NEXT_PERSONA", "NONE"),
   Intent("ACCESSORY", "fitted"), Intent("ACCESSORY", "empty"), NoIntent}

\* An intent of the actions, which the drive does not decide.
ManipulatorIntents == {Intent("ACTION", "WAVE"), Intent("ACCESSORY", "fitted")}

\* A device that cannot carry out a command says so instead of silently ignoring
\* it (docs/architecture/intent-execution-contract.md:27), and SUCCEEDED is said
\* of a command that completed (the same, line 53).
SuccessIsFulfilled ==
  at \in {"wifi", "serial"} =>
    \A intent \in Intents :
      LET outcome == Outcome(robot, intent, caps)
      IN outcome[2] = "SUCCEEDED" => Fulfilled(intent, outcome[1])

=============================================================================

--------------------------- MODULE MCRobotControl ---------------------------
(***************************************************************************)
(* RobotControl for TLC: the ways to start.                                *)
(***************************************************************************)
EXTENDS RobotControl

\* Both drives, a failed hal.begin, and each kind of restored incident.
MCStartups ==
  {[kind |-> "servo", connected |-> TRUE, state |-> "absent"],
   [kind |-> "roller", connected |-> TRUE, state |-> "ESTOP"],
   [kind |-> "servo", connected |-> FALSE, state |-> "FAULT"]}

=============================================================================

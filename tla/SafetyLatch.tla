----------------------------- MODULE SafetyLatch -----------------------------
(***************************************************************************)
(* What the safety supervisor promises to a person standing next to the    *)
(* robot: whether motion is authorised, the incident it answers for, and   *)
(* the copy of it in flash, from which a restart recovers.  The flash may  *)
(* fail at any access.  SafetySupervisor.tla is shown to implement it.     *)
(***************************************************************************)

VARIABLES
  armed,      \* motion is authorised
  incident,   \* the incident that stands: "none", "FAULT" or "ESTOP"
  record,     \* the same in flash, as it was last written
  settled     \* the last access to the flash succeeded and none is due

latchVars == <<armed, incident, record, settled>>

Init == armed = FALSE /\ incident = "none" /\ record = "none" /\ settled = TRUE

\* An explicit arm request; it settles a fault but never an emergency stop.
Arm ==
  /\ incident # "ESTOP"
  /\ armed' = TRUE
  /\ incident' = "none"
  /\ settled' = FALSE
  /\ UNCHANGED record

\* Authority may be withdrawn at any time.
Withdraw ==
  /\ armed
  /\ armed' = FALSE
  /\ UNCHANGED <<incident, record, settled>>

\* Something happens; an emergency stop outranks a fault.
Report(kind) ==
  /\ incident = "ESTOP" => kind = "ESTOP"
  /\ armed' = FALSE
  /\ incident' = kind
  /\ settled' = FALSE
  /\ UNCHANGED record

\* The local reset chord settles an emergency stop without authorising motion.
Reset ==
  /\ incident = "ESTOP"
  /\ incident' = "none"
  /\ settled' = FALSE
  /\ UNCHANGED <<armed, record>>

\* The flash takes what stands, and only ever that.
Write ==
  /\ ~settled
  /\ record' = incident
  /\ settled' = TRUE
  /\ UNCHANGED <<armed, incident>>

\* A restart authorises nothing.  It recovers the record, and so the incident
\* if it was settled; a restart that cannot read the flash forgets it.
Restart ==
  /\ armed' = FALSE
  /\ \/ incident' = record /\ settled' = TRUE
     \/ incident' = "none" /\ settled' = FALSE
  /\ UNCHANGED record

Next ==
  \/ Arm
  \/ Withdraw
  \/ \E kind \in {"FAULT", "ESTOP"} : Report(kind)
  \/ Reset
  \/ Write
  \/ Restart

Spec == Init /\ [][Next]_latchVars

=============================================================================

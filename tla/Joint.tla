-------------------------------- MODULE Joint --------------------------------
(***************************************************************************)
(* One positional servo: ServoJoint with its JointMotion, and the angle    *)
(* that Servo8Bus has written last.  Commands come between two passes of   *)
(* the loop task, and each pass lets a motion go on.  The servo bus is     *)
(* connected: RobotHal::begin keeps no joint whose begin() failed.         *)
(***************************************************************************)
EXTENDS Integers

CONSTANTS
  ClockModulus,       \* millis() is a uint32_t: 2^32 on the device
  MaxPassMs,          \* longest pass of the loop
  UpdateIntervalMs, StepMinMs, StepMaxMs, RestMs,    \* Config.h, rest()
  Mirror,             \* an inverted servo at v degrees is written Mirror - v
  MinimumDeg, MaximumDeg, RestDeg,   \* of the channel (BuildProfiles.cpp)
  Inversions,         \* values of the channel's inverted flag
  Targets,            \* angles that are asked for
  Durations           \* durations that are asked for, 0 for at once

ASSUME JointAssumption ==
  /\ ClockModulus \in Nat \ {0} /\ MaxPassMs \in Nat
  /\ UpdateIntervalMs \in Nat /\ RestMs \in Nat \ {0}
  /\ StepMinMs \in Nat \ {0} /\ StepMaxMs \in Nat /\ StepMinMs <= StepMaxMs
  /\ StepMaxMs + UpdateIntervalMs + MaxPassMs < ClockModulus
  /\ Mirror \in Nat /\ MinimumDeg \in Nat /\ MaximumDeg \in MinimumDeg .. Mirror
  /\ RestDeg \in MinimumDeg .. MaximumDeg
  /\ Inversions \subseteq BOOLEAN
  /\ Targets \subseteq Int /\ Durations \subseteq Nat

VARIABLES
  motion,         \* the fields of JointMotion
  lastUpdateMs,   \* of ServoJoint
  inverted,       \* of the channel
  angle,          \* what the servo was told last
  now

vars == <<motion, lastUpdateMs, inverted, angle, now>>

Clock == 0 .. ClockModulus - 1
Elapsed(later, earlier) == (later - earlier) % ClockModulus
Deg == MinimumDeg .. MaximumDeg

JointMotionState == {"IDLE", "MOVING", "COMPLETE", "CANCELLED"}

TypeOK ==
  /\ motion \in [from: Deg, to: Deg, current: Deg, startedMs: Clock,
                 durationMs: {0} \cup StepMinMs .. StepMaxMs,
                 state: JointMotionState]
  /\ lastUpdateMs \in Clock /\ now \in Clock
  /\ inverted \in BOOLEAN /\ angle \in Deg

Constrained(value, low, high) ==
  IF value < low THEN low ELSE IF value > high THEN high ELSE value

-----------------------------------------------------------------------------
(* JointMotion. *)

\* C++ divides towards zero.
Quotient(a, b) == IF a >= 0 THEN a \div b ELSE -((-a) \div b)

\* EASE_IN_OUT, the only easing that is asked for, in 1024ths.
Eased(progress) ==
  IF progress < 512 THEN (2 * progress * progress) \div 1024
  ELSE LET rest == 1024 - progress IN 1024 - (2 * rest * rest) \div 1024

\* begin(): the joint is here and has nowhere to go.
Settled(m, value) ==
  [m EXCEPT !.from = value, !.to = value, !.current = value, !.state = "IDLE"]

\* The trajectory still begins where the one before it began.
StartedFromOld(m, to, duration) ==
  [m EXCEPT !.to = to, !.durationMs = duration,
            !.startedMs = now, !.state = "MOVING"]

Started(m, to, duration) ==
  [m EXCEPT !.from = m.current, !.to = to, !.durationMs = duration,
            !.startedMs = now, !.state = "MOVING"]

Advanced(m, t) ==
  LET elapsed == Elapsed(t, m.startedMs)
      factor == Eased((elapsed * 1024) \div m.durationMs)
  IN IF elapsed >= m.durationMs
     THEN [m EXCEPT !.current = m.to, !.state = "COMPLETE"]
     ELSE [m EXCEPT !.current =
             m.from + Quotient((m.to - m.from) * factor, 1024)]

Cancelled(m) ==
  IF m.state = "MOVING" THEN [m EXCEPT !.state = "CANCELLED"] ELSE m

-----------------------------------------------------------------------------
(* ServoJoint. *)

Mirrored(value) == IF inverted THEN Mirror - value ELSE value

\* What _internalMove() makes of a position and writeAngle() of that: the limits
\* are those of the joint, and the angle is mirrored already.
Sent(value) == Constrained(Mirrored(value), MinimumDeg, MaximumDeg)

\* Mutant: the angle that was written is remembered as the joint's own.
InternalMoveMirroring(m, value) ==
  LET constrained == Constrained(value, MinimumDeg, MaximumDeg)
  IN /\ motion' = IF m.state = "MOVING" THEN m
                  ELSE Settled(m, Sent(constrained))
     /\ angle' = Sent(constrained)

\* _internalMove(): writes the angle.  A motion that has ended becomes IDLE.
InternalMove(m, value) ==
  LET constrained == Constrained(value, MinimumDeg, MaximumDeg)
  IN /\ motion' = IF m.state = "MOVING" THEN m ELSE Settled(m, constrained)
     /\ angle' = Sent(constrained)

\* begin() moves the joint to its rest position at once.
Init ==
  /\ inverted \in Inversions
  /\ motion = [from |-> RestDeg, to |-> RestDeg, current |-> RestDeg,
               startedMs |-> 0, durationMs |-> 0, state |-> "IDLE"]
  /\ angle = Sent(RestDeg)
  /\ lastUpdateMs = 0 /\ now = 0

\* moveTo() without a duration.
Jump(value) ==
  /\ InternalMove(Cancelled(motion), value)
  /\ UNCHANGED <<lastUpdateMs, inverted, now>>

\* The target is limited only when it is written.
MoveForUnlimited(value, duration) ==
  /\ motion' = Started(motion, value,
                       Constrained(duration, StepMinMs, StepMaxMs))
  /\ UNCHANGED <<lastUpdateMs, inverted, angle, now>>

MoveFor(value, duration) ==
  /\ motion' = Started(motion, Constrained(value, MinimumDeg, MaximumDeg),
                       Constrained(duration, StepMinMs, StepMaxMs))
  /\ UNCHANGED <<lastUpdateMs, inverted, angle, now>>

MoveTo(value, duration) ==
  IF duration = 0 THEN Jump(value) ELSE MoveFor(value, duration)

Rest == MoveFor(RestDeg, RestMs)

CancelMotion ==
  /\ motion' = Cancelled(motion)
  /\ UNCHANGED <<lastUpdateMs, inverted, angle, now>>

\* The times are compared as numbers.
UpdateDuePlain(t) == t - lastUpdateMs >= UpdateIntervalMs

UpdateDue(t) == Elapsed(t, lastUpdateMs) >= UpdateIntervalMs

\* update() in a pass that ends ms after the last.
Pass(ms) ==
  /\ now' = (now + ms) % ClockModulus
  /\ UNCHANGED inverted
  /\ IF motion.state = "MOVING" /\ UpdateDue(now')
     THEN LET m == Advanced(motion, now')
          IN lastUpdateMs' = now' /\ InternalMove(m, m.current)
     ELSE UNCHANGED <<motion, lastUpdateMs, angle>>

Next ==
  \/ \E value \in Targets, duration \in Durations : MoveTo(value, duration)
  \/ Rest
  \/ CancelMotion
  \/ \E ms \in 0 .. MaxPassMs : Pass(ms)

Spec == Init /\ [][Next]_vars

-----------------------------------------------------------------------------
(* Correctness. *)

\* What current() answers, and what the next motion will start from, is what
\* the servo was sent for: after a jump, in the middle of a motion, when one is
\* cancelled or replaced (_internalMove, JointMotion::start).  The servo is there
\* if the joint is not inverted; an inverted one whose limits do not lie evenly
\* about the middle stays at a limit instead (Servo8Bus::writeAngle).
WhereItSays == angle = Sent(motion.current)

Longer(a, b) == IF a > b THEN a ELSE b

\* A motion is over in time: the rate limit of update() costs it less than one
\* interval, also across the wrap of millis() and when the last update lies a
\* whole period of the clock back; then a single long pass may come on top.
InTime ==
  motion.state = "MOVING" =>
    Elapsed(now, motion.startedMs)
      < Longer(motion.durationMs, MaxPassMs) + UpdateIntervalMs

Far(a, b) == IF a > b THEN a - b ELSE b - a

\* A timed motion never turns back: no pass takes the servo farther from its
\* target, whatever the rounding of the easing curve and the lengths of the
\* passes (JointMotion::update).
NeverTurnsBack ==
  [][motion.state = "MOVING" /\ (\E ms \in 0 .. MaxPassMs : Pass(ms))
       => Far(angle', Sent(motion.to)) <= Far(angle, Sent(motion.to))]_vars

=============================================================================

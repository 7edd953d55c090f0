------------------------------- MODULE MCJoint -------------------------------
(* Joint for TLC: angles within, at and beyond the limits. *)
EXTENDS Joint

MCTargets == {-3, MinimumDeg, 4, MaximumDeg + 3}

\* The whole curve, at the resolution of the device: it never falls, also at
\* its seam, and ends where it should (JointMotion::update).
ASSUME EasingRises ==
  /\ Eased(0) = 0 /\ Eased(1024) = 1024
  /\ \A progress \in 0 .. 1023 : Eased(progress) <= Eased(progress + 1)

=============================================================================

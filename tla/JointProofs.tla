---------------------------- MODULE JointProofs ----------------------------
(***************************************************************************)
(* TLAPS proofs about Joint, for every clock width, every resolution of    *)
(* the loop, every limit of the channel and every angle that is asked for. *)
(***************************************************************************)
EXTENDS Joint, TLAPS

-----------------------------------------------------------------------------
(* The clock. *)

LEMMA ElapsedWraps ==
  ASSUME NEW t \in Clock, NEW u \in Clock
  PROVE  Elapsed(t, u) = IF u <= t THEN t - u ELSE t - u + ClockModulus
<1>1. CASE u <= t
  BY <1>1, JointAssumption DEF Elapsed, Clock
<1>2. CASE ~(u <= t)
  BY <1>2, JointAssumption DEF Elapsed, Clock
<1>3. QED
  BY <1>1, <1>2

LEMMA ElapsedType ==
  ASSUME NEW t \in Clock, NEW u \in Clock
  PROVE  Elapsed(t, u) \in Clock
<1>1. Elapsed(t, u) = IF u <= t THEN t - u ELSE t - u + ClockModulus
  BY ElapsedWraps
<1>2. QED
  BY <1>1, JointAssumption DEF Clock

\* A pass adds its length to every elapsed time, up to the modulus.
LEMMA PassElapses ==
  ASSUME NEW t \in Clock, NEW u \in Clock, NEW ms \in 0 .. MaxPassMs
  PROVE  /\ (t + ms) % ClockModulus \in Clock
         /\ Elapsed((t + ms) % ClockModulus, u) =
              IF Elapsed(t, u) + ms < ClockModulus THEN Elapsed(t, u) + ms
              ELSE Elapsed(t, u) + ms - ClockModulus
<1> DEFINE s == (t + ms) % ClockModulus
<1>0. /\ ms \in Nat /\ ms < ClockModulus /\ ClockModulus \in Nat \ {0}
      /\ t \in 0 .. ClockModulus - 1 /\ u \in 0 .. ClockModulus - 1
  BY JointAssumption DEF Clock
<1>1. s = IF t + ms < ClockModulus THEN t + ms ELSE t + ms - ClockModulus
  <2>1. CASE t + ms < ClockModulus
    BY <2>1, <1>0
  <2>2. CASE ~(t + ms < ClockModulus)
    BY <2>2, <1>0
  <2>3. QED
    BY <2>1, <2>2
<1>2. s \in Clock
  BY <1>0, <1>1 DEF Clock
<1> HIDE DEF s
<1>3. Elapsed(s, u) = IF u <= s THEN s - u ELSE s - u + ClockModulus
  BY <1>2, ElapsedWraps
<1>4. Elapsed(t, u) = IF u <= t THEN t - u ELSE t - u + ClockModulus
  BY ElapsedWraps
<1>5. Elapsed(s, u) = IF Elapsed(t, u) + ms < ClockModulus
                      THEN Elapsed(t, u) + ms
                      ELSE Elapsed(t, u) + ms - ClockModulus
  BY <1>0, <1>1, <1>3, <1>4
<1>6. QED
  BY <1>2, <1>5 DEF s

-----------------------------------------------------------------------------
(* The easing curve. *)

LEMMA SquaresRise ==
  ASSUME NEW a \in Nat, NEW b \in Nat, a <= b
  PROVE  a * a <= b * b
OBVIOUS

LEMMA ProductsRise ==
  ASSUME NEW a \in Nat, NEW f \in Nat, NEW g \in Nat, f <= g
  PROVE  a * f <= a * g
OBVIOUS

\* The two halves of the curve.
Rising(p) == (2 * p * p) \div 1024

LEMMA RisingType ==
  \A p \in 0 .. 512 : Rising(p) \in Nat /\ Rising(p) <= 512
<1> TAKE p \in 0 .. 512
<1> DEFINE q == p * p
<1>1. q \in Nat /\ q <= 512 * 512
  BY SquaresRise
<1>2. 2 * p * p = 2 * q
  OBVIOUS
<1> HIDE DEF q
<1>3. (2 * q) \div 1024 \in Nat /\ (2 * q) \div 1024 <= 512
  BY <1>1
<1>4. QED
  BY <1>2, <1>3 DEF Rising

LEMMA RisingRises ==
  \A p, r \in 0 .. 512 : p <= r => Rising(p) <= Rising(r)
<1> SUFFICES ASSUME NEW p \in 0 .. 512, NEW r \in 0 .. 512, p <= r
             PROVE  Rising(p) <= Rising(r)
  OBVIOUS
<1> DEFINE q == p * p
           s == r * r
<1>1. q \in Nat /\ s \in Nat /\ q <= s
  BY SquaresRise
<1>2. 2 * p * p = 2 * q /\ 2 * r * r = 2 * s
  OBVIOUS
<1> HIDE DEF q, s
<1>3. (2 * q) \div 1024 <= (2 * s) \div 1024
  BY <1>1
<1>4. QED
  BY <1>2, <1>3 DEF Rising

LEMMA EasedFirst ==
  \A p \in 0 .. 511 : Eased(p) = Rising(p)
BY DEF Eased, Rising

\* rest is what is left of the way.
LEMMA EasedSecond ==
  \A p \in 512 .. 1024 :
    \E rest \in 0 .. 512 : rest = 1024 - p /\ Eased(p) = 1024 - Rising(rest)
<1> TAKE p \in 512 .. 1024
<1>1. PICK rest \in 0 .. 512 : rest = 1024 - p
  OBVIOUS
<1>2. Eased(p) = 1024 - Rising(rest)
  BY <1>1 DEF Eased, Rising
<1>3. QED
  BY <1>1, <1>2

\* A part of the way, in 1024ths.
Share == 0 .. 1024

LEMMA EasedType ==
  \A p \in Share : Eased(p) \in Share
<1> SUFFICES ASSUME NEW p \in 0 .. 1024 PROVE Eased(p) \in 0 .. 1024
  BY DEF Share
<1>1. CASE p < 512
  <2>1. p \in 0 .. 511
    BY <1>1
  <2>2. p \in 0 .. 512
    BY <1>1
  <2>3. Eased(p) = Rising(p)
    BY <2>1, EasedFirst
  <2>4. Rising(p) \in Nat /\ Rising(p) <= 512
    BY <2>2, RisingType
  <2>5. QED
    BY <2>3, <2>4
<1>2. CASE ~(p < 512)
  <2>1. p \in 512 .. 1024
    BY <1>2
  <2>2. PICK rest \in 0 .. 512 : Eased(p) = 1024 - Rising(rest)
    BY <2>1, EasedSecond
  <2>3. Rising(rest) \in Nat /\ Rising(rest) <= 512
    BY RisingType
  <2>4. QED
    BY <2>2, <2>3
<1>3. QED
  BY <1>1, <1>2

\* The curve never falls, also at its seam (JointMotion::update).
LEMMA EasedRises ==
  \A p, r \in Share : p <= r => Eased(p) <= Eased(r)
<1> SUFFICES ASSUME NEW p \in 0 .. 1024, NEW r \in 0 .. 1024, p <= r
             PROVE  Eased(p) <= Eased(r)
  BY DEF Share
<1>1. CASE r < 512
  <2>1. p \in 0 .. 511
    BY <1>1
  <2>2. r \in 0 .. 511
    BY <1>1
  <2>3. p \in 0 .. 512
    BY <1>1
  <2>4. r \in 0 .. 512
    BY <1>1
  <2>5. Eased(p) = Rising(p)
    BY <2>1, EasedFirst
  <2>6. Eased(r) = Rising(r)
    BY <2>2, EasedFirst
  <2>7. Rising(p) <= Rising(r)
    BY <2>3, <2>4, RisingRises
  <2>8. QED
    BY <2>5, <2>6, <2>7
<1>2. CASE p < 512 /\ ~(r < 512)
  <2>1. p \in 0 .. 511
    BY <1>2
  <2>2. p \in 0 .. 512
    BY <1>2
  <2>3. r \in 512 .. 1024
    BY <1>2
  <2>4. Eased(p) = Rising(p)
    BY <2>1, EasedFirst
  <2>5. Rising(p) \in Nat /\ Rising(p) <= 512
    BY <2>2, RisingType
  <2>6. PICK rest \in 0 .. 512 : Eased(r) = 1024 - Rising(rest)
    BY <2>3, EasedSecond
  <2>7. Rising(rest) \in Nat /\ Rising(rest) <= 512
    BY RisingType
  <2>8. QED
    BY <2>4, <2>5, <2>6, <2>7
<1>3. CASE ~(p < 512)
  <2>1. p \in 512 .. 1024 /\ r \in 512 .. 1024
    BY <1>3
  <2>2. PICK more \in 0 .. 512 : more = 1024 - p /\ Eased(p) = 1024 - Rising(more)
    BY <2>1, EasedSecond
  <2>3. PICK rest \in 0 .. 512 : rest = 1024 - r /\ Eased(r) = 1024 - Rising(rest)
    BY <2>1, EasedSecond
  <2>4. rest <= more
    BY <2>2, <2>3
  <2>5. Rising(rest) <= Rising(more)
    BY <2>4, RisingRises
  <2>6. Rising(rest) \in Nat /\ Rising(rest) <= 512
    BY RisingType
  <2>7. Rising(more) \in Nat /\ Rising(more) <= 512
    BY RisingType
  <2>8. QED
    BY <2>2, <2>3, <2>5, <2>6, <2>7
<1>4. QED
  BY <1>1, <1>2, <1>3

\* How far a motion is, in 1024ths.
LEMMA ProgressBounds ==
  ASSUME NEW d \in Nat \ {0}, NEW x \in 0 .. d - 1
  PROVE  (x * 1024) \div d \in 0 .. 1023
OBVIOUS

LEMMA ProgressRises ==
  ASSUME NEW d \in Nat \ {0}, NEW x \in 0 .. d - 1, NEW y \in 0 .. d - 1, x <= y
  PROVE  (x * 1024) \div d <= (y * 1024) \div d
OBVIOUS

\* The way that is done lies between nothing and all of it, and grows.
LEMMA QuotientBounds ==
  ASSUME NEW a \in Int, NEW f \in Share
  PROVE  /\ Quotient(a * f, 1024) \in Int
         /\ a >= 0 => Quotient(a * f, 1024) >= 0 /\ Quotient(a * f, 1024) <= a
         /\ a <= 0 => Quotient(a * f, 1024) <= 0 /\ Quotient(a * f, 1024) >= a
<1> DEFINE q == a * f
<1>0. f \in Nat /\ f <= 1024
  BY DEF Share
<1>1. q \in Int
  BY <1>0
<1>2. a >= 0 => q >= 0 /\ q <= a * 1024
  BY <1>0, ProductsRise
<1>3. a <= 0 => q <= 0 /\ q >= a * 1024
  <2>1. SUFFICES ASSUME a <= 0 PROVE q <= 0 /\ q >= a * 1024
    OBVIOUS
  <2>2. -a \in Nat /\ -q = (-a) * f
    BY <1>0, <2>1
  <2>3. (-a) * f <= (-a) * 1024 /\ (-a) * f >= 0
    BY <1>0, <2>2, ProductsRise
  <2>4. QED
    BY <1>0, <2>2, <2>3
<1> HIDE DEF q
<1>4. Quotient(q, 1024) \in Int
  BY <1>1 DEF Quotient
<1>5. a >= 0 => Quotient(q, 1024) >= 0 /\ Quotient(q, 1024) <= a
  BY <1>1, <1>2 DEF Quotient
<1>6. a <= 0 => Quotient(q, 1024) <= 0 /\ Quotient(q, 1024) >= a
  BY <1>1, <1>3 DEF Quotient
<1>7. QED
  BY <1>4, <1>5, <1>6 DEF q

LEMMA QuotientRises ==
  ASSUME NEW a \in Int, NEW f \in Share, NEW g \in Share, f <= g
  PROVE  /\ a >= 0 => Quotient(a * f, 1024) <= Quotient(a * g, 1024)
         /\ a <= 0 => Quotient(a * g, 1024) <= Quotient(a * f, 1024)
<1> DEFINE q == a * f
           s == a * g
<1>0. f \in Nat /\ g \in Nat
  BY DEF Share
<1>1. q \in Int /\ s \in Int
  BY <1>0
<1>2. a >= 0 => q >= 0 /\ q <= s
  BY <1>0, ProductsRise
<1>3. a <= 0 => q <= 0 /\ s <= q
  <2>1. SUFFICES ASSUME a <= 0 PROVE q <= 0 /\ s <= q
    OBVIOUS
  <2>2. -a \in Nat /\ q = -((-a) * f) /\ s = -((-a) * g)
    BY <1>0, <2>1
  <2>3. (-a) * f <= (-a) * g /\ (-a) * f >= 0
    BY <1>0, <2>2, ProductsRise
  <2>4. QED
    BY <1>0, <2>2, <2>3
<1> HIDE DEF q, s
<1>4. /\ a >= 0 => Quotient(q, 1024) <= Quotient(s, 1024)
      /\ a <= 0 => Quotient(s, 1024) <= Quotient(q, 1024)
  BY <1>1, <1>2, <1>3 DEF Quotient
<1>5. QED
  BY <1>4 DEF q, s
-----------------------------------------------------------------------------
(* A motion on its way. *)

\* What a motion of d ms has done of its way a after x ms.
Done(a, d, x) == Quotient(a * Eased((x * 1024) \div d), 1024)

LEMMA DoneIsPartly ==
  ASSUME NEW a \in Int, NEW d \in Nat \ {0}, NEW x \in 0 .. d - 1
  PROVE  /\ Done(a, d, x) \in Int
         /\ a >= 0 => Done(a, d, x) >= 0 /\ Done(a, d, x) <= a
         /\ a <= 0 => Done(a, d, x) <= 0 /\ Done(a, d, x) >= a
<1>1. PICK p \in Share : p = (x * 1024) \div d
  <2>1. (x * 1024) \div d \in 0 .. 1023
    BY ProgressBounds
  <2>2. (x * 1024) \div d \in Share
    BY <2>1 DEF Share
  <2>3. QED
    BY <2>2
<1>2. PICK f \in Share : f = Eased(p)
  BY EasedType
<1>3. Done(a, d, x) = Quotient(a * f, 1024)
  BY <1>1, <1>2 DEF Done
<1>4. QED
  BY <1>3, QuotientBounds

\* The later, the more: neither the rounding nor the seam takes it back.
LEMMA DoneGrows ==
  ASSUME NEW a \in Int, NEW d \in Nat \ {0},
         NEW x \in 0 .. d - 1, NEW y \in 0 .. d - 1, x <= y
  PROVE  /\ a >= 0 => Done(a, d, x) <= Done(a, d, y)
         /\ a <= 0 => Done(a, d, y) <= Done(a, d, x)
<1>1. PICK p \in Share : p = (x * 1024) \div d
  <2>1. (x * 1024) \div d \in 0 .. 1023
    BY ProgressBounds
  <2>2. (x * 1024) \div d \in Share
    BY <2>1 DEF Share
  <2>3. QED
    BY <2>2
<1>2. PICK r \in Share : r = (y * 1024) \div d
  <2>1. (y * 1024) \div d \in 0 .. 1023
    BY ProgressBounds
  <2>2. (y * 1024) \div d \in Share
    BY <2>1 DEF Share
  <2>3. QED
    BY <2>2
<1>3. p <= r
  <2>1. (x * 1024) \div d <= (y * 1024) \div d
    BY ProgressRises
  <2>2. QED
    BY <1>1, <1>2, <2>1
<1>4. PICK f \in Share : f = Eased(p)
  BY EasedType
<1>5. PICK g \in Share : g = Eased(r)
  BY EasedType
<1>6. f <= g
  <2>1. Eased(p) <= Eased(r)
    BY <1>3, EasedRises
  <2>2. QED
    BY <1>4, <1>5, <2>1
<1>7. Done(a, d, x) = Quotient(a * f, 1024)
  BY <1>1, <1>4 DEF Done
<1>8. Done(a, d, y) = Quotient(a * g, 1024)
  BY <1>2, <1>5 DEF Done
<1>9. /\ a >= 0 => Quotient(a * f, 1024) <= Quotient(a * g, 1024)
      /\ a <= 0 => Quotient(a * g, 1024) <= Quotient(a * f, 1024)
  BY <1>6, QuotientRises
<1>10. QED
  BY <1>7, <1>8, <1>9

LEMMA NothingDoneAtStart ==
  ASSUME NEW a \in Int, NEW d \in Nat \ {0}
  PROVE  Done(a, d, 0) = 0
<1>1. (0 * 1024) \div d = 0
  OBVIOUS
<1>2. Eased(0) = 0
  BY DEF Eased
<1>3. Quotient(a * 0, 1024) = 0
  BY DEF Quotient
<1>4. QED
  BY <1>1, <1>2, <1>3 DEF Done

Motion ==
  [from: Deg, to: Deg, current: Deg, startedMs: Clock,
   durationMs: {0} \cup StepMinMs .. StepMaxMs, state: JointMotionState]

\* Where motion m has the joint x ms after it started.
Position(m, x) == m.from + Done(m.to - m.from, m.durationMs, x)

LEMMA MotionFields ==
  ASSUME NEW m \in Motion
  PROVE  /\ m.from \in Deg /\ m.to \in Deg /\ m.current \in Deg
         /\ m.startedMs \in Clock /\ m.durationMs \in Nat
         /\ m.to - m.from \in Int
         /\ m.durationMs # 0 => m.durationMs \in StepMinMs .. StepMaxMs
         /\ m.durationMs # 0 => m.durationMs \in Nat \ {0}
BY JointAssumption DEF Motion, Deg

\* Halfway or not, the joint is between the two ends of its motion.
LEMMA PositionIsBetween ==
  ASSUME NEW m \in Motion, m.durationMs # 0, NEW x \in 0 .. m.durationMs - 1
  PROVE  Position(m, x) \in Deg
<1>1. PICK from \in Deg : from = m.from
  BY MotionFields
<1>2. PICK to \in Deg : to = m.to
  BY MotionFields
<1>3. PICK d \in Nat \ {0} : d = m.durationMs
  BY MotionFields
<1>4. PICK a \in Int : a = to - from
  BY JointAssumption DEF Deg
<1>5. x \in 0 .. d - 1
  BY <1>3
<1>6. PICK way : way = Done(a, d, x)
  OBVIOUS
<1>7. /\ way \in Int
      /\ a >= 0 => way >= 0 /\ way <= a
      /\ a <= 0 => way <= 0 /\ way >= a
  BY <1>5, <1>6, DoneIsPartly
<1>8. Position(m, x) = from + way
  BY <1>1, <1>2, <1>3, <1>4, <1>6 DEF Position
<1>9. /\ from \in Nat /\ to \in Nat
      /\ MinimumDeg <= from /\ from <= MaximumDeg
      /\ MinimumDeg <= to /\ to <= MaximumDeg
  BY JointAssumption DEF Deg
<1>10. from + way >= MinimumDeg /\ from + way <= MaximumDeg
  <2>1. CASE a >= 0
    BY <1>4, <1>7, <1>9, <2>1, JointAssumption
  <2>2. CASE a <= 0
    BY <1>4, <1>7, <1>9, <2>2, JointAssumption
  <2>3. QED
    BY <2>1, <2>2
<1>11. QED
  BY <1>7, <1>8, <1>9, <1>10, JointAssumption DEF Deg

LEMMA PositionAtStart ==
  ASSUME NEW m \in Motion, m.durationMs # 0
  PROVE  Position(m, 0) = m.from
<1>1. Done(m.to - m.from, m.durationMs, 0) = 0
  BY MotionFields, NothingDoneAtStart
<1>2. m.from \in Int
  BY MotionFields, JointAssumption DEF Deg
<1>3. QED
  BY <1>1, <1>2 DEF Position

\* b lies between a and t.
Between(b, a, t) == (a <= b /\ b <= t) \/ (t <= b /\ b <= a)

LEMMA PositionGetsNearer ==
  ASSUME NEW m \in Motion, m.durationMs # 0,
         NEW x \in 0 .. m.durationMs - 1, NEW y \in 0 .. m.durationMs - 1,
         x <= y
  PROVE  Between(Position(m, y), Position(m, x), m.to)
<1>1. PICK from \in Deg : from = m.from
  BY MotionFields
<1>2. PICK to \in Deg : to = m.to
  BY MotionFields
<1>3. PICK d \in Nat \ {0} : d = m.durationMs
  BY MotionFields
<1>4. PICK a \in Int : a = to - from
  BY JointAssumption DEF Deg
<1>5. x \in 0 .. d - 1
  BY <1>3
<1>6. y \in 0 .. d - 1
  BY <1>3
<1>7. PICK way : way = Done(a, d, x)
  OBVIOUS
<1>8. PICK farther : farther = Done(a, d, y)
  OBVIOUS
<1>9. /\ way \in Int
      /\ a >= 0 => way >= 0 /\ way <= a
      /\ a <= 0 => way <= 0 /\ way >= a
  BY <1>5, <1>7, DoneIsPartly
<1>10. /\ farther \in Int
       /\ a >= 0 => farther >= 0 /\ farther <= a
       /\ a <= 0 => farther <= 0 /\ farther >= a
  BY <1>6, <1>8, DoneIsPartly
<1>11. /\ a >= 0 => way <= farther
       /\ a <= 0 => farther <= way
  BY <1>5, <1>6, <1>7, <1>8, DoneGrows
<1>12. Position(m, x) = from + way
  BY <1>1, <1>2, <1>3, <1>4, <1>7 DEF Position
<1>13. Position(m, y) = from + farther
  BY <1>1, <1>2, <1>3, <1>4, <1>8 DEF Position
<1>14. from \in Nat /\ to \in Nat
  BY JointAssumption DEF Deg
<1>15. Between(from + farther, from + way, to)
  <2>1. CASE a >= 0
    BY <1>4, <1>9, <1>10, <1>11, <1>14, <2>1 DEF Between
  <2>2. CASE a <= 0
    BY <1>4, <1>9, <1>10, <1>11, <1>14, <2>2 DEF Between
  <2>3. QED
    BY <2>1, <2>2
<1>16. QED
  BY <1>2, <1>12, <1>13, <1>15
-----------------------------------------------------------------------------
(* The inductive invariant: what the servo was told is where the joint is,   *)
(* and a motion on its way has not been updated yet, or is exactly where its *)
(* last update took it.  The last update of a motion that has not been       *)
(* updated may seem to be later than its start, when it lies a whole period  *)
(* of the clock back: one pass can be lost to that, and no more.             *)

SinceStart == Elapsed(now, motion.startedMs)
SinceUpdate == Elapsed(now, lastUpdateMs)

NotMoved ==
  /\ motion.current = motion.from
  /\ \/ SinceStart = 0
     \/ SinceUpdate < UpdateIntervalMs /\ SinceStart <= SinceUpdate + MaxPassMs

Moved ==
  /\ SinceUpdate < UpdateIntervalMs \/ SinceUpdate = 0
  /\ SinceStart - SinceUpdate \in 0 .. motion.durationMs - 1
  /\ motion.current = Position(motion, SinceStart - SinceUpdate)

UnderWay ==
  motion.state = "MOVING" => motion.durationMs # 0 /\ (NotMoved \/ Moved)

Types ==
  /\ motion \in Motion /\ lastUpdateMs \in Clock /\ now \in Clock
  /\ inverted \in Inversions /\ angle \in Deg

JointInv == Types /\ WhereItSays /\ UnderWay

LEMMA TypesGiveTypeOK ==
  Types => TypeOK
BY JointAssumption DEF Types, TypeOK, Motion

LEMMA ConstrainedDegree ==
  \A v \in Int : Constrained(v, MinimumDeg, MaximumDeg) \in Deg
BY JointAssumption DEF Constrained, Deg

LEMMA ConstrainedDuration ==
  \A v \in Int : /\ Constrained(v, StepMinMs, StepMaxMs) \in StepMinMs .. StepMaxMs
                 /\ Constrained(v, StepMinMs, StepMaxMs) # 0
BY JointAssumption DEF Constrained

LEMMA DegreeIsConstrained ==
  \A v \in Deg : Constrained(v, MinimumDeg, MaximumDeg) = v
BY JointAssumption DEF Constrained, Deg

\* Whatever an inversion makes of a position, the servo is sent within its limits.
LEMMA SentDegree ==
  ASSUME NEW v \in Deg
  PROVE  Sent(v) \in Deg
<1>1. v \in Int /\ Mirror \in Int
  BY JointAssumption DEF Deg
<1>2. Mirrored(v) \in Int
  BY <1>1 DEF Mirrored
<1>3. QED
  BY <1>2, ConstrainedDegree DEF Sent

\* Mirroring and cutting off keep the order of positions, or turn it round.
LEMMA SentKeepsBetween ==
  ASSUME NEW a \in Deg, NEW b \in Deg, NEW t \in Deg, Between(b, a, t)
  PROVE  Between(Sent(b), Sent(a), Sent(t))
<1>1. /\ a \in Nat /\ b \in Nat /\ t \in Nat /\ Mirror \in Nat
      /\ MinimumDeg \in Nat /\ MaximumDeg \in Nat /\ MinimumDeg <= MaximumDeg
  BY JointAssumption DEF Deg
<1>2. Between(Mirrored(b), Mirrored(a), Mirrored(t))
  BY <1>1 DEF Between, Mirrored
<1>3. Mirrored(a) \in Int /\ Mirrored(b) \in Int /\ Mirrored(t) \in Int
  BY <1>1 DEF Mirrored
<1>4. ASSUME NEW x \in Int, NEW y \in Int, NEW z \in Int, Between(y, x, z)
      PROVE  Between(Constrained(y, MinimumDeg, MaximumDeg),
                     Constrained(x, MinimumDeg, MaximumDeg),
                     Constrained(z, MinimumDeg, MaximumDeg))
  BY <1>1, <1>4 DEF Between, Constrained
<1>5. QED
  BY <1>2, <1>3, <1>4 DEF Sent

\* What lies between is not farther.
LEMMA BetweenIsNearer ==
  ASSUME NEW a \in Int, NEW b \in Int, NEW t \in Int, Between(b, a, t)
  PROVE  Far(b, t) <= Far(a, t)
BY DEF Between, Far

LEMMA SettledMotion ==
  ASSUME NEW m \in Motion, NEW v \in Deg
  PROVE  /\ Settled(m, v) \in Motion
         /\ Settled(m, v).current = v /\ Settled(m, v).state = "IDLE"
BY DEF Settled, Motion, JointMotionState

LEMMA CancelledMotion ==
  ASSUME NEW m \in Motion
  PROVE  /\ Cancelled(m) \in Motion
         /\ Cancelled(m).current = m.current /\ Cancelled(m).state # "MOVING"
BY DEF Cancelled, Motion, JointMotionState

LEMMA StartedMotion ==
  ASSUME now \in Clock, NEW m \in Motion, NEW to \in Deg,
         NEW d \in StepMinMs .. StepMaxMs
  PROVE  /\ Started(m, to, d) \in Motion
         /\ Started(m, to, d).from = m.current
         /\ Started(m, to, d).current = m.current
         /\ Started(m, to, d).durationMs = d
         /\ Started(m, to, d).startedMs = now
         /\ Started(m, to, d).state = "MOVING"
BY DEF Started, Motion, JointMotionState

LEMMA InitJoint ==
  Init => JointInv
<1> SUFFICES ASSUME Init PROVE JointInv
  OBVIOUS
<1>1. RestDeg \in Deg /\ inverted \in Inversions
  BY JointAssumption DEF Init, Deg
<1>2. motion \in Motion /\ motion.current = RestDeg /\ motion.state = "IDLE"
  BY <1>1, JointAssumption DEF Init, Motion, JointMotionState, Clock
<1>3. angle = Sent(RestDeg) /\ angle \in Deg
  BY <1>1, SentDegree DEF Init
<1>4. now \in Clock /\ lastUpdateMs \in Clock
  BY JointAssumption DEF Init, Clock
<1>5. QED
  BY <1>1, <1>2, <1>3, <1>4 DEF JointInv, Types, WhereItSays, UnderWay

\* What is asked for between two passes.
LEMMA MoveKeepsJoint ==
  ASSUME JointInv, NEW value \in Int, NEW duration \in Nat, MoveTo(value, duration)
  PROVE  JointInv'
<1> DEFINE target == Constrained(value, MinimumDeg, MaximumDeg)
<1>1. target \in Deg
  BY ConstrainedDegree
<1> HIDE DEF target
<1>2. motion \in Motion /\ inverted \in Inversions /\ angle \in Deg
  BY DEF JointInv, Types
<1>3. now \in Clock /\ lastUpdateMs \in Clock
  BY DEF JointInv, Types
<1>4. CASE duration = 0
  <2>1. /\ InternalMove(Cancelled(motion), value)
        /\ lastUpdateMs' = lastUpdateMs /\ inverted' = inverted /\ now' = now
    BY <1>4 DEF MoveTo, Jump
  <2>2. Cancelled(motion) \in Motion /\ Cancelled(motion).state # "MOVING"
    BY <1>2, CancelledMotion
  <2>3. motion' = Settled(Cancelled(motion), target)
    BY <2>1, <2>2 DEF InternalMove, target
  <2>4. angle' = Sent(target)
    BY <2>1 DEF InternalMove, target
  <2>5. angle' = Sent(target) /\ angle' \in Deg
    BY <1>1, <2>4, SentDegree
  <2>6. motion' \in Motion /\ motion'.current = target /\ motion'.state = "IDLE"
    BY <1>1, <2>2, <2>3, SettledMotion
  <2>7. Types'
    BY <1>2, <1>3, <2>1, <2>5, <2>6 DEF Types
  <2>8. WhereItSays'
    BY <2>1, <2>5, <2>6 DEF WhereItSays, Sent, Mirrored
  <2>9. UnderWay'
    BY <2>6 DEF UnderWay
  <2>10. QED
    BY <2>7, <2>8, <2>9 DEF JointInv
<1>5. CASE duration # 0
  <2> DEFINE d == Constrained(duration, StepMinMs, StepMaxMs)
  <2>1. d \in StepMinMs .. StepMaxMs /\ d # 0
    BY ConstrainedDuration
  <2>2. /\ motion' = Started(motion, target, d)
        /\ lastUpdateMs' = lastUpdateMs /\ inverted' = inverted /\ now' = now
        /\ angle' = angle
    BY <1>5 DEF MoveTo, MoveFor, target
  <2> HIDE DEF d
  <2>3. /\ motion' \in Motion /\ motion'.from = motion.current
        /\ motion'.current = motion.current /\ motion'.durationMs = d
        /\ motion'.startedMs = now
    BY <1>1, <1>2, <1>3, <2>1, <2>2, StartedMotion
  <2>4. Types'
    BY <1>2, <1>3, <2>2, <2>3 DEF Types
  <2>5. WhereItSays'
    BY <2>2, <2>3 DEF WhereItSays, Sent, Mirrored, JointInv
  <2>6. Elapsed(now, now) = 0
    BY <1>3, ElapsedWraps, JointAssumption DEF Clock
  <2>7. NotMoved'
    BY <2>2, <2>3, <2>6 DEF NotMoved, SinceStart, Elapsed
  <2>8. UnderWay'
    BY <2>1, <2>3, <2>7 DEF UnderWay
  <2>9. QED
    BY <2>4, <2>5, <2>8 DEF JointInv
<1>6. QED
  BY <1>4, <1>5

LEMMA RestKeepsJoint ==
  ASSUME JointInv, Rest
  PROVE  JointInv'
<1>1. RestDeg \in Int /\ RestMs \in Nat /\ RestMs # 0
  BY JointAssumption
<1>2. MoveTo(RestDeg, RestMs)
  BY <1>1 DEF Rest, MoveTo
<1>3. QED
  BY <1>1, <1>2, MoveKeepsJoint

LEMMA CancelKeepsJoint ==
  ASSUME JointInv, CancelMotion
  PROVE  JointInv'
<1>1. motion \in Motion
  BY DEF JointInv, Types
<1>2. /\ motion' \in Motion /\ motion'.current = motion.current
      /\ motion'.state # "MOVING"
  BY <1>1, CancelledMotion DEF CancelMotion
<1>3. Types'
  BY <1>2 DEF JointInv, Types, CancelMotion
<1>4. WhereItSays'
  BY <1>2 DEF JointInv, WhereItSays, CancelMotion, Sent, Mirrored
<1>5. UnderWay'
  BY <1>2 DEF UnderWay
<1>6. QED
  BY <1>3, <1>4, <1>5 DEF JointInv

-----------------------------------------------------------------------------
(* A pass. *)

\* The times of a motion after a pass, before update() has done anything.
NextStart == Elapsed(now', motion.startedMs)
NextUpdate == Elapsed(now', lastUpdateMs)

LEMMA PassTimes ==
  ASSUME JointInv, NEW ms \in 0 .. MaxPassMs, Pass(ms)
  PROVE  /\ now' \in Clock /\ inverted' = inverted
         /\ SinceStart \in Clock /\ SinceUpdate \in Clock
         /\ NextStart \in Clock /\ NextUpdate \in Clock
         /\ NextStart = IF SinceStart + ms < ClockModulus THEN SinceStart + ms
                        ELSE SinceStart + ms - ClockModulus
         /\ NextUpdate = IF SinceUpdate + ms < ClockModulus THEN SinceUpdate + ms
                         ELSE SinceUpdate + ms - ClockModulus
<1>1. /\ now \in Clock /\ lastUpdateMs \in Clock /\ motion \in Motion
      /\ now' = (now + ms) % ClockModulus /\ inverted' = inverted
  BY DEF JointInv, Types, Pass
<1>2. motion.startedMs \in Clock
  BY <1>1, MotionFields
<1>3. now' \in Clock
  BY <1>1, <1>2, PassElapses
<1>4. SinceStart \in Clock /\ SinceUpdate \in Clock
  BY <1>1, <1>2, ElapsedType DEF SinceStart, SinceUpdate
<1>5. NextStart \in Clock /\ NextUpdate \in Clock
  BY <1>1, <1>2, <1>3, ElapsedType DEF NextStart, NextUpdate
<1>6. NextStart = IF SinceStart + ms < ClockModulus THEN SinceStart + ms
                  ELSE SinceStart + ms - ClockModulus
  BY <1>1, <1>2, PassElapses DEF NextStart, SinceStart
<1>7. NextUpdate = IF SinceUpdate + ms < ClockModulus THEN SinceUpdate + ms
                   ELSE SinceUpdate + ms - ClockModulus
  BY <1>1, PassElapses DEF NextUpdate, SinceUpdate
<1>8. QED
  BY <1>1, <1>3, <1>4, <1>5, <1>6, <1>7

\* The numbers that a motion on its way goes by.
LEMMA MotionNumbers ==
  ASSUME JointInv, motion.state = "MOVING"
  PROVE  /\ motion \in Motion /\ motion.durationMs \in Nat \ {0}
         /\ motion.durationMs <= StepMaxMs
         /\ NotMoved \/ Moved
         /\ UpdateIntervalMs \in Nat /\ MaxPassMs \in Nat /\ StepMaxMs \in Nat
         /\ ClockModulus \in Nat
         /\ StepMaxMs + UpdateIntervalMs + MaxPassMs < ClockModulus
<1>1. motion \in Motion /\ motion.durationMs # 0 /\ (NotMoved \/ Moved)
  BY DEF JointInv, Types, UnderWay
<1>2. motion.durationMs \in StepMinMs .. StepMaxMs
  BY <1>1, MotionFields
<1>3. QED
  BY <1>1, <1>2, JointAssumption

\* While no update is due, a motion waits where it is and does not get old.
LEMMA WaitingMotion ==
  ASSUME JointInv, motion.state = "MOVING",
         NEW ms \in 0 .. MaxPassMs, Pass(ms), ~UpdateDue(now')
  PROVE  (NotMoved \/ Moved)'
<1>1. motion' = motion /\ lastUpdateMs' = lastUpdateMs
  BY DEF Pass
<1>2. SinceStart' = NextStart /\ SinceUpdate' = NextUpdate
  BY <1>1 DEF SinceStart, SinceUpdate, NextStart, NextUpdate, Elapsed
<1> DEFINE e == SinceStart
           u == SinceUpdate
           f == NextStart
           w == NextUpdate
           d == motion.durationMs
<1>3. /\ e \in Nat /\ u \in Nat /\ f \in Nat /\ w \in Nat /\ ms \in Nat
      /\ u < ClockModulus /\ ms <= MaxPassMs
      /\ f = IF e + ms < ClockModulus THEN e + ms ELSE e + ms - ClockModulus
      /\ w = IF u + ms < ClockModulus THEN u + ms ELSE u + ms - ClockModulus
  BY PassTimes, JointAssumption DEF Clock
<1>4. /\ d \in Nat \ {0} /\ d <= StepMaxMs /\ (NotMoved \/ Moved)
      /\ UpdateIntervalMs \in Nat /\ MaxPassMs \in Nat /\ StepMaxMs \in Nat
      /\ ClockModulus \in Nat
      /\ StepMaxMs + UpdateIntervalMs + MaxPassMs < ClockModulus
  BY MotionNumbers
<1>5. w < UpdateIntervalMs
  BY <1>3, <1>4 DEF UpdateDue, NextUpdate
<1>6. CASE NotMoved
  <2>1. \/ e = 0
        \/ u < UpdateIntervalMs /\ e <= u + MaxPassMs
    BY <1>6 DEF NotMoved
  <2>2. motion'.current = motion'.from
    BY <1>1, <1>6 DEF NotMoved
  <2> HIDE DEF e, u, f, w, d
  <2>3. f <= w + MaxPassMs
    BY <1>3, <1>4, <1>5, <2>1
  <2>4. NotMoved'
    BY <1>1, <1>2, <1>5, <2>2, <2>3 DEF NotMoved, f, w
  <2>5. QED
    BY <2>4
<1>7. CASE Moved
  <2>1. /\ u < UpdateIntervalMs \/ u = 0
        /\ e - u >= 0 /\ e - u <= d - 1
    BY <1>7, <1>3, <1>4 DEF Moved
  <2>2. motion.current = Position(motion, e - u)
    BY <1>7 DEF Moved
  <2> HIDE DEF e, u, f, w, d
  <2>3. f - w = e - u
    BY <1>3, <1>4, <1>5, <2>1
  <2>4. f - w >= 0 /\ f - w <= d - 1
    BY <2>1, <2>3
  <2>5. f - w \in 0 .. d - 1
    BY <1>3, <1>4, <2>4
  <2>6. motion.current = Position(motion, f - w)
    BY <2>2, <2>3
  <2>7. Moved'
    BY <1>1, <1>2, <1>5, <2>5, <2>6 DEF Moved, f, w, d, Position
  <2>8. QED
    BY <2>7
<1>8. QED
  BY <1>4, <1>6, <1>7

\* When an update is due, the joint was not farther on than it is taken now.
LEMMA DueMotion ==
  ASSUME JointInv, motion.state = "MOVING",
         NEW ms \in 0 .. MaxPassMs, Pass(ms), NextStart < motion.durationMs
  PROVE  \E x \in 0 .. motion.durationMs - 1 :
           /\ x <= NextStart /\ motion.current = Position(motion, x)
<1> DEFINE e == SinceStart
           u == SinceUpdate
           f == NextStart
           d == motion.durationMs
<1>1. /\ e \in Nat /\ u \in Nat /\ f \in Nat /\ ms \in Nat
      /\ u < ClockModulus /\ ms <= MaxPassMs
      /\ f = IF e + ms < ClockModulus THEN e + ms ELSE e + ms - ClockModulus
  BY PassTimes, JointAssumption DEF Clock
<1>2. /\ motion \in Motion
      /\ d \in Nat \ {0} /\ d <= StepMaxMs /\ (NotMoved \/ Moved)
      /\ UpdateIntervalMs \in Nat /\ MaxPassMs \in Nat /\ StepMaxMs \in Nat
      /\ ClockModulus \in Nat
      /\ StepMaxMs + UpdateIntervalMs + MaxPassMs < ClockModulus
  BY MotionNumbers
<1>3. CASE NotMoved
  <2>1. motion.current = Position(motion, 0)
    BY <1>2, <1>3, PositionAtStart DEF NotMoved
  <2>2. 0 \in 0 .. d - 1 /\ 0 <= f
    BY <1>1, <1>2
  <2>3. QED
    BY <2>1, <2>2
<1>4. CASE Moved
  <2>1. /\ u < UpdateIntervalMs \/ u = 0
        /\ e - u \in 0 .. d - 1
        /\ motion.current = Position(motion, e - u)
    BY <1>4 DEF Moved
  <2>2. e - u >= 0 /\ e - u <= d - 1
    BY <1>1, <1>2, <2>1
  <2> HIDE DEF e, u, f, d
  <2>3. e - u <= f
    BY <1>1, <1>2, <2>1, <2>2
  <2>4. QED
    BY <2>1, <2>3 DEF f, d
<1>5. QED
  BY <1>2, <1>3, <1>4

\* The two outcomes of an update that is due.
LEMMA DueOutcome ==
  ASSUME JointInv, motion.state = "MOVING",
         NEW ms \in 0 .. MaxPassMs, Pass(ms), UpdateDue(now')
  PROVE  /\ lastUpdateMs' = now' /\ motion' \in Motion
         /\ angle' = Sent(motion'.current) /\ angle' \in Deg
         /\ IF NextStart >= motion.durationMs
            THEN motion'.state = "IDLE" /\ motion'.current = motion.to
            ELSE /\ motion'.current = Position(motion, NextStart)
                 /\ motion'.from = motion.from /\ motion'.to = motion.to
                 /\ motion'.durationMs = motion.durationMs
                 /\ motion'.startedMs = motion.startedMs
<1> DEFINE m == Advanced(motion, now')
<1>1. motion \in Motion /\ motion.durationMs \in Nat \ {0} /\ inverted \in Inversions
  BY MotionNumbers DEF JointInv, Types
<1>2. NextStart \in Nat
  BY PassTimes DEF Clock
<1>3. lastUpdateMs' = now' /\ InternalMove(m, m.current)
  BY DEF Pass
<1>4. CASE NextStart >= motion.durationMs
  <2>1. m = [motion EXCEPT !.current = motion.to, !.state = "COMPLETE"]
    BY <1>4 DEF Advanced, NextStart
  <2>2. m \in Motion /\ m.current = motion.to /\ m.state = "COMPLETE"
    BY <1>1, <2>1 DEF Motion, JointMotionState
  <2> HIDE DEF m
  <2>3. m.current \in Deg
    BY <2>2, MotionFields
  <2>4. Constrained(m.current, MinimumDeg, MaximumDeg) = m.current
    BY <2>3, DegreeIsConstrained
  <2>5. motion' = Settled(m, m.current)
    BY <1>3, <2>2, <2>4 DEF InternalMove
  <2>6. angle' = Sent(m.current)
    BY <1>3, <2>4 DEF InternalMove
  <2>7. /\ motion' \in Motion /\ motion'.current = m.current
        /\ motion'.state = "IDLE"
    BY <2>2, <2>3, <2>5, SettledMotion
  <2>8. angle' = Sent(m.current) /\ angle' \in Deg
    BY <2>3, <2>6, SentDegree
  <2>9. QED
    BY <1>3, <1>4, <2>2, <2>7, <2>8
<1>5. CASE ~(NextStart >= motion.durationMs)
  <2> DEFINE p == Position(motion, NextStart)
  <2>1. m = [motion EXCEPT !.current = p]
    BY <1>5 DEF Advanced, NextStart, Position, Done
  <2>2. NextStart \in 0 .. motion.durationMs - 1
    BY <1>1, <1>2, <1>5
  <2>3. p \in Deg
    BY <1>1, <2>2, PositionIsBetween
  <2> HIDE DEF p, m
  <2>4. /\ m \in Motion /\ m.current = p /\ m.state = "MOVING"
        /\ m.from = motion.from /\ m.to = motion.to
        /\ m.durationMs = motion.durationMs /\ m.startedMs = motion.startedMs
    BY <1>1, <2>1, <2>3 DEF Motion
  <2>5. Constrained(m.current, MinimumDeg, MaximumDeg) = p
    BY <2>3, <2>4, DegreeIsConstrained
  <2>6. motion' = m
    BY <1>3, <2>4 DEF InternalMove
  <2>7. angle' = Sent(p)
    BY <1>3, <2>5 DEF InternalMove
  <2>8. angle' = Sent(p) /\ angle' \in Deg
    BY <2>3, <2>7, SentDegree
  <2>9. QED
    BY <1>3, <1>5, <2>4, <2>6, <2>8 DEF p
<1>6. QED
  BY <1>4, <1>5

LEMMA PassKeepsJoint ==
  ASSUME JointInv, NEW ms \in 0 .. MaxPassMs, Pass(ms)
  PROVE  JointInv'
<1>1. now' \in Clock /\ inverted' = inverted /\ inverted' \in Inversions
  BY PassTimes DEF JointInv, Types
<1>2. CASE motion.state = "MOVING" /\ UpdateDue(now')
  <2>1. /\ lastUpdateMs' = now' /\ motion' \in Motion
        /\ angle' = Sent(motion'.current) /\ angle' \in Deg
    BY <1>2, DueOutcome
  <2>2. Types'
    BY <1>1, <2>1 DEF Types
  <2>3. WhereItSays'
    BY <1>1, <2>1 DEF WhereItSays, Sent, Mirrored
  <2>4. UnderWay'
    <3>1. CASE NextStart >= motion.durationMs
      <4>1. motion'.state = "IDLE"
        BY <1>2, <3>1, DueOutcome
      <4>2. QED
        BY <4>1 DEF UnderWay
    <3>2. CASE ~(NextStart >= motion.durationMs)
      <4>1. /\ motion'.current = Position(motion, NextStart)
            /\ motion'.from = motion.from /\ motion'.to = motion.to
            /\ motion'.durationMs = motion.durationMs
            /\ motion'.startedMs = motion.startedMs
        BY <1>2, <3>2, DueOutcome
      <4>2. SinceStart' = NextStart
        BY <4>1 DEF SinceStart, NextStart, Elapsed
      <4>3. SinceUpdate' = 0
        <5>1. Elapsed(now', now') = 0
          BY <1>1, ElapsedWraps, JointAssumption DEF Clock
        <5>2. QED
          BY <2>1, <5>1 DEF SinceUpdate, Elapsed
      <4>4. NextStart \in Nat /\ motion.durationMs \in Nat \ {0}
        BY <1>2, PassTimes, MotionNumbers DEF Clock
      <4>5. NextStart - 0 = NextStart /\ NextStart \in 0 .. motion.durationMs - 1
        BY <3>2, <4>4
      <4>6. motion'.current = Position(motion', NextStart)
        BY <4>1 DEF Position
      <4>7. Moved'
        BY <4>1, <4>2, <4>3, <4>5, <4>6 DEF Moved, Position
      <4>8. QED
        BY <4>1, <4>4, <4>7 DEF UnderWay
    <3>3. QED
      BY <3>1, <3>2
  <2>5. QED
    BY <2>2, <2>3, <2>4 DEF JointInv
<1>3. CASE ~(motion.state = "MOVING" /\ UpdateDue(now'))
  <2>1. motion' = motion /\ lastUpdateMs' = lastUpdateMs /\ angle' = angle
    BY <1>3 DEF Pass
  <2>2. Types'
    BY <1>1, <2>1 DEF Types, JointInv
  <2>3. WhereItSays'
    BY <1>1, <2>1 DEF WhereItSays, Sent, Mirrored, JointInv
  <2>4. UnderWay'
    <3>1. SUFFICES ASSUME motion.state = "MOVING"
                   PROVE  motion.durationMs # 0 /\ (NotMoved \/ Moved)'
      BY <2>1 DEF UnderWay
    <3>2. ~UpdateDue(now')
      BY <1>3, <3>1
    <3>3. (NotMoved \/ Moved)'
      BY <3>1, <3>2, WaitingMotion
    <3>4. QED
      BY <3>1, <3>3 DEF JointInv, UnderWay
  <2>5. QED
    BY <2>2, <2>3, <2>4 DEF JointInv
<1>4. QED
  BY <1>2, <1>3
-----------------------------------------------------------------------------
(* The theorems. *)

LEMMA NextKeepsJoint ==
  ASSUME JointInv, [Next]_vars
  PROVE  JointInv'
<1>1. ASSUME NEW value \in Targets, NEW duration \in Durations,
             MoveTo(value, duration)
      PROVE  JointInv'
  <2>1. value \in Int /\ duration \in Nat
    BY JointAssumption
  <2>2. QED
    BY <1>1, <2>1, MoveKeepsJoint
<1>2. CASE Rest
  BY <1>2, RestKeepsJoint
<1>3. CASE CancelMotion
  BY <1>3, CancelKeepsJoint
<1>4. ASSUME NEW ms \in 0 .. MaxPassMs, Pass(ms)
      PROVE  JointInv'
  BY <1>4, PassKeepsJoint
<1>5. CASE UNCHANGED vars
  BY <1>5 DEF vars, JointInv, Types, WhereItSays, Sent, Mirrored, UnderWay,
              NotMoved, Moved, SinceStart, SinceUpdate, Elapsed, Position
<1>6. QED
  BY <1>1, <1>2, <1>3, <1>4, <1>5 DEF Next

\* The joint is where it says it is, and its motions are on their way.
THEOREM JointIsInvariant == Spec => []JointInv
<1>1. JointInv /\ [Next]_vars => JointInv'
  BY NextKeepsJoint
<1>2. QED
  BY InitJoint, <1>1, PTL DEF Spec

\* Every field keeps its type, and the servo is never told an angle outside its
\* limits, whatever is asked for (ServoJoint, JointMotion).
THEOREM JointTypeCorrect == Spec => []TypeOK
<1>1. JointInv => TypeOK
  BY TypesGiveTypeOK DEF JointInv
<1>2. QED
  BY JointIsInvariant, <1>1, PTL

\* What current() answers is what the servo was sent for, for every target, all
\* limits, even about the middle or not, and both ways of mounting
\* (ServoJoint::_internalMove, Servo8Bus::writeAngle).
THEOREM JointIsWhereItSays == Spec => []WhereItSays
<1>1. JointInv => WhereItSays
  BY DEF JointInv
<1>2. QED
  BY JointIsInvariant, <1>1, PTL

\* A motion is over in time, also across the wrap of millis(), for every length
\* of the passes (ServoJoint::update).
THEOREM MotionsEndInTime == Spec => []InTime
<1>1. ASSUME JointInv PROVE InTime
  <2>1. SUFFICES ASSUME motion.state = "MOVING"
                 PROVE  SinceStart < Longer(motion.durationMs, MaxPassMs)
                                       + UpdateIntervalMs
    BY DEF InTime, SinceStart
  <2>2. /\ motion.durationMs \in Nat \ {0} /\ (NotMoved \/ Moved)
        /\ UpdateIntervalMs \in Nat /\ MaxPassMs \in Nat
    BY <1>1, <2>1, MotionNumbers
  <2>3. SinceStart \in Nat /\ SinceUpdate \in Nat
    <3>1. now \in Clock /\ lastUpdateMs \in Clock /\ motion \in Motion
      BY <1>1 DEF JointInv, Types
    <3>2. motion.startedMs \in Clock
      BY <3>1, MotionFields
    <3>3. SinceStart \in Clock /\ SinceUpdate \in Clock
      BY <3>1, <3>2, ElapsedType DEF SinceStart, SinceUpdate
    <3>4. QED
      BY <3>3, JointAssumption DEF Clock
  <2>4. CASE NotMoved
    <3>1. \/ SinceStart = 0
          \/ SinceUpdate < UpdateIntervalMs /\ SinceStart <= SinceUpdate + MaxPassMs
      BY <2>4 DEF NotMoved
    <3>2. QED
      BY <2>2, <2>3, <3>1 DEF Longer
  <2>5. CASE Moved
    <3>1. SinceUpdate < UpdateIntervalMs \/ SinceUpdate = 0
      BY <2>5 DEF Moved
    <3>2. SinceStart - SinceUpdate <= motion.durationMs - 1
      BY <2>2, <2>3, <2>5 DEF Moved
    <3>3. QED
      BY <2>2, <2>3, <3>1, <3>2 DEF Longer
  <2>6. QED
    BY <2>2, <2>4, <2>5
<1>2. QED
  BY JointIsInvariant, <1>1, PTL

\* No pass takes a timed motion farther from its target, whatever the rounding
\* of the curve, the distance, the duration and the lengths of the passes
\* (JointMotion::update).
THEOREM MotionsNeverTurnBack == Spec => NeverTurnsBack
<1>1. ASSUME JointInv, [Next]_vars
      PROVE  [motion.state = "MOVING" /\ (\E ms \in 0 .. MaxPassMs : Pass(ms))
                => Far(angle', Sent(motion.to)) <= Far(angle, Sent(motion.to))]_vars
  <2>1. SUFFICES ASSUME motion.state = "MOVING",
                        NEW ms \in 0 .. MaxPassMs, Pass(ms)
                 PROVE  Far(angle', Sent(motion.to)) <= Far(angle, Sent(motion.to))
    OBVIOUS
  <2>2. motion \in Motion /\ motion.durationMs \in Nat \ {0}
    BY <1>1, <2>1, MotionNumbers
  <2>3. motion.current \in Deg /\ motion.to \in Deg
    BY <2>2, MotionFields
  <2>4. angle = Sent(motion.current)
    BY <1>1 DEF JointInv, WhereItSays
  <2>5. CASE ~UpdateDue(now')
    <3>1. angle' = angle
      BY <2>1, <2>5 DEF Pass
    <3>2. Sent(motion.current) \in Int /\ Sent(motion.to) \in Int
      BY <2>3, SentDegree, JointAssumption DEF Deg
    <3>3. Far(angle, Sent(motion.to)) \in Int
      BY <2>4, <3>2 DEF Far
    <3>4. QED
      BY <3>1, <3>3
  <2>6. CASE UpdateDue(now')
    <3>1. motion' \in Motion /\ angle' = Sent(motion'.current)
      BY <1>1, <2>1, <2>6, DueOutcome
    <3>2. PICK end \in Deg : end = motion'.current
      BY <3>1, MotionFields
    <3>3. angle' = Sent(end)
      BY <3>1, <3>2
    <3>4. Between(end, motion.current, motion.to)
      <4>1. CASE NextStart >= motion.durationMs
        <5>1. end = motion.to
          BY <1>1, <2>1, <2>6, <3>2, <4>1, DueOutcome
        <5>2. motion.to \in Int /\ motion.current \in Int
          BY <2>3, JointAssumption DEF Deg
        <5>3. QED
          BY <5>1, <5>2 DEF Between
      <4>2. CASE ~(NextStart >= motion.durationMs)
        <5>1. end = Position(motion, NextStart)
          BY <1>1, <2>1, <2>6, <3>2, <4>2, DueOutcome
        <5>2. NextStart \in Nat
          BY <1>1, <2>1, PassTimes DEF Clock
        <5>3. NextStart < motion.durationMs
          BY <2>2, <4>2, <5>2
        <5>4. NextStart \in 0 .. motion.durationMs - 1
          BY <2>2, <5>2, <5>3
        <5>5. PICK x \in 0 .. motion.durationMs - 1 :
                x <= NextStart /\ motion.current = Position(motion, x)
          BY <1>1, <2>1, <5>3, DueMotion
        <5>6. Between(Position(motion, NextStart), Position(motion, x), motion.to)
          BY <2>2, <5>4, <5>5, PositionGetsNearer
        <5>7. QED
          BY <5>1, <5>5, <5>6
      <4>3. QED
        BY <4>1, <4>2
    <3>5. Between(Sent(end), Sent(motion.current), Sent(motion.to))
      BY <2>3, <3>4, SentKeepsBetween
    <3>6. /\ Sent(end) \in Int /\ Sent(motion.current) \in Int
          /\ Sent(motion.to) \in Int
      BY <2>3, SentDegree, JointAssumption DEF Deg
    <3>7. QED
      BY <2>4, <3>3, <3>5, <3>6, BetweenIsNearer
  <2>7. QED
    BY <2>5, <2>6
<1>2. QED
  BY JointIsInvariant, <1>1, PTL DEF Spec, NeverTurnsBack

=============================================================================

---------------------------- MODULE MCRangeGuard ----------------------------
(***************************************************************************)
(* RangeGuard for TLC, with history variables for what the sensor has      *)
(* answered at its last attempts and for how long the readings were open.  *)
(***************************************************************************)
EXTENDS RangeGuard

CONSTANTS SteadySamples   \* bound: echoes of a steady streak that are counted

VARIABLES
  nears,    \* attempts in a row that answered with a near echo
  steady,   \* [echo, n]: the last attempt's echo, and how often in a row
  openMs    \* for how long every pass has judged an open reading, capped

mcVars == <<sensor, obstacle, now, nears, steady, openMs>>

Near(echo) == echo \in MinValidMm .. EmergencyStopMm - 1
Open(echo) == echo \in ClearMm .. MaxValidMm

Capped(n, bound) == IF n < bound THEN n ELSE bound

OpenReading(s) == s.valid /\ s.distanceMm >= ClearMm

MCInit == Init /\ nears = 0 /\ steady = [echo |-> 0, n |-> 0] /\ openMs = 0

MCPass(ms, echo) ==
  /\ Pass(ms, echo)
  /\ IF sensor.connected /\ SampleDue(sensor, now')
     THEN /\ nears' = IF Near(echo) THEN Capped(nears + 1, 3) ELSE 0
          /\ steady' = [echo |-> echo,
                        n |-> IF echo = steady.echo
                              THEN Capped(steady.n + 1, SteadySamples) ELSE 1]
     ELSE UNCHANGED <<nears, steady>>
  /\ openMs' = IF ~OpenReading(sensor') THEN 0
               ELSE IF OpenReading(sensor) THEN Capped(openMs + ms, HysteresisMs)
               ELSE 0

MCNext == \E ms \in 0 .. MaxPassMs, echo \in Echoes : MCPass(ms, echo)

MCSpec == MCInit /\ [][MCNext]_mcVars

-----------------------------------------------------------------------------

\* Whatever was measured before, and whatever the spike test rejected or the
\* median still remembers from before an outage: the third near echo in a row
\* blocks forward drive at the latest (getMedian, the spike test,
\* ObstacleSafety::update).
NearBlocks == nears >= 3 => BlocksForwardMotion

\* CLEAR is earned by open readings for the whole hysteresis time without a
\* gap, also across the wrap of millis() and its zero, which _clearSinceMs uses
\* for "not waiting" (ObstacleSafety::update).
ClearIsEarned == obstacle.state = "CLEAR" => openMs >= HysteresisMs

\* An open way is seen in the end: the spike test and the median do not keep
\* each other from accepting a distance that has changed for good.
SteadyWayClears ==
  steady.n >= SteadySamples /\ Open(steady.echo) /\ ~SampleDue(sensor, now)
    => obstacle.state = "CLEAR"

=============================================================================

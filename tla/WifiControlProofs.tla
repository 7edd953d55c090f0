-------------------------- MODULE WifiControlProofs --------------------------
(***************************************************************************)
(* TLAPS proofs about WifiControl.                                         *)
(***************************************************************************)
EXTENDS MCWifiControl, FiniteSetTheorems, TLAPS

LEMMA Appended ==
  ASSUME NEW S, NEW q \in Seq(S), NEW x \in S
  PROVE  LET t == Append(q, x)
         IN /\ t \in Seq(S) /\ Len(t) = Len(q) + 1 /\ DOMAIN t = 1 .. Len(q) + 1
            /\ \A i \in 1 .. Len(q) : t[i] = q[i]
            /\ t[Len(q) + 1] = x
            /\ DOMAIN q = 1 .. Len(q) /\ Len(q) \in Nat
OBVIOUS

LEMMA Shortened ==
  ASSUME NEW S, NEW q \in Seq(S), q # <<>>
  PROVE  LET t == Tail(q)
         IN /\ t \in Seq(S) /\ Len(t) = Len(q) - 1 /\ DOMAIN t = 1 .. Len(q) - 1
            /\ \A i \in 1 .. Len(q) - 1 : t[i] = q[i + 1]
            /\ Head(q) = q[1] /\ Head(q) \in S
            /\ DOMAIN q = 1 .. Len(q) /\ Len(q) \in Nat /\ Len(q) >= 1
OBVIOUS

-----------------------------------------------------------------------------
(* Types. *)

\* The type invariant, with what it takes to keep it: the clients can be
\* counted, a pairing under way has a session number left, and only an intent
\* is remembered.
TypeInv ==
  /\ TypeOK
  /\ IsFiniteSet(clients)
  /\ cb.at = "pair" => sessions < MaxSessions
  /\ cb.at = "remember" => cb.command.intent # NoIntent

\* The session's fields, each changed on its own.
WithLastId(s, id) == [s EXCEPT !.lastId = id]
WithWatchdog(s, watchdog) == [s EXCEPT !.watchdog = watchdog]
WithIntents(s, intents) == [s EXCEPT !.intents = intents]
OutOfLease(s) == [s EXCEPT !.lease = "expired"]

IntentResult == [intent: Intents, status: Status]

LEMMA RefreshedType ==
  ASSUME NEW s \in Session
  PROVE  Refreshed(s) \in Session /\ Refreshed(s).intents = s.intents
BY DEF Session, Refreshed

LEMMA WithLastIdType ==
  ASSUME NEW s \in Session, NEW id \in Nat
  PROVE  WithLastId(s, id) \in Session /\ WithLastId(s, id).intents = s.intents
BY DEF Session, WithLastId

LEMMA WithWatchdogType ==
  ASSUME NEW s \in Session, NEW w \in {"off", "running", "late", "blind"}
  PROVE  WithWatchdog(s, w) \in Session /\ WithWatchdog(s, w).intents = s.intents
BY DEF Session, WithWatchdog

LEMMA WithIntentsType ==
  ASSUME NEW s \in Session, NEW intents \in Seq(IntentResult)
  PROVE  WithIntents(s, intents) \in Session /\ WithIntents(s, intents).intents = intents
BY DEF Session, WithIntents, IntentResult

LEMMA OutOfLeaseType ==
  ASSUME NEW s \in Session
  PROVE  OutOfLease(s) \in Session /\ OutOfLease(s).intents = s.intents
BY DEF Session, OutOfLease

LEMMA EmptyQueue == <<>> \in Seq(Queued) /\ Len(<<>>) = 0
OBVIOUS

LEMMA NoSessionType == NoSession \in Session /\ NoSession.intents = <<>>
BY WifiAssumption DEF NoSession, Session

\* The queue's length, as the tests of it see it.
LEMMA ShortQueue ==
  ASSUME NEW q \in Seq(Queued), Len(q) <= QueueCapacity, NEW t, t = q \/ t = <<>>
  PROVE  t \in Seq(Queued) /\ Len(t) <= QueueCapacity
<1>1. QueueCapacity \in Nat /\ 0 <= QueueCapacity
  BY WifiAssumption
<1>2. CASE t = q
  BY <1>2
<1>3. CASE t = <<>>
  BY <1>1, <1>3, EmptyQueue
<1>4. QED
  BY <1>2, <1>3

\* A session that begins (the PAIR message).
Paired(client, gen) ==
  [NoSession EXCEPT !.active = TRUE, !.client = client, !.gen = gen]

LEMMA PairedType ==
  ASSUME NEW client \in Clients \cup {NoClient}, NEW gen \in 0 .. MaxSessions
  PROVE  /\ Paired(client, gen) \in Session
         /\ Paired(client, gen).intents = <<>>
BY NoSessionType DEF Paired, NoSession, Session

LEMMA NoCommandType == NoCommand \in Queued
BY WifiAssumption DEF NoCommand, Queued, Kind

\* The ring keeps its type and its length (RecentIntents).
LEMMA RecordedType ==
  ASSUME NEW i \in Seq(IntentResult),
         Len(i) <= RecentIntents, NEW intent \in Intents
  PROVE  /\ Recorded(i, intent) \in Seq(IntentResult)
         /\ Len(Recorded(i, intent)) <= RecentIntents
<1> DEFINE kept == IF Len(i) < RecentIntents THEN i ELSE Tail(i)
           new == [intent |-> intent, status |-> "PENDING"]
<1>1. new \in IntentResult
  BY DEF Status, IntentResult
<1>2. /\ kept \in Seq(IntentResult)
      /\ Len(kept) < RecentIntents
  BY Shortened, WifiAssumption
<1>3. Recorded(i, intent) = Append(kept, new)
  BY DEF Recorded
<1> HIDE DEF kept, new
<1>4. QED
  BY <1>1, <1>2, <1>3, Appended, WifiAssumption

LEMMA SettledType ==
  ASSUME NEW i \in Seq(IntentResult), NEW intent,
         NEW status \in Status
  PROVE  /\ Settled(i, intent, status) \in Seq(IntentResult)
         /\ Len(Settled(i, intent, status)) = Len(i)
<1> DEFINE t == Settled(i, intent, status)
<1>1. Len(i) \in Nat /\ DOMAIN i = 1 .. Len(i)
  OBVIOUS
<1>2. t = [k \in 1 .. Len(i) |->
             IF i[k].intent = intent THEN [i[k] EXCEPT !.status = status]
             ELSE i[k]]
  BY <1>1 DEF Settled
<1>3. ASSUME NEW k \in 1 .. Len(i)
      PROVE  (IF i[k].intent = intent THEN [i[k] EXCEPT !.status = status] ELSE i[k])
               \in IntentResult
  <2>1. i[k] \in IntentResult
    BY <1>1, <1>3
  <2>2. QED
    BY <2>1 DEF IntentResult
<1>4. t \in [1 .. Len(i) -> IntentResult]
  BY <1>2, <1>3
<1>5. QED
  BY <1>1, <1>4

LEMMA TypeInit == Init => TypeInv
BY WifiAssumption, NoSessionType, NoCommandType, FS_EmptySet
DEF Init, TypeInv, TypeOK, Status, StopFault, CallbackStep, LoopStep

\* An id that is ahead of the last one counts on from it.
LEMMA DifferenceType ==
  ASSUME session \in Session, NEW id \in Nat
  PROVE  /\ Difference(id) \in Nat
         /\ Difference(id) < IdModulus
<1> DEFINE d == id - session.lastId
<1>1. d \in Int /\ IdModulus \in Nat /\ IdModulus > 0
  BY WifiAssumption DEF Session
<1>2. Difference(id) = d % IdModulus
  BY DEF Difference
<1> HIDE DEF d
<1>3. QED
  BY <1>1, <1>2

LEMMA ContinuedType ==
  ASSUME session \in Session, NEW id \in Nat
  PROVE  /\ Continued(id) \in Nat /\ session.lastId <= Continued(id)
         /\ session.lastId # 0 /\ Difference(id) > 0 => session.lastId < Continued(id)
<1>1. session.lastId \in Nat
  BY DEF Session
<1>2. PICK n \in Nat : n = session.lastId
  BY <1>1
<1>3. PICK d \in Nat : d = Difference(id)
  BY DifferenceType
<1>4. Continued(id) = IF n = 0 THEN id ELSE n + d
  BY <1>2, <1>3 DEF Continued
<1>5. QED
  BY <1>2, <1>3, <1>4

\* The callback task keeps the types.
LEMMA TypeArrival ==
  ASSUME TypeInv, CallbackArrival
  PROVE  TypeInv'
<1> USE DEF wifiVars, routerVars, CallbackOnly
<1>1. /\ session \in Session /\ Len(session.intents) <= RecentIntents
      /\ clients \subseteq Clients /\ Cardinality(clients) <= MaxClients
      /\ IsFiniteSet(clients) /\ sessions \in 0 .. MaxSessions
      /\ cb \in [at: CallbackStep, command: Queued]
      /\ pending \in StopFault \cup {"no"} /\ inputs \in 0 .. MaxInputs
      /\ queue \in Seq(Queued) /\ Len(queue) <= QueueCapacity
  BY DEF TypeInv, TypeOK
<1>2. PICK c \in Clients :
        \/ Connect(c)
        \/ Disconnect(c)
        \/ ReceivePair(c)
        \/ \E id \in RequestIds :
             \/ ReceivePing(c, id)
             \/ \E kind \in RemoteKinds, intent \in Intents \cup {NoIntent} :
                  ReceiveControl(c, kind, id, intent)
        \/ \E tokenMatches \in BOOLEAN : ReceiveStop(c, tokenMatches)
  BY DEF CallbackArrival
<1>3. CASE Connect(c)
  <2>1. clients' = clients \cup {c} /\ Cardinality(clients) < MaxClients
    BY <1>3 DEF Connect
  <2>2. IsFiniteSet(clients') /\ Cardinality(clients') <= Cardinality(clients) + 1
    <3>1. /\ IsFiniteSet(clients \cup {c})
          /\ \/ Cardinality(clients \cup {c}) = Cardinality(clients)
             \/ Cardinality(clients \cup {c}) = Cardinality(clients) + 1
      BY <1>1, FS_AddElement
    <3>2. Cardinality(clients) \in Nat
      BY <1>1, FS_CardinalityType
    <3>3. QED
      BY <2>1, <3>1, <3>2
  <2>3. Cardinality(clients') <= MaxClients
    <3>1. Cardinality(clients) \in Nat /\ Cardinality(clients') \in Nat
      BY <1>1, <2>2, FS_CardinalityType
    <3>2. QED
      BY <2>1, <2>2, <3>1, WifiAssumption
  <2>4. QED
    BY <1>3, <2>1, <2>2, <2>3 DEF Connect, TypeInv, TypeOK
<1>4. CASE Disconnect(c)
  <2>1. clients' = clients \ {c}
    BY <1>4 DEF Disconnect
  <2>2. IsFiniteSet(clients') /\ Cardinality(clients') <= Cardinality(clients)
    BY <1>1, <2>1, FS_Subset
  <2>3. Cardinality(clients') <= MaxClients
    <3>1. Cardinality(clients) \in Nat /\ Cardinality(clients') \in Nat
      BY <1>1, <2>2, FS_CardinalityType
    <3>2. QED
      BY <1>1, <2>2, <3>1, WifiAssumption
  <2>4. cb' \in [at: CallbackStep, command: Queued]
        /\ (cb' = cb \/ cb'.at = "revoke")
    BY <1>1, <1>4 DEF Disconnect, CallbackGoes, CallbackStep
  <2>5. QED
    BY <1>4, <2>1, <2>2, <2>3, <2>4 DEF Disconnect, TypeInv, TypeOK
<1>5. CASE ReceivePair(c)
  <2>1. cb' \in [at: CallbackStep, command: Queued] /\ cb'.at = "pair"
    BY <1>5, NoCommandType DEF ReceivePair, CallbackStep, Queued
  <2>2. QED
    BY <1>5, <2>1 DEF ReceivePair, TypeInv, TypeOK
<1>6. CASE \E id \in RequestIds :
             \/ ReceivePing(c, id)
             \/ \E kind \in RemoteKinds, intent \in Intents \cup {NoIntent} :
                  ReceiveControl(c, kind, id, intent)
  <2>1. PICK step \in {"ping", "accept"}, kind \in Kind, id \in Nat,
             intent \in Intents \cup {NoIntent} : Receive(c, step, kind, id, intent)
    BY <1>6, KindAssumption, WifiAssumption DEF ReceivePing, ReceiveControl, Kind
  <2>2. cb' \in [at: CallbackStep, command: Queued] /\ cb'.at = step
    BY <1>1, <2>1 DEF Receive, CallbackStep, Queued, Session
  <2>3. QED
    BY <2>1, <2>2 DEF Receive, TypeInv, TypeOK
<1>7. CASE \E tokenMatches \in BOOLEAN : ReceiveStop(c, tokenMatches)
  <2>1. session' \in Session /\ session'.intents = session.intents
    BY <1>1, <1>7, RefreshedType DEF ReceiveStop
  <2>2. queue' = queue \/ queue' = <<>>
    BY <1>7 DEF ReceiveStop
  <2>3. queue' \in Seq(Queued) /\ Len(queue') <= QueueCapacity
    BY <1>1, <2>2, ShortQueue
  <2>4. pending' \in StopFault \cup {"no"} /\ inputs' \in 0 .. MaxInputs
    BY <1>1, <1>7, WifiAssumption DEF ReceiveStop, StopRequested, StopFault
  <2>5. QED
    BY <1>7, <2>1, <2>3, <2>4 DEF ReceiveStop, TypeInv, TypeOK
<1>8. QED
  BY <1>2, <1>3, <1>4, <1>5, <1>6, <1>7

\* revokeController() does.
LEMMA TypeRevoke ==
  ASSUME TypeInv, NEW fault \in StopFault, RevokeController(fault)
  PROVE  /\ session' \in Session /\ Len(session'.intents) <= RecentIntents
         /\ queue' \in Seq(Queued) /\ Len(queue') <= QueueCapacity
         /\ pending' \in StopFault \cup {"no"} /\ code' \in BOOLEAN
         /\ UNCHANGED <<running, clients, sessions, mutex>>
<1>1. /\ queue \in Seq(Queued) /\ Len(queue) <= QueueCapacity
      /\ pending \in StopFault \cup {"no"}
  BY DEF TypeInv, TypeOK
<1>2. queue' = queue \/ queue' = <<>>
  BY DEF RevokeController
<1>3. queue' \in Seq(Queued) /\ Len(queue') <= QueueCapacity
  BY <1>1, <1>2, ShortQueue
<1>4. StopRequested(fault) \in StopFault \cup {"no"}
  BY <1>1 DEF StopRequested
<1>5. CASE session.active
  BY <1>3, <1>4, <1>5, NoSessionType, WifiAssumption
  DEF RevokeController, TypeInv, TypeOK
<1>6. CASE ~session.active
  BY <1>3, <1>6 DEF RevokeController, TypeInv, TypeOK
<1>7. QED
  BY <1>5, <1>6

\* Accept hands the command on under the id that counts on.
AcceptedAs(id) ==
  cb' = [cb EXCEPT !.at = IF cb.command.intent = NoIntent THEN "stamp" ELSE "remember",
                   !.command.id = id]

LEMMA AcceptedAsFields ==
  ASSUME cb \in [at: CallbackStep, command: Queued], NEW id \in Nat, AcceptedAs(id)
  PROVE  /\ cb' \in [at: CallbackStep, command: Queued]
         /\ cb'.at = IF cb.command.intent = NoIntent THEN "stamp" ELSE "remember"
         /\ cb'.command.id = id
         /\ cb'.command.gen = cb.command.gen /\ cb'.command.client = cb.command.client
         /\ cb'.command.intent = cb.command.intent
BY DEF AcceptedAs, CallbackStep, Queued

LEMMA TypeHandler ==
  ASSUME TypeInv, CallbackHandler
  PROVE  TypeInv'
<1> USE DEF wifiVars, routerVars, CallbackOnly
<1>1. /\ session \in Session /\ Len(session.intents) <= RecentIntents
      /\ session.intents \in Seq(IntentResult)
      /\ sessions \in 0 .. MaxSessions
      /\ cb \in [at: CallbackStep, command: Queued]
      /\ cb.command.id \in Nat
      /\ cb.command.client \in Clients \cup {NoClient}
      /\ cb.command.intent \in Intents \cup {NoIntent}
      /\ queue \in Seq(Queued) /\ Len(queue) <= QueueCapacity
      /\ epoch \in Nat
  BY DEF TypeInv, TypeOK, Queued, Session, IntentResult
<1>2. CallbackDone => cb' \in [at: CallbackStep, command: Queued] /\ cb'.at = "idle"
  BY NoCommandType DEF CallbackDone, CallbackStep
<1>3. \A step \in CallbackStep :
        CallbackGoes(step) => /\ cb' \in [at: CallbackStep, command: Queued]
                              /\ cb'.at = step /\ cb'.command = cb.command
  BY <1>1 DEF CallbackGoes
<1>4. CASE RevokeDisconnected
  <2>1. /\ RevokeController("CONTROLLER_DISCONNECTED")
        /\ CallbackDone \/ CallbackGoes("newCode")
    BY <1>4 DEF RevokeDisconnected
  <2>2. cb' \in [at: CallbackStep, command: Queued] /\ cb'.at \in {"idle", "newCode"}
    BY <1>2, <1>3, <2>1 DEF CallbackStep
  <2>3. QED
    BY <1>4, <2>1, <2>2, TypeRevoke DEF RevokeDisconnected, StopFault, TypeInv, TypeOK
<1>5. CASE Pair
  <2> DEFINE paired == Paired(cb.command.client, sessions + 1)
  <2>1. sessions < MaxSessions
    BY <1>5 DEF Pair, TypeInv
  <2>2. paired \in Session /\ paired.intents = <<>>
    BY <1>1, <2>1, PairedType, WifiAssumption
  <2>3. \/ session' = paired /\ sessions' = sessions + 1 /\ code' = FALSE /\ queue' = <<>>
        \/ UNCHANGED <<session, sessions, code, queue>>
    BY <1>5 DEF Pair, Paired
  <2> HIDE DEF paired
  <2>4. /\ session' \in Session /\ Len(session'.intents) <= RecentIntents
        /\ sessions' \in 0 .. MaxSessions
        /\ queue' \in Seq(Queued) /\ Len(queue') <= QueueCapacity
    <3>1. queue' \in Seq(Queued) /\ Len(queue') <= QueueCapacity
      BY <1>1, <2>3, ShortQueue
    <3>2. QED
      BY <1>1, <2>1, <2>2, <2>3, <3>1, WifiAssumption
  <2>5. code' \in BOOLEAN
    BY <2>3 DEF TypeInv, TypeOK
  <2>6. QED
    BY <1>2, <1>5, <2>4, <2>5 DEF Pair, TypeInv, TypeOK
<1>6. CASE AcceptPing
  <2>1. \/ session' = session
        \/ session' = Refreshed(WithLastId(session, Continued(cb.command.id)))
    BY <1>6 DEF AcceptPing, WithLastId
  <2> DEFINE s == WithLastId(session, Continued(cb.command.id))
  <2>0. s \in Session /\ s.intents = session.intents
    BY <1>1, ContinuedType, WithLastIdType
  <2> HIDE DEF s
  <2>2. session' \in Session /\ session'.intents = session.intents
    <3>1. session' = session \/ session' = Refreshed(s)
      BY <2>1 DEF s
    <3>2. QED
      BY <1>1, <2>0, <3>1, RefreshedType
  <2>3. QED
    BY <1>2, <1>6, <2>2 DEF AcceptPing, TypeInv, TypeOK
<1>7. CASE Accept
  <2>0. Continued(cb.command.id) \in Nat
    BY <1>1, ContinuedType
  <2>1. session' = session \/ session' = WithLastId(session, Continued(cb.command.id))
    BY <1>7 DEF Accept, WithLastId
  <2>2. session' \in Session /\ session'.intents = session.intents
    BY <1>1, <2>0, <2>1, WithLastIdType
  <2>3. \/ CallbackDone
        \/ AcceptedAs(Continued(cb.command.id))
    BY <1>7 DEF Accept, AcceptedAs
  <2>4. /\ cb' \in [at: CallbackStep, command: Queued] /\ cb'.at # "pair"
        /\ cb'.at = "remember" => cb'.command.intent # NoIntent
    <3>1. CASE CallbackDone
      BY <1>2, <3>1
    <3>2. CASE AcceptedAs(Continued(cb.command.id))
      BY <1>1, <2>0, <3>2, AcceptedAsFields DEF CallbackStep
    <3>3. QED
      BY <2>3, <3>1, <3>2
  <2>5. QED
    BY <1>7, <2>2, <2>4 DEF Accept, TypeInv, TypeOK
<1>8. CASE Remember
  <2> DEFINE recorded == Recorded(session.intents, cb.command.intent)
  <2>1. session' = session \/ session' = WithIntents(session, recorded)
    BY <1>8 DEF Remember, WithIntents
  <2>2. cb.command.intent \in Intents
    BY <1>1, <1>8 DEF Remember, TypeInv
  <2>3. recorded \in Seq(IntentResult) /\ Len(recorded) <= RecentIntents
    BY <1>1, <2>2, RecordedType
  <2> HIDE DEF recorded
  <2>4. session' \in Session /\ Len(session'.intents) <= RecentIntents
    BY <1>1, <2>1, <2>3, WithIntentsType
  <2>5. CallbackDone \/ CallbackGoes("stamp")
    BY <1>8 DEF Remember
  <2>6. cb' \in [at: CallbackStep, command: Queued] /\ cb'.at \in {"idle", "stamp"}
    BY <1>2, <1>3, <2>5 DEF CallbackStep
  <2>7. QED
    BY <1>8, <2>4, <2>6 DEF Remember, TypeInv, TypeOK
<1>9. CASE Stamp
  <2>1. cb' \in [at: CallbackStep, command: Queued] /\ cb'.at = "enqueue"
    BY <1>1, <1>9 DEF Stamp, CallbackStep, Queued
  <2>2. QED
    BY <1>9, <2>1 DEF Stamp, TypeInv, TypeOK
<1>10. CASE Enqueue
  <2>1. \/ queue' = queue
        \/ queue' = Append(queue, cb.command) /\ Len(queue) < QueueCapacity
    BY <1>10 DEF Enqueue
  <2>2. cb.command \in Queued
    BY <1>1
  <2>3. queue' \in Seq(Queued) /\ Len(queue') <= QueueCapacity
    <3>1. Append(queue, cb.command) \in Seq(Queued)
          /\ Len(Append(queue, cb.command)) = Len(queue) + 1
      BY <1>1, <2>2, Appended
    <3>2. Len(queue) \in Nat /\ QueueCapacity \in Nat
      BY <1>1, WifiAssumption
    <3>3. QED
      BY <1>1, <2>1, <3>1, <3>2
  <2>4. session' = session \/ session' = Refreshed(session)
    BY <1>10 DEF Enqueue
  <2>5. session' \in Session /\ session'.intents = session.intents
    BY <1>1, <2>4, RefreshedType
  <2>6. QED
    BY <1>2, <1>10, <2>3, <2>5 DEF Enqueue, TypeInv, TypeOK
<1>11. CASE ShowNewCode
  BY <1>2, <1>11 DEF ShowNewCode, TypeInv, TypeOK
<1>12. QED
  BY <1>4, <1>5, <1>6, <1>7, <1>8, <1>9, <1>10, <1>11 DEF CallbackHandler

LEMMA TypeTime ==
  ASSUME TypeInv, LeaseRunsOut \/ WatchdogRunsOut
  PROVE  TypeInv'
<1>1. session \in Session /\ Len(session.intents) <= RecentIntents
  BY DEF TypeInv, TypeOK
<1>2. session' = OutOfLease(session) \/ session' = WithWatchdog(session, "late")
  BY DEF LeaseRunsOut, WatchdogRunsOut, OutOfLease, WithWatchdog
<1>3. session' \in Session /\ session'.intents = session.intents
  BY <1>1, <1>2, OutOfLeaseType, WithWatchdogType
<1>4. UNCHANGED <<running, clients, sessions, code, queue, pending, mutex,
                  routerVars, cb, lp, inputs>>
  BY DEF LeaseRunsOut, WatchdogRunsOut
<1>5. QED
  BY <1>1, <1>3, <1>4 DEF routerVars, TypeInv, TypeOK

-----------------------------------------------------------------------------
(* The router's and the loop task's types. *)

RobotState == [state: {"DISARMED", "ARMED", "FAULT", "ESTOP"}, driving: BOOLEAN]

LoopState ==
  [at: LoopStep, next: {"dequeue", "again", "idle"}, command: Queued,
   fault: StopFault, current: BOOLEAN, superseded: BOOLEAN,
   status: Status, hadController: BOOLEAN]

LEMMA PairOf ==
  ASSUME NEW o, NEW a, NEW b, o = <<a, b>>
  PROVE  o[1] = a /\ o[2] = b
OBVIOUS

\* A robot that stood stands still unless a MOVE is executed with success; a
\* STOP or a fault leaves nothing driving.
LEMMA OutcomesType ==
  ASSUME NEW r \in RobotState, NEW kind \in Kind, NEW outcome \in Outcomes(kind, r)
  PROVE  /\ outcome[1] \in RobotState /\ outcome[2] \in BOOLEAN
         /\ kind = "STOP" => ~outcome[1].driving
         /\ outcome[1].driving => r.driving \/ (kind = "MOVE" /\ outcome[2])
<1> DEFINE armed == [r EXCEPT !.state = "ARMED"]
           driven == [r EXCEPT !.driving = TRUE]
<1>1. /\ armed \in RobotState /\ armed.driving = r.driving
      /\ driven \in RobotState
      /\ Stopped(r) \in RobotState /\ ~Stopped(r).driving
      /\ Disarmed(r) \in RobotState /\ ~Disarmed(r).driving
      /\ Faulted(r) \in RobotState /\ ~Faulted(r).driving
  BY DEF RobotState, Stopped, Disarmed, Faulted
<1>2. /\ kind = "ARM" =>
           outcome \in {<<r, FALSE>>, <<armed, TRUE>>, <<Faulted(r), FALSE>>}
      /\ kind = "DISARM" => outcome \in {<<Disarmed(r), TRUE>>}
      /\ kind = "MOVE" =>
           outcome \in {<<driven, TRUE>>, <<Stopped(r), FALSE>>,
                        <<Faulted(r), FALSE>>, <<r, FALSE>>}
      /\ kind = "STOP" => outcome \in {<<Stopped(r), TRUE>>}
      /\ kind = "OTHER" =>
           outcome \in {<<r, TRUE>>, <<r, FALSE>>, <<Stopped(r), TRUE>>,
                        <<Faulted(r), FALSE>>}
  <2>1. outcome \in Outcomes(kind, r)
    OBVIOUS
  <2>2. CASE kind = "ARM"
    BY <2>1, <2>2, Zenon DEF Outcomes
  <2>3. CASE kind = "DISARM"
    BY <2>1, <2>3, Zenon DEF Outcomes
  <2>4. CASE kind = "MOVE"
    BY <2>1, <2>4, Zenon DEF Outcomes
  <2>5. CASE kind = "STOP"
    BY <2>1, <2>5, Zenon DEF Outcomes
  <2>6. CASE kind = "OTHER"
    BY <2>1, <2>6, Zenon DEF Outcomes
  <2>7. QED
    BY <2>2, <2>3, <2>4, <2>5, <2>6 DEF Kind
<1> HIDE DEF armed, driven
<1>3. CASE kind = "ARM"
  <2>1. \/ outcome = <<r, FALSE>>
        \/ outcome = <<armed, TRUE>>
        \/ outcome = <<Faulted(r), FALSE>>
    BY <1>2, <1>3
  <2>2. \/ outcome[1] = r /\ outcome[2] = FALSE
        \/ outcome[1] = armed /\ outcome[2] = TRUE
        \/ outcome[1] = Faulted(r) /\ outcome[2] = FALSE
    BY <2>1, PairOf, Zenon
  <2>3. QED
    BY <1>1, <1>3, <2>2
<1>4. CASE kind = "DISARM"
  <2>1. outcome = <<Disarmed(r), TRUE>>
    BY <1>2, <1>4
  <2>2. outcome[1] = Disarmed(r) /\ outcome[2] = TRUE
    BY <2>1, PairOf, Zenon
  <2>3. QED
    BY <1>1, <1>4, <2>2
<1>5. CASE kind = "MOVE"
  <2>1. \/ outcome = <<driven, TRUE>>
        \/ outcome = <<Stopped(r), FALSE>>
        \/ outcome = <<Faulted(r), FALSE>>
        \/ outcome = <<r, FALSE>>
    BY <1>2, <1>5
  <2>2. \/ outcome[1] = driven /\ outcome[2] = TRUE
        \/ outcome[1] = Stopped(r) /\ outcome[2] = FALSE
        \/ outcome[1] = Faulted(r) /\ outcome[2] = FALSE
        \/ outcome[1] = r /\ outcome[2] = FALSE
    BY <2>1, PairOf, Zenon
  <2>3. QED
    BY <1>1, <1>5, <2>2
<1>6. CASE kind = "STOP"
  <2>1. outcome = <<Stopped(r), TRUE>>
    BY <1>2, <1>6
  <2>2. outcome[1] = Stopped(r) /\ outcome[2] = TRUE
    BY <2>1, PairOf, Zenon
  <2>3. QED
    BY <1>1, <1>6, <2>2
<1>7. CASE kind = "OTHER"
  <2>1. \/ outcome = <<r, TRUE>>
        \/ outcome = <<r, FALSE>>
        \/ outcome = <<Stopped(r), TRUE>>
        \/ outcome = <<Faulted(r), FALSE>>
    BY <1>2, <1>7
  <2>2. \/ outcome[1] = r /\ outcome[2] = TRUE
        \/ outcome[1] = r /\ outcome[2] = FALSE
        \/ outcome[1] = Stopped(r) /\ outcome[2] = TRUE
        \/ outcome[1] = Faulted(r) /\ outcome[2] = FALSE
    BY <2>1, PairOf, Zenon
  <2>3. QED
    BY <1>1, <1>7, <2>2
<1>8. QED
  BY <1>3, <1>4, <1>5, <1>6, <1>7 DEF Kind

LEMMA FaultedType ==
  ASSUME NEW r
  PROVE  Faulted(r) \in RobotState /\ ~Faulted(r).driving
BY DEF Faulted, RobotState

LEMMA ExecutedType ==
  ASSUME robot \in RobotState, NEW kind \in Kind, NEW outcome \in Executed(kind)
  PROVE  /\ outcome[1] \in RobotState /\ outcome[2] \in BOOLEAN
         /\ kind = "STOP" => ~outcome[1].driving
         /\ outcome[1].driving => robot.driving \/ (kind = "MOVE" /\ outcome[2])
<1>1. CASE outcome \in Outcomes(kind, robot)
  BY <1>1, OutcomesType
<1>2. CASE outcome \in Outcomes(kind, Faulted(robot))
  BY <1>2, OutcomesType, FaultedType
<1>3. QED
  BY <1>1, <1>2 DEF Executed

LEMMA CountedType ==
  ASSUME epoch \in Nat, intervened \in 0 .. epoch, NEW b \in BOOLEAN, Counted(b)
  PROVE  epoch' \in Nat /\ intervened' \in 0 .. epoch'
BY DEF Counted

\* A step of the loop task that only moves on.
LEMMA LoopGoesType ==
  ASSUME lp \in LoopState, NEW step \in LoopStep, LoopGoes(step)
  PROVE  /\ lp' \in LoopState /\ lp'.at = step
         /\ lp'.command = lp.command /\ lp'.next = lp.next
BY DEF LoopGoes, LoopState

LEMMA AfterStopType ==
  ASSUME lp \in LoopState, AfterStop
  PROVE  /\ lp' \in LoopState /\ lp'.at \in {"dequeue", "take", "idle"}
         /\ lp'.command = lp.command
<1>1. CASE lp.next = "again"
  BY <1>1 DEF AfterStop, LoopState, LoopStep
<1>2. CASE lp.next # "again"
  BY <1>2 DEF AfterStop, LoopState, LoopStep
<1>3. QED
  BY <1>1, <1>2

LEMMA EmergencyType ==
  ASSUME epoch \in Nat, intervened \in 0 .. epoch, EmergencyStop
  PROVE  /\ epoch' \in Nat /\ intervened' \in 0 .. epoch'
         /\ robot' \in RobotState /\ ~robot'.driving
BY CountedType, FaultedType DEF EmergencyStop

\* update() up to the commands keeps the types.
LEMMA TypeUpdateTimers ==
  ASSUME TypeInv,
         \/ \E expired \in BOOLEAN, evicted \in SUBSET Clients :
              BeginUpdate(expired, evicted)
         \/ CheckTimers \/ LeaseExpired \/ WatchdogExpired
  PROVE  TypeInv'
<1> USE DEF routerVars, LoopOnly
<1>1. /\ session \in Session /\ Len(session.intents) <= RecentIntents
      /\ clients \subseteq Clients /\ Cardinality(clients) <= MaxClients
      /\ IsFiniteSet(clients) /\ lp \in LoopState /\ code \in BOOLEAN
      /\ pending \in StopFault \cup {"no"}
      /\ queue \in Seq(Queued) /\ Len(queue) <= QueueCapacity
  BY DEF TypeInv, TypeOK, LoopState
<1>2. lp' = [lp EXCEPT !.at = "take", !.next = "dequeue"] => lp' \in LoopState
  BY <1>1 DEF LoopState, LoopStep
<1>3. CASE \E expired \in BOOLEAN, evicted \in SUBSET Clients :
             BeginUpdate(expired, evicted)
  <2>1. PICK expired \in BOOLEAN, evicted \in SUBSET Clients :
          BeginUpdate(expired, evicted)
    BY <1>3
  <2>2. clients' = clients \ evicted /\ code' \in BOOLEAN
    BY <1>1, <2>1 DEF BeginUpdate
  <2>3. IsFiniteSet(clients') /\ Cardinality(clients') <= Cardinality(clients)
    BY <1>1, <2>2, FS_Subset
  <2>4. Cardinality(clients') <= MaxClients
    <3>1. Cardinality(clients) \in Nat /\ Cardinality(clients') \in Nat
      BY <1>1, <2>3, FS_CardinalityType
    <3>2. QED
      BY <1>1, <2>3, <3>1, WifiAssumption
  <2>5. lp' \in LoopState
    BY <1>1, <2>1, LoopGoesType DEF BeginUpdate, LoopStep
  <2>6. QED
    BY <2>1, <2>2, <2>3, <2>4, <2>5 DEF BeginUpdate, TypeInv, TypeOK, LoopState
<1>4. CASE CheckTimers
  <2>1. session' = session \/ session' = WithWatchdog(session, "off")
    BY <1>4 DEF CheckTimers, WithWatchdog
  <2>2. session' \in Session /\ session'.intents = session.intents
    BY <1>1, <2>1, WithWatchdogType
  <2>3. LoopGoes("leaseExpired") \/ LoopGoes("watchdogExpired")
        \/ lp' = [lp EXCEPT !.at = "take", !.next = "dequeue"]
    BY <1>4 DEF CheckTimers
  <2>4. lp' \in LoopState
    BY <1>1, <1>2, <2>3, LoopGoesType DEF LoopStep
  <2>5. QED
    BY <1>4, <2>2, <2>4 DEF CheckTimers, TypeInv, TypeOK, LoopState
<1>5. CASE LeaseExpired
  <2>1. RevokeController("CONTROLLER_LEASE_EXPIRED")
    BY <1>5 DEF LeaseExpired
  <2>2. lp' \in LoopState
    BY <1>1, <1>5 DEF LeaseExpired, LoopState, LoopStep
  <2>3. QED
    BY <1>5, <2>1, <2>2, TypeRevoke
    DEF LeaseExpired, StopFault, TypeInv, TypeOK, LoopState
<1>6. CASE WatchdogExpired
  <2>1. queue' \in Seq(Queued) /\ Len(queue') <= QueueCapacity
    BY <1>1, <1>6, ShortQueue DEF WatchdogExpired
  <2>2. pending' \in StopFault \cup {"no"}
    BY <1>1, <1>6 DEF WatchdogExpired, StopRequested, StopFault
  <2>3. lp' \in LoopState
    BY <1>2, <1>6 DEF WatchdogExpired
  <2>4. QED
    BY <1>6, <2>1, <2>2, <2>3 DEF WatchdogExpired, TypeInv, TypeOK, LoopState
<1>7. QED
  BY <1>3, <1>4, <1>5, <1>6

\* The stop request does.
LEMMA TypeUpdateStop ==
  ASSUME TypeInv, TakePendingStop \/ ExecutePendingStop
  PROVE  TypeInv'
<1> USE DEF routerVars, LoopOnly
<1>1. /\ session \in Session /\ Len(session.intents) <= RecentIntents
      /\ lp \in LoopState /\ pending \in StopFault \cup {"no"}
      /\ queue \in Seq(Queued) /\ Len(queue) <= QueueCapacity
      /\ epoch \in Nat /\ intervened \in 0 .. epoch /\ robot \in RobotState
  BY DEF TypeInv, TypeOK, LoopState, RobotState
<1>2. CASE TakePendingStop
  <2>1. queue' \in Seq(Queued) /\ Len(queue') <= QueueCapacity
    <3>1. queue' = queue \/ queue' = <<>>
      BY <1>2 DEF TakePendingStop
    <3>2. QED
      BY <1>1, <3>1, ShortQueue
  <2>2. lp' \in LoopState
    <3>1. CASE pending = "no"
      BY <1>1, <1>2, <3>1, AfterStopType DEF TakePendingStop
    <3>2. CASE pending # "no"
      BY <1>1, <1>2, <3>2 DEF TakePendingStop, LoopState, LoopStep
    <3>3. QED
      BY <3>1, <3>2
  <2>3. pending' \in StopFault \cup {"no"}
    BY <1>1, <1>2 DEF TakePendingStop
  <2>4. QED
    BY <1>2, <2>1, <2>2, <2>3 DEF TakePendingStop, TypeInv, TypeOK, LoopState
<1>3. CASE ExecutePendingStop
  <2>1. /\ epoch' \in Nat /\ intervened' \in 0 .. epoch'
        /\ robot' \in RobotState
    <3>1. CASE lp.fault = "NONE"
      <4>1. PICK outcome \in Executed("STOP") : robot' = outcome[1]
        BY <1>3, <3>1 DEF ExecutePendingStop
      <4>2. QED
        BY <1>1, <1>3, <3>1, <4>1, ExecutedType, CountedType
        DEF ExecutePendingStop, Kind
    <3>2. CASE lp.fault # "NONE"
      BY <1>1, <1>3, <3>2, EmergencyType DEF ExecutePendingStop
    <3>3. QED
      BY <3>1, <3>2
  <2>2. session' \in Session /\ session'.intents = session.intents
    BY <1>1, <1>3, WithWatchdogType DEF ExecutePendingStop, WithWatchdog
  <2>3. lp' \in LoopState
    BY <1>1, <1>3, AfterStopType DEF ExecutePendingStop
  <2>4. QED
    BY <1>3, <2>1, <2>2, <2>3
    DEF ExecutePendingStop, TypeInv, TypeOK, LoopState, RobotState
<1>4. QED
  BY <1>2, <1>3

\* The commands of the queue do.
LEMMA TypeUpdateCommands ==
  ASSUME TypeInv,
         \/ Dequeue \/ CheckPendingStop \/ LockDispatch
         \/ ExecuteCommand \/ DropCommand \/ ReportCommand
  PROVE  TypeInv'
<1> USE DEF wifiVars, routerVars, LoopOnly
<1>1. /\ session \in Session /\ Len(session.intents) <= RecentIntents
      /\ session.intents \in Seq(IntentResult)
      /\ lp \in LoopState /\ lp.status \in Status /\ lp.command.kind \in Kind
      /\ queue \in Seq(Queued) /\ Len(queue) <= QueueCapacity
      /\ epoch \in Nat /\ intervened \in 0 .. epoch /\ robot \in RobotState
  BY DEF TypeInv, TypeOK, LoopState, RobotState, Session, Queued, IntentResult
<1>2. CASE Dequeue
  <2>1. CASE pending = "no" /\ queue # <<>>
    <3>1. /\ Tail(queue) \in Seq(Queued) /\ Len(Tail(queue)) = Len(queue) - 1
          /\ Head(queue) \in Queued /\ Len(queue) \in Nat
      BY <1>1, <2>1, Shortened
    <3>2. queue' \in Seq(Queued) /\ Len(queue') <= QueueCapacity
      <4>1. queue' = Tail(queue)
        BY <1>2, <2>1 DEF Dequeue
      <4>2. QueueCapacity \in Nat
        BY WifiAssumption
      <4>3. Len(Tail(queue)) <= QueueCapacity
        BY <1>1, <3>1, <4>2
      <4>4. QED
        BY <3>1, <4>1, <4>3
    <3>3. lp' \in LoopState
      BY <1>1, <1>2, <2>1, <3>1 DEF Dequeue, LoopState, LoopStep
    <3>4. QED
      BY <1>2, <3>2, <3>3 DEF Dequeue, TypeInv, TypeOK, LoopState
  <2>2. CASE ~(pending = "no" /\ queue # <<>>)
    <3>1. lp' \in LoopState
      BY <1>1, <1>2, <2>2 DEF Dequeue, LoopState, LoopStep
    <3>2. QED
      BY <1>2, <2>2, <3>1 DEF Dequeue, TypeInv, TypeOK, LoopState
  <2>3. QED
    BY <2>1, <2>2
<1>3. CASE CheckPendingStop
  <2>1. lp' \in LoopState
    BY <1>1, <1>3 DEF CheckPendingStop, LoopState, LoopStep
  <2>2. QED
    BY <1>3, <2>1 DEF CheckPendingStop, TypeInv, TypeOK, LoopState
<1>4. CASE LockDispatch
  <2>1. SessionCurrent(lp.command) \in BOOLEAN /\ Superseded(lp.command) \in BOOLEAN
    BY <1>1 DEF SessionCurrent, Owns, Superseded, Session
  <2>2. lp' \in LoopState
    BY <1>1, <1>4, <2>1 DEF LockDispatch, LoopState, LoopStep
  <2>3. QED
    BY <1>4, <2>2 DEF LockDispatch, TypeInv, TypeOK, LoopState
<1>5. CASE ExecuteCommand
  <2>1. PICK outcome \in Executed(lp.command.kind) :
          /\ robot' = outcome[1]
          /\ \/ session' = session
             \/ \E w \in {"running", "blind"} : session' = WithWatchdog(session, w)
          /\ lp' = [lp EXCEPT !.at = "report",
                     !.status = IF outcome[2] THEN "SUCCEEDED" ELSE "FAILED"]
    BY <1>5 DEF ExecuteCommand, WithWatchdog
  <2>2. robot' \in RobotState
    BY <1>1, <2>1, ExecutedType
  <2>3. \/ session' = session
        \/ \E w \in {"running", "blind"} : session' = WithWatchdog(session, w)
    BY <2>1
  <2>4. session' \in Session /\ session'.intents = session.intents
    BY <1>1, <2>3, WithWatchdogType
  <2>5. lp' \in LoopState
    <3>1. (IF outcome[2] THEN "SUCCEEDED" ELSE "FAILED") \in Status
      BY DEF Status
    <3>2. QED
      BY <1>1, <2>1, <3>1 DEF LoopState, LoopStep
  <2>6. Intervention(lp.command.kind) \in BOOLEAN
    BY DEF Intervention
  <2>7. epoch' \in Nat /\ intervened' \in 0 .. epoch'
    BY <1>1, <1>5, <2>6, CountedType DEF ExecuteCommand
  <2>8. QED
    BY <1>5, <2>2, <2>4, <2>5, <2>7
    DEF ExecuteCommand, TypeInv, TypeOK, LoopState, RobotState
<1>6. CASE DropCommand
  <2>1. lp' \in LoopState
    BY <1>1, <1>6 DEF DropCommand, LoopState, LoopStep, Status
  <2>2. QED
    BY <1>6, <2>1 DEF DropCommand, TypeInv, TypeOK, LoopState
<1>7. CASE ReportCommand
  <2> DEFINE settled == Settled(session.intents, lp.command.intent, lp.status)
  <2>1. settled \in Seq(IntentResult) /\ Len(settled) = Len(session.intents)
    BY <1>1, SettledType
  <2>2. session' = WithIntents(session, settled)
    BY <1>7 DEF ReportCommand, WithIntents
  <2> HIDE DEF settled
  <2>3. session' \in Session /\ Len(session'.intents) <= RecentIntents
    BY <1>1, <2>1, <2>2, WithIntentsType
  <2>4. lp' \in LoopState
    BY <1>1, <1>7, NoCommandType DEF ReportCommand, LoopState, LoopStep
  <2>5. QED
    BY <1>7, <2>3, <2>4 DEF ReportCommand, TypeInv, TypeOK, LoopState
<1>8. QED
  BY <1>2, <1>3, <1>4, <1>5, <1>6, <1>7

\* What happens between two updates does.
LEMMA TypeBetween ==
  ASSUME TypeInv, GeneratePairingCode \/ FinishWifiOff \/ BetweenUpdates
  PROVE  TypeInv'
<1> USE DEF wifiVars, routerVars, LoopOnly
<1>1. /\ session \in Session /\ Len(session.intents) <= RecentIntents
      /\ lp \in LoopState /\ session.active \in BOOLEAN
      /\ queue \in Seq(Queued) /\ Len(queue) <= QueueCapacity
      /\ pending \in StopFault \cup {"no"} /\ inputs \in 0 .. MaxInputs
      /\ epoch \in Nat /\ intervened \in 0 .. epoch /\ robot \in RobotState
  BY DEF TypeInv, TypeOK, LoopState, RobotState, Session
<1>2. AtRest => inputs' \in 0 .. MaxInputs
  BY <1>1, WifiAssumption DEF AtRest
<1>3. \A b \in BOOLEAN : Counted(b) => epoch' \in Nat /\ intervened' \in 0 .. epoch'
  BY <1>1, CountedType
<1>4. /\ Faulted(robot) \in RobotState /\ Stopped(robot) \in RobotState
      /\ [robot EXCEPT !.state = "DISARMED"] \in RobotState
      /\ [state |-> "ESTOP", driving |-> FALSE] \in RobotState
  BY <1>1 DEF Faulted, Stopped, RobotState
<1>5. CASE GeneratePairingCode
  <2>1. LoopGoes("idle") \/ LoopGoes("take")
    BY <1>5 DEF GeneratePairingCode
  <2>2. lp' \in LoopState
    BY <1>1, <2>1, LoopGoesType DEF LoopStep
  <2>3. QED
    BY <1>5, <2>2 DEF GeneratePairingCode, TypeInv, TypeOK, LoopState
<1>6. CASE FinishWifiOff
  <2>1. queue' \in Seq(Queued) /\ Len(queue') <= QueueCapacity
    <3>1. queue' = queue \/ queue' = <<>>
      BY <1>6 DEF FinishWifiOff
    <3>2. QED
      BY <1>1, <3>1, ShortQueue
  <2>2. /\ epoch' \in Nat /\ intervened' \in 0 .. epoch' /\ robot' \in RobotState
    BY <1>1, <1>6, EmergencyType DEF FinishWifiOff
  <2>3. pending' \in StopFault \cup {"no"}
    <3>1. StopRequested("CONTROLLER_DISCONNECTED") \in StopFault \cup {"no"}
      BY <1>1 DEF StopRequested, StopFault
    <3>2. QED
      BY <1>1, <1>6, <3>1 DEF FinishWifiOff
  <2>4. lp' \in LoopState
    BY <1>1, <1>6, LoopGoesType DEF FinishWifiOff, LoopStep
  <2>5. session' \in Session /\ Len(session'.intents) <= RecentIntents
    BY <1>6, NoSessionType, WifiAssumption DEF FinishWifiOff
  <2>6. QED
    BY <1>6, <2>1, <2>2, <2>3, <2>4, <2>5
    DEF FinishWifiOff, TypeInv, TypeOK, LoopState, RobotState
<1>7. ASSUME NEW kind \in LocalKinds, LocalCommand(kind)
      PROVE  TypeInv'
  <2>1. PICK outcome \in Executed(kind) : robot' = outcome[1]
    BY <1>7 DEF LocalCommand
  <2>2. robot' \in RobotState
    BY <1>1, <1>7, <2>1, ExecutedType, KindAssumption
  <2>3. QED
    BY <1>2, <1>3, <1>7, <2>2 DEF LocalCommand, TypeInv, TypeOK, RobotState
<1>8. CASE LocalEstop
  <2>1. robot' \in RobotState
    BY <1>4, <1>8 DEF LocalEstop
  <2>2. epoch' \in Nat /\ intervened' \in 0 .. epoch'
    BY <1>1, <1>3, <1>8 DEF LocalEstop
  <2>3. QED
    BY <1>2, <1>8, <2>1, <2>2 DEF LocalEstop, TypeInv, TypeOK, RobotState
<1>9. CASE SafetyFaultFound
  BY <1>2, <1>4, <1>9 DEF SafetyFaultFound, TypeInv, TypeOK, RobotState
<1>10. CASE RequestNewPairingCode
  <2>1. lp' \in LoopState
    BY <1>1, <1>10 DEF RequestNewPairingCode, LoopState, LoopStep
  <2>2. epoch' \in Nat /\ intervened' \in 0 .. epoch'
    BY <1>1, <1>3, <1>10 DEF RequestNewPairingCode
  <2>3. QED
    BY <1>2, <1>10, <2>1, <2>2 DEF RequestNewPairingCode, TypeInv, TypeOK, LoopState
<1>11. CASE DriveTimesOut
  BY <1>4, <1>11 DEF DriveTimesOut, TypeInv, TypeOK, RobotState
<1>12. CASE BeginWifiOff
  <2>1. lp' \in LoopState
    BY <1>1, <1>12 DEF BeginWifiOff, LoopState, LoopStep
  <2>2. QED
    BY <1>2, <1>3, <1>12, <2>1 DEF BeginWifiOff, TypeInv, TypeOK, LoopState
<1>13. CASE WifiOn
  <2>1. IsFiniteSet({}) /\ Cardinality({}) = 0
    BY FS_EmptySet
  <2>2. MaxClients \in Nat /\ MaxSessions \in Nat /\ RecentIntents \in Nat
        /\ QueueCapacity \in Nat /\ Len(NoSession.intents) = 0
    BY WifiAssumption, NoSessionType
  <2>3. /\ clients' = {} /\ Cardinality(clients') <= MaxClients
        /\ IsFiniteSet(clients')
        /\ session' \in Session /\ Len(session'.intents) <= RecentIntents
        /\ sessions' = 0 /\ sessions' \in 0 .. MaxSessions
        /\ queue' \in Seq(Queued) /\ Len(queue') <= QueueCapacity
        /\ pending' = "no" /\ running' = TRUE /\ code' = TRUE
    BY <1>13, <2>1, <2>2, EmptyQueue, NoSessionType DEF WifiOn
  <2>4. sessions \in 0 .. MaxSessions /\ epoch' \in Nat /\ intervened' \in 0 .. epoch'
        /\ UNCHANGED <<mutex, robot, cb, lp>> /\ inputs' \in 0 .. MaxInputs
    BY <1>2, <1>3, <1>13 DEF WifiOn, TypeInv, TypeOK
  <2>5. cb.at = "pair" => sessions' < MaxSessions
    BY <2>2, <2>3, <2>4 DEF TypeInv
  <2>6. QED
    BY <2>3, <2>4, <2>5 DEF TypeInv, TypeOK
<1>14. QED
  BY <1>5, <1>6, <1>7, <1>8, <1>9, <1>10, <1>11, <1>12, <1>13 DEF BetweenUpdates

\* Every step keeps the types.
LEMMA TypeStep ==
  ASSUME TypeInv, [MCNext]_mcVars
  PROVE  TypeInv'
<1>1. CASE UNCHANGED mcVars
  BY <1>1 DEF mcVars, vars, wifiVars, routerVars, TypeInv, TypeOK
<1>2. CASE Next
  BY <1>2, TypeArrival, TypeHandler, TypeTime, TypeUpdateTimers, TypeUpdateStop,
     TypeUpdateCommands, TypeBetween
  DEF Next, Update
<1>3. QED
  BY <1>1, <1>2 DEF MCNext

LEMMA TypeInvariant == MCSpec => []TypeInv
<1>1. MCInit => TypeInv
  BY TypeInit DEF MCInit
<1>2. TypeInv /\ [MCNext]_mcVars => TypeInv'
  BY TypeStep
<1>3. QED
  BY <1>1, <1>2, PTL DEF MCSpec

\* The queue, the ring of intents, the client table and the counters keep within
\* their bounds, whatever the two tasks do (TypeOK).
THEOREM WifiTypeCorrect == MCSpec => []TypeOK
BY TypeInvariant, PTL DEF TypeInv

-----------------------------------------------------------------------------
(* The inductive invariant of the safety properties.                       *)
(*                                                                         *)
(* A command is known by its label.  After those that ran comes the one    *)
(* that the loop task carries, then the queue, then the one that the       *)
(* callback task has accepted and not handed in yet.                       *)

Labels == (0 .. MaxSessions) \X Nat \X (Intents \cup {NoIntent})
Origins == (0 .. MaxSessions) \X Nat

Label(command) == <<command.gen, command.id, command.intent>>

Carried(l) == lp.at \in {"check", "lock", "execute"} /\ l = Label(lp.command)
InQueue(l) == \E i \in DOMAIN queue : l = Label(queue[i])
Offered(l) == cb.at \in {"remember", "stamp", "enqueue"} /\ l = Label(cb.command)

Known(l) == l \in ran \/ Carried(l) \/ InQueue(l) \/ Offered(l)

InOrder(l, m) ==
  \E i, j \in DOMAIN queue : i < j /\ l = Label(queue[i]) /\ m = Label(queue[j])

Ahead(l, m) ==
  \/ l \in ran /\ (Carried(m) \/ InQueue(m) \/ Offered(m))
  \/ Carried(l) /\ (InQueue(m) \/ Offered(m))
  \/ InOrder(l, m)
  \/ InQueue(l) /\ Offered(m)

\* Numbers that a pairing and an accepted message have issued.
Issued(gen, id) ==
  /\ 1 <= gen /\ gen <= sessions
  /\ session.active /\ session.gen = gen => id <= session.lastId

HistoryOK ==
  /\ drivenBy \in Origins /\ stopMark \in Origins
  /\ overtaken \subseteq Origins /\ ran \subseteq Labels

\* The dispatch mutex keeps the session while a command is handed over, and a
\* message handler deals with the session it began with, if with any.
SessionInv ==
  /\ session.active => 1 <= session.gen /\ session.gen = sessions
  /\ ~running => cb.at = "idle"
  /\ mutex = "loop" <=> lp.at = "execute"
  /\ lp.at = "execute" =>
       /\ lp.current => SessionCurrent(lp.command)
       /\ lp.superseded <=> Superseded(lp.command)
  /\ cb.at \in {"ping", "accept", "remember", "stamp", "enqueue"} /\ session.active =>
       SessionCurrent(cb.command)

\* Ids grow from the command that ran first to the one accepted last.
OrderInv ==
  /\ \A l \in Labels : Known(l) => Issued(l[1], l[2])
  /\ \A l, m \in Labels : Ahead(l, m) /\ l[1] = m[1] => l[2] < m[2]

\* A command that was overtaken is older than the last intervention, and one
\* that is not in the queue yet has not been overtaken.
Aged(command) ==
  /\ command.epoch <= epoch
  /\ Origin(command) \in overtaken => command.epoch < intervened

OvertakenInv ==
  /\ \A o \in overtaken : Issued(o[1], o[2])
  /\ cb.at \in {"remember", "stamp", "enqueue"} =>
       \A o \in overtaken : o[1] = cb.command.gen => o[2] < cb.command.id
  /\ lp.at \in {"check", "lock", "execute"} => Aged(lp.command)
  /\ \A i \in DOMAIN queue : Aged(queue[i])
  /\ cb.at = "enqueue" => cb.command.epoch <= epoch

\* A command that a stop overtook can only be at the motors or at the loop task,
\* and then the stop is still to come.
Old(gen, id) == 1 <= gen /\ gen = stopMark[1] /\ id <= stopMark[2]

StopComes == pending # "no" \/ lp.at = "stop"

StopInv ==
  /\ stopMark # Nothing => Issued(stopMark[1], stopMark[2])
  /\ \A l \in Labels : InQueue(l) \/ Offered(l) => ~Old(l[1], l[2])
  /\ \A l \in Labels : Carried(l) /\ Old(l[1], l[2]) => StopComes
  /\ Old(drivenBy[1], drivenBy[2]) => StopComes

\* A remote drive is stopped soon, is watched, or has got a new controller.
Attended ==
  \/ pending # "no"
  \/ lp.at \in {"stop", "watchdogExpired"}
  \/ session.active /\ (session.watchdog # "off" \/ session.gen > drivenBy[1])

AttendedInv ==
  drivenBy \notin {Nothing, Abandoned} =>
    drivenBy[1] <= sessions /\ running /\ Attended

SafeInv ==
  /\ HistoryOK /\ SessionInv /\ OrderInv /\ OvertakenInv /\ StopInv /\ AttendedInv

\* While the ring has room for all intents, it holds those of the session's
\* commands, each once.
Own(l) == session.active /\ session.gen = l[1] /\ l[3] # NoIntent

Recalled(l) ==
  l \in ran \/ Carried(l) \/ InQueue(l) \/ (Offered(l) /\ cb.at # "remember")

\* The handler has yet to look for the intent among the remembered ones.
Pondered(l) == cb.at = "remember" /\ l = Label(cb.command)

IntentInv ==
  /\ \A i, j \in DOMAIN session.intents :
       i # j => session.intents[i].intent # session.intents[j].intent
  /\ \A l \in Labels : Own(l) /\ Recalled(l) => Remembered(l[3])
  /\ \A l, m \in Labels :
       Own(l) /\ Own(m) /\ Ahead(l, m) /\ ~Pondered(m) => l[3] # m[3]

-----------------------------------------------------------------------------
(* What a step does to the history.                                        *)

HistoryKept ==
  /\ ran' = ran /\ stopMark' = stopMark
  /\ drivenBy' \in {drivenBy, Nothing, Abandoned}
  /\ ~robot'.driving => drivenBy' = Nothing

\* Nobody's drive: an origin that no session has.
LEMMA NobodysDrive ==
  /\ Nothing \in Origins /\ Abandoned \in Origins
  /\ Nothing[1] = 0 /\ Abandoned[1] = 0
<1>1. 0 \in 0 .. MaxSessions /\ 0 \in Nat /\ 1 \in Nat
  BY WifiAssumption
<1>2. QED
  BY <1>1 DEF Nothing, Abandoned, Origins

OvertakenStep ==
  overtaken' = IF intervened' # intervened THEN overtaken \cup Waiting ELSE overtaken

\* Only ExecuteCommand hands a command over.
LEMMA OnlyExecuteHandsOver ==
  ASSUME TypeInv, Next, HandedOver
  PROVE  ExecuteCommand
<1>1. lp.at = "execute" /\ lp'.at = "report" /\ Executes
  BY DEF HandedOver, Executes
<1>2. lp' # lp
  BY <1>1
<1>3. CASE CallbackArrival \/ CallbackHandler
  BY <1>2, <1>3
  DEF CallbackArrival, CallbackHandler, Connect, Disconnect, ReceivePair, ReceivePing,
      ReceiveControl, Receive, ReceiveStop, RevokeDisconnected, Pair, AcceptPing,
      Accept, Remember, Stamp, Enqueue, ShowNewCode, CallbackOnly
<1>4. CASE LeaseRunsOut \/ WatchdogRunsOut
  BY <1>2, <1>4 DEF LeaseRunsOut, WatchdogRunsOut
<1>5. CASE Update
  BY <1>1, <1>5
  DEF Update, BeginUpdate, CheckTimers, LeaseExpired, WatchdogExpired,
      TakePendingStop, ExecutePendingStop, Dequeue, CheckPendingStop, LockDispatch,
      DropCommand, ReportCommand
<1>6. CASE GeneratePairingCode \/ FinishWifiOff \/ BetweenUpdates
  BY <1>1, <1>6
  DEF GeneratePairingCode, FinishWifiOff, BetweenUpdates, LocalCommand, LocalEstop,
      SafetyFaultFound, RequestNewPairingCode, DriveTimesOut, BeginWifiOff, WifiOn,
      AtRest
<1>7. QED
  BY <1>3, <1>4, <1>5, <1>6 DEF Next

\* Any other step leaves the history alone but for what it overtakes and for a
\* drive that ends.
LEMMA HistoryStep ==
  ASSUME TypeInv, MCNext, ~WifiOn, ~ExecuteCommand,
         ~(\E c \in Clients : ReceiveStop(c, TRUE))
  PROVE  HistoryKept /\ OvertakenStep
<1>1. ~Forgotten /\ ~HandedOver
  BY OnlyExecuteHandsOver DEF Forgotten, MCNext
<1>2. ran' = ran
  BY <1>1 DEF MCNext, RanNext
<1>3. stopMark' = stopMark
  BY <1>1 DEF MCNext, StopMarkNext
<1>4. /\ drivenBy' \in {drivenBy, Nothing, Abandoned}
      /\ ~robot'.driving => drivenBy' = Nothing
  BY <1>1 DEF MCNext, DrivenByNext
<1>5. OvertakenStep
  BY <1>1 DEF MCNext, OvertakenNext, OvertakenStep
<1>6. QED
  BY <1>2, <1>3, <1>4, <1>5 DEF HistoryKept

-----------------------------------------------------------------------------
(* A quiet step accepts no command, hands none in and takes none out of the *)
(* queue: what is in flight afterwards was in flight before, in that order. *)

Carrying == lp.at \in {"check", "lock", "execute"}
Accepted == cb.at \in {"remember", "stamp", "enqueue"}

QuietFlight ==
  /\ Carrying' => Carrying /\ lp'.command = lp.command
  /\ queue' = queue \/ queue' = <<>>
  /\ Accepted' => Accepted /\ Label(cb'.command) = Label(cb.command)

Thinned ==
  /\ \A l : Known(l)' => Known(l)
  /\ \A l, m : Ahead(l, m)' => Ahead(l, m)

\* The numbers that were issued stay so.
Growing == \A gen, id \in Nat : Issued(gen, id) => Issued(gen, id)'

\* The session goes on, perhaps with a later id, or ends.
Later ==
  /\ sessions' = sessions
  /\ session'.active =>
       /\ session.active /\ session'.gen = session.gen
       /\ session'.client = session.client /\ session.lastId <= session'.lastId

\* The epochs, and the commands that an intervention overtakes.
RouterStep ==
  \/ UNCHANGED <<epoch, intervened>>
  \/ epoch' = epoch + 1 /\ intervened' = intervened
  \/ epoch' = epoch + 1 /\ intervened' = epoch + 1

LEMMA LabelType ==
  ASSUME NEW c \in Queued
  PROVE  /\ Label(c) \in Labels /\ Origin(c) \in Origins
         /\ Label(c)[1] = c.gen /\ Label(c)[2] = c.id /\ Label(c)[3] = c.intent
         /\ Origin(c)[1] = c.gen /\ Origin(c)[2] = c.id
         /\ c.gen \in Nat /\ c.id \in Nat /\ c.epoch \in Nat
<1>1. /\ c.gen \in 0 .. MaxSessions /\ c.id \in Nat
      /\ c.intent \in Intents \cup {NoIntent} /\ c.epoch \in Nat
  BY DEF Queued
<1>2. QED
  BY <1>1, WifiAssumption DEF Label, Origin, Labels, Origins

LEMMA LabelsNat ==
  ASSUME NEW l \in Labels
  PROVE  l[1] \in 0 .. MaxSessions /\ l[2] \in Nat /\ l[1] \in Nat /\ l[2] \in Nat
BY WifiAssumption DEF Labels

LEMMA OriginsNat ==
  ASSUME NEW o \in Origins
  PROVE  o[1] \in 0 .. MaxSessions /\ o[2] \in Nat /\ o[1] \in Nat /\ o[2] \in Nat
BY WifiAssumption DEF Origins

LEMMA QuietThins ==
  ASSUME QuietFlight, ran' = ran
  PROVE  Thinned
<1>1. \A l : Carried(l)' => Carried(l)
  BY DEF QuietFlight, Carrying, Carried
<1>2. \A l : Offered(l)' => Offered(l)
  BY DEF QuietFlight, Accepted, Offered
<1>3. /\ \A l : InQueue(l)' => InQueue(l)
      /\ \A l, m : InOrder(l, m)' => InOrder(l, m)
  <2>1. CASE queue' = queue
    BY <2>1 DEF InQueue, InOrder
  <2>2. CASE queue' = <<>>
    <3>1. DOMAIN queue' = {}
      BY <2>2
    <3>2. QED
      BY <3>1 DEF InQueue, InOrder
  <2>3. QED
    BY <2>1, <2>2 DEF QuietFlight
<1>4. QED
  BY <1>1, <1>2, <1>3 DEF Thinned, Known, Ahead

LEMMA LaterGrows ==
  ASSUME TypeInv, TypeInv', Later
  PROVE  Growing
<1>1. session.lastId \in Nat /\ session'.lastId \in Nat
  BY WifiAssumption DEF TypeInv, TypeOK, Session
<1>2. QED
  BY <1>1 DEF Later, Growing, Issued

LEMMA ThinnedKeepsOrder ==
  ASSUME OrderInv, Thinned, Growing
  PROVE  OrderInv'
<1>1. \A l \in Labels : Known(l)' => Issued(l[1], l[2])'
  <2> SUFFICES ASSUME NEW l \in Labels, Known(l)' PROVE Issued(l[1], l[2])'
    OBVIOUS
  <2>1. Issued(l[1], l[2])
    BY DEF Thinned, OrderInv
  <2>2. QED
    BY <2>1, LabelsNat DEF Growing
<1>2. \A l, m \in Labels : Ahead(l, m)' /\ l[1] = m[1] => l[2] < m[2]
  BY DEF Thinned, OrderInv
<1>3. QED
  BY <1>1, <1>2 DEF OrderInv

LEMMA QuietKeepsHistory ==
  ASSUME TypeInv, HistoryOK, HistoryKept, OvertakenStep
  PROVE  HistoryOK'
<1>1. Nothing \in Origins /\ Abandoned \in Origins
  BY NobodysDrive
<1>2. Waiting \subseteq Origins
  <2>1. \A i \in DOMAIN queue : queue[i] \in Queued
    BY DEF TypeInv, TypeOK
  <2>2. lp.command \in Queued
    BY DEF TypeInv, TypeOK
  <2>3. QED
    BY <2>1, <2>2, LabelType DEF Waiting
<1>3. QED
  BY <1>1, <1>2 DEF HistoryOK, HistoryKept, OvertakenStep

\* What waits has been issued numbers, and lies ahead of what is on offer.
LEMMA WaitingIssued ==
  ASSUME TypeInv, OrderInv, NEW o \in Waiting
  PROVE  /\ Issued(o[1], o[2]) /\ o[1] \in Nat /\ o[2] \in Nat
         /\ Accepted /\ o[1] = cb.command.gen => o[2] < cb.command.id
<1>1. PICK c \in Queued :
        /\ o = Origin(c)
        /\ InQueue(Label(c)) \/ Carried(Label(c))
  <2>1. CASE \E i \in DOMAIN queue : o = Origin(queue[i])
    BY <2>1 DEF InQueue, TypeInv, TypeOK
  <2>2. CASE lp.at \in {"check", "lock"} /\ o = Origin(lp.command)
    BY <2>2 DEF Carried, TypeInv, TypeOK
  <2>3. QED
    BY <2>1, <2>2 DEF Waiting
<1>2. /\ Label(c) \in Labels /\ Label(c)[1] = o[1] /\ Label(c)[2] = o[2]
      /\ o[1] \in Nat /\ o[2] \in Nat
  BY <1>1, LabelType
<1>3. Issued(o[1], o[2])
  BY <1>1, <1>2 DEF OrderInv, Known
<1>4. ASSUME Accepted, o[1] = cb.command.gen
      PROVE  o[2] < cb.command.id
  <2>1. cb.command \in Queued
    BY DEF TypeInv, TypeOK
  <2>2. /\ Label(cb.command) \in Labels /\ Label(cb.command)[1] = cb.command.gen
        /\ Label(cb.command)[2] = cb.command.id
    BY <2>1, LabelType
  <2>3. Ahead(Label(c), Label(cb.command))
    BY <1>1, <1>4 DEF Ahead, Offered, Accepted
  <2>4. QED
    BY <1>2, <1>4, <2>2, <2>3 DEF OrderInv
<1>5. QED
  BY <1>2, <1>3, <1>4

\* An old command stays overtaken and a waiting one becomes so.
LEMMA AgedStays ==
  ASSUME TypeInv, RouterStep, OvertakenStep, NEW c \in Queued, Aged(c)
  PROVE  Aged(c)'
<1>1. epoch \in Nat /\ intervened \in Nat /\ intervened <= epoch /\ c.epoch \in Nat
  BY LabelType DEF TypeInv, TypeOK
<1>2. Origin(c)' = Origin(c)
  BY DEF Origin
<1>3. c.epoch <= epoch'
  BY <1>1 DEF RouterStep, Aged
<1>4. CASE intervened' = intervened
  BY <1>2, <1>3, <1>4 DEF OvertakenStep, Aged
<1>5. CASE intervened' = epoch + 1
  BY <1>1, <1>3, <1>5 DEF Aged
<1>6. QED
  BY <1>4, <1>5 DEF RouterStep

LEMMA QuietKeepsOvertaken ==
  ASSUME TypeInv, HistoryOK, OrderInv, OvertakenInv,
         QuietFlight, Growing, RouterStep, OvertakenStep,
         cb'.at = "enqueue" => cb'.command.epoch <= epoch'
  PROVE  OvertakenInv'
<1>1. \A o \in overtaken' : o \in overtaken \/ o \in Waiting
  BY DEF OvertakenStep
<1>2. \A o \in overtaken : o[1] \in Nat /\ o[2] \in Nat
  BY OriginsNat DEF HistoryOK
<1>3. \A o \in overtaken' : Issued(o[1], o[2])'
  <2> SUFFICES ASSUME NEW o \in overtaken' PROVE Issued(o[1], o[2])'
    OBVIOUS
  <2>1. Issued(o[1], o[2]) /\ o[1] \in Nat /\ o[2] \in Nat
    BY <1>1, <1>2, WaitingIssued DEF OvertakenInv
  <2>2. QED
    BY <2>1 DEF Growing
<1>4. ASSUME Accepted', NEW o \in overtaken', o[1] = cb'.command.gen
      PROVE  o[2] < cb'.command.id
  <2>1. Accepted /\ Label(cb'.command) = Label(cb.command)
    BY <1>4 DEF QuietFlight
  <2>2. cb'.command.gen = cb.command.gen /\ cb'.command.id = cb.command.id
    BY <2>1 DEF Label
  <2>3. CASE o \in overtaken
    BY <1>4, <2>1, <2>2, <2>3 DEF OvertakenInv, Accepted
  <2>4. CASE o \in Waiting
    BY <1>4, <2>1, <2>2, <2>4, WaitingIssued
  <2>5. QED
    BY <1>1, <1>4, <2>3, <2>4
<1>5. Carrying' => Aged(lp.command)' /\ lp'.command = lp.command
  <2> SUFFICES ASSUME Carrying' PROVE Aged(lp.command)' /\ lp'.command = lp.command
    OBVIOUS
  <2>1. Carrying /\ lp'.command = lp.command
    BY DEF QuietFlight
  <2>2. Aged(lp.command) /\ lp.command \in Queued
    BY <2>1 DEF OvertakenInv, Carrying, TypeInv, TypeOK
  <2> DEFINE c == lp.command
  <2>3. \A d \in Queued : Aged(d) => d.epoch <= epoch' /\
          (Origin(d) \in overtaken' => d.epoch < intervened')
    BY AgedStays DEF Aged, Origin
  <2>4. QED
    BY <2>1, <2>2, <2>3 DEF Aged, Origin
<1>6. \A i \in DOMAIN queue' : Aged(queue[i])'
  <2>1. CASE queue' = queue
    <3> SUFFICES ASSUME NEW i \in DOMAIN queue' PROVE Aged(queue[i])'
      OBVIOUS
    <3>1. Aged(queue[i]) /\ queue[i] \in Queued
      BY <2>1 DEF OvertakenInv, TypeInv, TypeOK
    <3>2. \A d \in Queued : Aged(d) => d.epoch <= epoch' /\
            (Origin(d) \in overtaken' => d.epoch < intervened')
      BY AgedStays DEF Aged, Origin
    <3>3. QED
      BY <2>1, <3>1, <3>2 DEF Aged, Origin
  <2>2. CASE queue' = <<>>
    BY <2>2
  <2>3. QED
    BY <2>1, <2>2 DEF QuietFlight
<1>7. QED
  BY <1>3, <1>4, <1>5, <1>6 DEF OvertakenInv, Accepted, Carrying

LEMMA QuietKeepsStop ==
  ASSUME HistoryOK, OrderInv, StopInv, HistoryKept, QuietFlight, ran' = ran, Growing,
         StopComes => StopComes' \/ (drivenBy' = Nothing /\ ~Carrying')
  PROVE  StopInv'
<1>1. stopMark' = stopMark
  BY DEF HistoryKept
<1>2. \A g, n : Old(g, n)' <=> Old(g, n)
  BY <1>1 DEF Old
<1>3. stopMark # Nothing => Issued(stopMark[1], stopMark[2])'
  <2>1. stopMark[1] \in Nat /\ stopMark[2] \in Nat
    BY OriginsNat DEF HistoryOK
  <2>2. \A gen, id \in Nat : Issued(gen, id) =>
          1 <= gen /\ gen <= sessions'
          /\ (session'.active /\ session'.gen = gen => id <= session'.lastId)
    BY DEF Growing, Issued
  <2>3. QED
    BY <1>1, <2>1, <2>2 DEF StopInv, Issued
<1>4. \A l : /\ InQueue(l)' => InQueue(l)
             /\ Offered(l)' => Offered(l)
             /\ Carried(l)' => Carried(l) /\ Carrying'
  <2>1. \A l : Carried(l)' => Carried(l) /\ Carrying'
    BY DEF QuietFlight, Carrying, Carried
  <2>2. \A l : Offered(l)' => Offered(l)
    BY DEF QuietFlight, Accepted, Offered
  <2>3. \A l : InQueue(l)' => InQueue(l)
    BY DEF QuietFlight, InQueue
  <2>4. QED
    BY <2>1, <2>2, <2>3
<1>5. \A l \in Labels : InQueue(l)' \/ Offered(l)' => ~Old(l[1], l[2])'
  BY <1>2, <1>4 DEF StopInv
<1>6. \A l \in Labels : Carried(l)' /\ Old(l[1], l[2])' => StopComes'
  BY <1>2, <1>4 DEF StopInv
<1>7. Old(drivenBy'[1], drivenBy'[2]) => StopComes'
  <2>1. CASE drivenBy' \in {Nothing, Abandoned}
    <3>1. drivenBy'[1] = 0
      BY <2>1, NobodysDrive
    <3>2. QED
      BY <3>1 DEF Old
  <2>2. CASE drivenBy' = drivenBy /\ drivenBy' # Nothing
    BY <2>2 DEF StopInv
  <2>3. QED
    BY <2>1, <2>2 DEF HistoryKept
<1>8. QED
  BY <1>1, <1>2, <1>3, <1>5, <1>6, <1>7 DEF StopInv

LEMMA QuietKeepsAttended ==
  ASSUME AttendedInv, HistoryKept, sessions' \in Nat, sessions \in Nat,
         drivenBy \in Origins, sessions <= sessions',
         running => running' \/ drivenBy' \in {Nothing, Abandoned},
         drivenBy' = drivenBy /\ drivenBy # Nothing /\ Attended => Attended'
  PROVE  AttendedInv'
<1>1. drivenBy[1] \in Nat
  BY OriginsNat
<1>2. QED
  BY <1>1 DEF AttendedInv, HistoryKept

\* A quiet step keeps everything but, perhaps, SessionInv.
LEMMA QuietStep ==
  ASSUME TypeInv, TypeInv', SafeInv, HistoryKept, OvertakenStep,
         QuietFlight, Growing, sessions <= sessions', RouterStep,
         cb'.at = "enqueue" => cb'.command.epoch <= epoch',
         StopComes => StopComes' \/ (drivenBy' = Nothing /\ ~Carrying'),
         running => running' \/ drivenBy' \in {Nothing, Abandoned},
         drivenBy' = drivenBy /\ drivenBy # Nothing /\ Attended => Attended',
         SessionInv'
  PROVE  SafeInv'
<1>1. ran' = ran
  BY DEF HistoryKept
<1>2. HistoryOK'
  BY QuietKeepsHistory DEF SafeInv
<1>3. OrderInv'
  BY <1>1, QuietThins, ThinnedKeepsOrder DEF SafeInv
<1>4. OvertakenInv'
  BY QuietKeepsOvertaken DEF SafeInv
<1>5. StopInv'
  BY <1>1, QuietKeepsStop DEF SafeInv
<1>6. AttendedInv'
  <2>1. sessions \in Nat /\ sessions' \in Nat /\ drivenBy \in Origins
    BY WifiAssumption DEF TypeInv, TypeOK, SafeInv, HistoryOK
  <2>2. QED
    BY <2>1, QuietKeepsAttended DEF SafeInv
<1>7. QED
  BY <1>2, <1>3, <1>4, <1>5, <1>6 DEF SafeInv

-----------------------------------------------------------------------------
(* The callback task keeps the safety invariant.                           *)

\* What the session's operators leave alone.
Same(s, t) ==
  /\ t.active = s.active /\ t.client = s.client /\ t.gen = s.gen
  /\ t.lastId = s.lastId

LEMMA SameFields ==
  ASSUME NEW s \in Session, NEW w, NEW intents
  PROVE  /\ Same(s, Refreshed(s)) /\ Refreshed(s).watchdog = s.watchdog
         /\ Same(s, OutOfLease(s)) /\ OutOfLease(s).watchdog = s.watchdog
         /\ Same(s, WithIntents(s, intents))
         /\ WithIntents(s, intents).watchdog = s.watchdog
         /\ Same(s, WithWatchdog(s, w)) /\ WithWatchdog(s, w).watchdog = w
<1>1. Same(s, Refreshed(s)) /\ Refreshed(s).watchdog = s.watchdog
  BY DEF Session, Same, Refreshed
<1>2. Same(s, OutOfLease(s)) /\ OutOfLease(s).watchdog = s.watchdog
  BY DEF Session, Same, OutOfLease
<1>3. Same(s, WithIntents(s, intents))
      /\ WithIntents(s, intents).watchdog = s.watchdog
  BY DEF Session, Same, WithIntents
<1>4. Same(s, WithWatchdog(s, w)) /\ WithWatchdog(s, w).watchdog = w
  BY DEF Session, Same, WithWatchdog
<1>5. QED
  BY <1>1, <1>2, <1>3, <1>4

LEMMA WithLastIdFields ==
  ASSUME NEW s \in Session, NEW id
  PROVE  LET t == WithLastId(s, id)
         IN /\ t.active = s.active /\ t.client = s.client /\ t.gen = s.gen
            /\ t.lastId = id /\ t.watchdog = s.watchdog /\ t.intents = s.intents
BY DEF Session, WithLastId

LEMMA NoSessionFields == ~NoSession.active /\ NoSession.watchdog = "off"
BY DEF NoSession

LEMMA SameIsLater ==
  ASSUME TypeInv, Same(session, session'), sessions' = sessions
  PROVE  Later /\ (session'.active <=> session.active)
<1>1. session.lastId \in Nat
  BY WifiAssumption DEF TypeInv, TypeOK, Session
<1>2. QED
  BY <1>1 DEF Same, Later

InMessage == cb.at \in {"ping", "accept", "remember", "stamp", "enqueue"}

LEMMA SessionKept ==
  ASSUME TypeInv, TypeInv', SessionInv, Later,
         lp.at = "execute" /\ session.active => session'.active,
         UNCHANGED <<running, mutex, lp, intervened>>,
         ~running => cb'.at = "idle",
         InMessage' =>
           \/ /\ InMessage
              /\ cb'.command.gen = cb.command.gen
              /\ cb'.command.client = cb.command.client
           \/ session'.active => SessionCurrent(cb.command)'
  PROVE  SessionInv'
<1>1. session'.active => 1 <= session'.gen /\ session'.gen = sessions'
  BY DEF SessionInv, Later
<1>2. ~running' => cb'.at = "idle"
  OBVIOUS
<1>3. mutex' = "loop" <=> lp'.at = "execute"
  BY DEF SessionInv
<1>4. ASSUME lp'.at = "execute"
      PROVE  (lp'.current => SessionCurrent(lp.command)')
             /\ (lp'.superseded <=> Superseded(lp.command)')
  <2>1. /\ lp.current => SessionCurrent(lp.command)
        /\ lp.superseded <=> Superseded(lp.command)
    BY <1>4 DEF SessionInv
  <2>2. SessionCurrent(lp.command) => SessionCurrent(lp.command)'
    BY <1>4 DEF SessionCurrent, Owns, Later
  <2>3. Superseded(lp.command)' <=> Superseded(lp.command)
    BY DEF Superseded, Intervention
  <2>4. QED
    BY <2>1, <2>2, <2>3
<1>5. ASSUME InMessage', session'.active
      PROVE  SessionCurrent(cb.command)'
  <2>1. CASE /\ InMessage /\ cb'.command.gen = cb.command.gen
             /\ cb'.command.client = cb.command.client
    <3>1. SessionCurrent(cb.command)
      BY <1>5, <2>1 DEF SessionInv, InMessage, Later
    <3>2. QED
      BY <1>5, <2>1, <3>1 DEF SessionCurrent, Owns, Later
  <2>2. QED
    BY <1>5, <2>1
<1>6. QED
  BY <1>1, <1>2, <1>3, <1>4, <1>5 DEF SessionInv, InMessage

\* A step of the callback task that accepts nothing and hands nothing in, and
\* whose session stays the one it was.
LEMMA CallbackQuietStep ==
  ASSUME TypeInv, TypeInv', SafeInv, HistoryKept, OvertakenStep,
         UNCHANGED <<running, mutex, lp, epoch, intervened, sessions>>,
         Same(session, session'),
         session.watchdog # "off" => session'.watchdog # "off",
         queue' = queue \/ queue' = <<>>,
         pending # "no" => pending' # "no",
         ~running => cb'.at = "idle",
         Accepted' => /\ Accepted /\ cb'.command.gen = cb.command.gen
                      /\ cb'.command.id = cb.command.id
                      /\ cb'.command.intent = cb.command.intent,
         cb'.at = "enqueue" => cb'.command.epoch <= epoch,
         InMessage' =>
           \/ /\ InMessage
              /\ cb'.command.gen = cb.command.gen
              /\ cb'.command.client = cb.command.client
           \/ session'.active => SessionCurrent(cb.command)'
  PROVE  SafeInv'
<1>1. Later /\ (session'.active <=> session.active)
  BY SameIsLater
<1>2. SessionInv'
  BY <1>1, SessionKept DEF SafeInv
<1>3. QuietFlight
  BY DEF QuietFlight, Carrying, Accepted, Label
<1>4. Growing
  BY <1>1, LaterGrows
<1>5. sessions <= sessions'
  BY WifiAssumption DEF TypeInv, TypeOK
<1>6. RouterStep
  BY DEF RouterStep
<1>7. StopComes => StopComes'
  BY DEF StopComes
<1>8. drivenBy' = drivenBy /\ Attended => Attended'
  BY <1>1 DEF Attended, Same
<1>9. QED
  BY <1>2, <1>3, <1>4, <1>5, <1>6, <1>7, <1>8, QuietStep

LEMMA SafeArrival ==
  ASSUME TypeInv, TypeInv', SafeInv, HistoryKept, OvertakenStep, CallbackArrival,
         ~(\E c \in Clients : ReceiveStop(c, TRUE))
  PROVE  SafeInv'
<1> USE DEF wifiVars, routerVars, CallbackOnly
<1>1. session \in Session /\ pending \in StopFault \cup {"no"}
  BY DEF TypeInv, TypeOK
<1>2. PICK c \in Clients :
        \/ Connect(c)
        \/ Disconnect(c)
        \/ ReceivePair(c)
        \/ \E id \in RequestIds :
             \/ ReceivePing(c, id)
             \/ \E kind \in RemoteKinds, intent \in Intents \cup {NoIntent} :
                  ReceiveControl(c, kind, id, intent)
        \/ \E tokenMatches \in BOOLEAN : ReceiveStop(c, tokenMatches)
  BY DEF CallbackArrival
<1>3. CASE Connect(c)
  <2>1. session' = session /\ cb'.at = "idle"
    BY <1>3 DEF Connect
  <2>2. QED
    BY <1>3, <2>1, CallbackQuietStep DEF Connect, Same, Accepted, InMessage
<1>4. CASE Disconnect(c)
  <2>1. session' = session /\ cb'.at \in {"idle", "revoke"}
    BY <1>4 DEF Disconnect, CallbackGoes, TypeInv, TypeOK
  <2>2. QED
    BY <1>4, <2>1, CallbackQuietStep DEF Disconnect, Same, Accepted, InMessage
<1>5. CASE ReceivePair(c)
  <2>1. session' = session /\ cb'.at = "pair"
    BY <1>5 DEF ReceivePair
  <2>2. QED
    BY <1>5, <2>1, CallbackQuietStep DEF ReceivePair, Same, Accepted, InMessage
<1>6. CASE \E id \in RequestIds :
             \/ ReceivePing(c, id)
             \/ \E kind \in RemoteKinds, intent \in Intents \cup {NoIntent} :
                  ReceiveControl(c, kind, id, intent)
  <2>1. PICK step \in {"ping", "accept"}, kind \in Kind, id \in Nat,
             intent \in Intents \cup {NoIntent} : Receive(c, step, kind, id, intent)
    BY <1>6, KindAssumption, WifiAssumption DEF ReceivePing, ReceiveControl, Kind
  <2>2. session' = session /\ cb'.at \in {"ping", "accept"}
    BY <2>1 DEF Receive
  <2>3. cb'.command.gen = session'.gen /\ cb'.command.client = session'.client
    BY <2>1 DEF Receive
  <2>4. SessionCurrent(cb.command)'
    BY <2>1, <2>2, <2>3 DEF Receive, SessionCurrent, Owns
  <2>5. QED
    BY <2>1, <2>2, <2>4, CallbackQuietStep DEF Receive, Same, Accepted
<1>7. CASE \E tokenMatches \in BOOLEAN : ReceiveStop(c, tokenMatches)
  <2>1. ReceiveStop(c, FALSE)
    BY <1>7
  <2>2. session' = Refreshed(session) /\ cb' = cb /\ cb.at = "idle"
    BY <2>1 DEF ReceiveStop
  <2>3. Same(session, session') /\ session'.watchdog = session.watchdog
    BY <1>1, <2>2, SameFields
  <2>4. /\ UNCHANGED <<running, mutex, lp, epoch, intervened, sessions>>
        /\ queue' = queue /\ pending' = pending
    BY <2>1 DEF ReceiveStop
  <2>5. ~Accepted' /\ ~InMessage' /\ cb'.at = "idle"
    BY <2>2 DEF Accepted, InMessage
  <2>6. QED
    BY <2>3, <2>4, <2>5, CallbackQuietStep
<1>8. QED
  BY <1>2, <1>3, <1>4, <1>5, <1>6, <1>7

\* A stop that carries the token.
LEMMA SafeStopMessage ==
  ASSUME TypeInv, TypeInv', SafeInv, MCNext, ~WifiOn, NEW c \in Clients,
         ReceiveStop(c, TRUE)
  PROVE  SafeInv'
<1> USE DEF wifiVars, routerVars, CallbackOnly
<1>1. /\ session \in Session /\ pending \in StopFault \cup {"no"}
      /\ session.gen \in 0 .. MaxSessions /\ session.lastId \in Nat
  BY DEF TypeInv, TypeOK, Session
<1>2. /\ UNCHANGED <<running, mutex, lp, epoch, intervened, sessions, cb, robot>>
      /\ queue' = <<>> /\ pending' = StopRequested("NONE")
      /\ session.active /\ cb.at = "idle" /\ session' = Refreshed(session)
  BY DEF ReceiveStop
<1>3. pending' # "no"
  BY <1>2 DEF StopRequested
<1>4. Same(session, session') /\ session'.watchdog = session.watchdog
  BY <1>1, <1>2, SameFields
<1>5. Later /\ (session'.active <=> session.active)
  BY <1>2, <1>4, SameIsLater
<1>6. SessionInv'
  BY <1>2, <1>5, SessionKept DEF SafeInv, InMessage
<1>7. QuietFlight
  BY <1>2 DEF QuietFlight, Carrying, Accepted
<1>8. Growing
  BY <1>5, LaterGrows
<1>9. ~Forgotten /\ ~HandedOver
  BY <1>2 DEF Forgotten, HandedOver, Executes
<1>10. /\ ran' = ran /\ overtaken' = overtaken
       /\ drivenBy' \in {drivenBy, Nothing, Abandoned}
       /\ stopMark' = <<session.gen, session.lastId>>
  <2>1. ran' = ran /\ overtaken' = overtaken
    BY <1>2, <1>9 DEF MCNext, RanNext, OvertakenNext
  <2>2. drivenBy' \in {drivenBy, Nothing, Abandoned}
    BY <1>9 DEF MCNext, DrivenByNext
  <2>3. stopMark' = <<session.gen, session.lastId>>
    BY <1>9 DEF MCNext, StopMarkNext
  <2>4. QED
    BY <2>1, <2>2, <2>3
<1>11. HistoryOK'
  <2>1. stopMark' \in Origins
    BY <1>1, <1>10 DEF Origins
  <2>2. QED
    BY <1>10, <2>1, NobodysDrive DEF SafeInv, HistoryOK
<1>12. OrderInv'
  BY <1>7, <1>8, <1>10, QuietThins, ThinnedKeepsOrder DEF SafeInv
<1>13. OvertakenInv'
  <2>1. RouterStep /\ OvertakenStep /\ cb'.at # "enqueue"
    BY <1>2, <1>10 DEF RouterStep, OvertakenStep
  <2>2. QED
    BY <1>7, <1>8, <2>1, QuietKeepsOvertaken DEF SafeInv
<1>14. StopInv'
  <2>1. stopMark'[1] = session.gen /\ stopMark'[2] = session.lastId
    BY <1>10
  <2>2. Issued(stopMark[1], stopMark[2])'
    BY <1>1, <1>2, <1>4, <2>1 DEF SafeInv, SessionInv, Issued, Same
  <2>3. StopComes'
    BY <1>3 DEF StopComes
  <2>4. \A l \in Labels : ~InQueue(l)' /\ ~Offered(l)'
    BY <1>2 DEF InQueue, Offered
  <2>5. QED
    BY <2>2, <2>3, <2>4 DEF StopInv
<1>15. AttendedInv'
  <2>1. Attended'
    BY <1>3 DEF Attended
  <2>2. QED
    BY <1>2, <1>10, <2>1 DEF SafeInv, AttendedInv
<1>16. QED
  BY <1>6, <1>11, <1>12, <1>13, <1>14, <1>15 DEF SafeInv

\* revokeController() ends the session outside of a hand-over, and whoever had
\* one has a stop to expect.
LEMMA Revoked ==
  ASSUME TypeInv, SessionInv, NEW fault \in StopFault, fault # "NONE",
         RevokeController(fault)
  PROVE  /\ Later /\ ~session'.active /\ lp.at # "execute"
         /\ queue' = queue \/ queue' = <<>>
         /\ pending # "no" \/ session.active => pending' # "no"
         /\ UNCHANGED <<running, mutex, sessions>>
<1>1. mutex = "free" /\ UNCHANGED <<running, mutex, sessions>>
  BY DEF RevokeController
<1>2. lp.at # "execute"
  BY <1>1 DEF SessionInv
<1>3. CASE session.active
  <2>1. /\ session' = NoSession /\ queue' = <<>> /\ pending' = StopRequested(fault)
    BY <1>3 DEF RevokeController
  <2>2. pending' # "no"
    BY <2>1 DEF StopRequested, StopFault
  <2>3. QED
    BY <1>1, <1>2, <2>1, <2>2, NoSessionFields DEF Later
<1>4. CASE ~session.active
  BY <1>1, <1>2, <1>4 DEF RevokeController, Later
<1>5. QED
  BY <1>3, <1>4

LEMMA SafeRevokeDisconnected ==
  ASSUME TypeInv, TypeInv', SafeInv, HistoryKept, OvertakenStep, RevokeDisconnected
  PROVE  SafeInv'
<1>1. /\ RevokeController("CONTROLLER_DISCONNECTED")
      /\ UNCHANGED <<epoch, intervened, lp>>
  BY DEF RevokeDisconnected, CallbackOnly, routerVars
<1>0. cb'.at \in {"idle", "newCode"} /\ (~running => cb'.at = "idle")
  <2>1. cb \in [at: CallbackStep, command: Queued] /\ cb.at = "revoke"
    BY DEF RevokeDisconnected, TypeInv, TypeOK
  <2>2. running
    BY <2>1 DEF SafeInv, SessionInv
  <2>3. CallbackDone \/ CallbackGoes("newCode")
    BY DEF RevokeDisconnected
  <2>4. QED
    BY <2>1, <2>2, <2>3 DEF CallbackDone, CallbackGoes
<1>2. /\ Later /\ ~session'.active /\ lp.at # "execute"
      /\ queue' = queue \/ queue' = <<>>
      /\ pending # "no" \/ session.active => pending' # "no"
      /\ UNCHANGED <<running, mutex, sessions>>
  BY <1>1, Revoked DEF SafeInv, StopFault
<1>3. SessionInv'
  BY <1>0, <1>1, <1>2, SessionKept DEF SafeInv, InMessage
<1>4. QuietFlight /\ RouterStep
  BY <1>0, <1>1, <1>2 DEF QuietFlight, Carrying, Accepted, RouterStep
<1>5. Growing /\ sessions <= sessions'
  BY <1>2, LaterGrows, WifiAssumption DEF TypeInv, TypeOK
<1>6. StopComes => StopComes'
  BY <1>1, <1>2 DEF StopComes
<1>7. Attended => Attended'
  BY <1>1, <1>2 DEF Attended
<1>8. QED
  BY <1>0, <1>1, <1>2, <1>3, <1>4, <1>5, <1>6, <1>7, QuietStep

\* The new code is on the display.
LEMMA SafeShowNewCode ==
  ASSUME TypeInv, TypeInv', SafeInv, HistoryKept, OvertakenStep, ShowNewCode
  PROVE  SafeInv'
<1>1. /\ UNCHANGED <<running, mutex, lp, epoch, intervened, sessions, session>>
      /\ UNCHANGED <<queue, pending>> /\ cb'.at = "idle"
  BY DEF ShowNewCode, CallbackDone, CallbackOnly, routerVars
<1>2. QED
  BY <1>1, CallbackQuietStep DEF Same, Accepted, InMessage

LEMMA SafePair ==
  ASSUME TypeInv, TypeInv', SafeInv, HistoryKept, OvertakenStep, Pair
  PROVE  SafeInv'
<1> DEFINE paired == Paired(cb.command.client, sessions + 1)
<1>1. /\ UNCHANGED <<epoch, intervened, lp, running, pending, mutex>>
      /\ cb'.at = "idle" /\ mutex = "free"
  BY DEF Pair, CallbackDone, CallbackOnly, routerVars
<1>2. \/ session' = paired /\ sessions' = sessions + 1 /\ queue' = <<>>
      \/ UNCHANGED <<session, sessions, queue>>
  BY DEF Pair, Paired
<1>3. /\ paired.active = TRUE /\ paired.gen = sessions + 1 /\ paired.lastId = 0
      /\ sessions \in Nat
  <2>1. sessions \in Nat
    BY WifiAssumption DEF TypeInv, TypeOK
  <2>2. paired.active = TRUE /\ paired.gen = sessions + 1 /\ paired.lastId = 0
    BY DEF Paired, NoSession
  <2>3. QED
    BY <2>1, <2>2
<1> HIDE DEF paired
<1>4. CASE UNCHANGED <<session, sessions, queue>>
  BY <1>1, <1>4, CallbackQuietStep DEF Same, Accepted, InMessage
<1>5. CASE session' = paired /\ sessions' = sessions + 1 /\ queue' = <<>>
  <2>1. SessionInv'
    <3>1. session'.active => 1 <= session'.gen /\ session'.gen = sessions'
      BY <1>3, <1>5
    <3>2. mutex' = "loop" <=> lp'.at = "execute"
      BY <1>1 DEF SafeInv, SessionInv
    <3>3. lp'.at # "execute"
      BY <1>1 DEF SafeInv, SessionInv
    <3>4. QED
      BY <1>1, <3>1, <3>2, <3>3 DEF SessionInv
  <2>2. QuietFlight /\ RouterStep
    BY <1>1, <1>5 DEF QuietFlight, Carrying, Accepted, RouterStep
  <2>3. Growing /\ sessions <= sessions'
    BY <1>3, <1>5 DEF Growing, Issued
  <2>4. StopComes => StopComes'
    BY <1>1 DEF StopComes
  <2>5. drivenBy' = drivenBy /\ drivenBy # Nothing => Attended'
    <3>1. drivenBy[1] \in Nat
      BY OriginsNat DEF SafeInv, HistoryOK
    <3>2. drivenBy # Nothing => drivenBy[1] <= sessions
      BY <1>3, NobodysDrive DEF SafeInv, AttendedInv
    <3>3. QED
      BY <1>3, <1>5, <3>1, <3>2 DEF Attended
  <2>6. QED
    BY <1>1, <2>1, <2>2, <2>3, <2>4, <2>5, QuietStep
<1>6. QED
  BY <1>2, <1>4, <1>5

\* A request id is taken up, by a ping or a command.
LEMMA LastIdTakenUp ==
  ASSUME TypeInv, Acceptable(cb.command)
  PROVE  LET id == Continued(cb.command.id)
             s == WithLastId(session, id)
         IN /\ id \in Nat /\ session.lastId < id /\ s \in Session
            /\ s.active /\ session.active /\ s.client = session.client
            /\ s.gen = session.gen /\ s.lastId = id
            /\ s.watchdog = session.watchdog
            /\ session.gen = cb.command.gen /\ session.client = cb.command.client
<1>1. session \in Session /\ cb.command.id \in Nat
  BY DEF TypeInv, TypeOK, Queued
<1>2. /\ session.active /\ cb.command.id # 0
      /\ session.lastId = 0 \/ Difference(cb.command.id) > 0
      /\ session.gen = cb.command.gen /\ session.client = cb.command.client
  BY DEF Acceptable, SessionCurrent, Owns
<1>3. Continued(cb.command.id) \in Nat /\ session.lastId < Continued(cb.command.id)
  <2>1. CASE session.lastId = 0
    BY <1>1, <1>2, <2>1 DEF Continued
  <2>2. CASE session.lastId # 0
    BY <1>1, <1>2, <2>2, ContinuedType
  <2>3. QED
    BY <2>1, <2>2
<1> DEFINE id == Continued(cb.command.id)
<1> HIDE DEF id
<1>4. id \in Nat /\ session.lastId < id
  BY <1>3 DEF id
<1>5. LET s == WithLastId(session, id)
      IN /\ s \in Session /\ s.active /\ s.client = session.client
         /\ s.gen = session.gen /\ s.lastId = id /\ s.watchdog = session.watchdog
  BY <1>1, <1>2, <1>4, WithLastIdFields, WithLastIdType
<1>6. QED
  BY <1>2, <1>4, <1>5 DEF id

LEMMA SafeAcceptPing ==
  ASSUME TypeInv, TypeInv', SafeInv, HistoryKept, OvertakenStep, AcceptPing
  PROVE  SafeInv'
<1> DEFINE s == WithLastId(session, Continued(cb.command.id))
<1>1. /\ UNCHANGED <<running, mutex, lp, epoch, intervened, sessions, queue, pending>>
      /\ cb'.at = "idle"
  BY DEF AcceptPing, CallbackDone, CallbackOnly, routerVars
<1>2. CASE ~Acceptable(cb.command)
  <2>1. session' = session
    BY <1>2 DEF AcceptPing
  <2>2. QED
    BY <1>1, <2>1, CallbackQuietStep DEF Same, Accepted, InMessage
<1>3. CASE Acceptable(cb.command)
  <2>1. session' = Refreshed(s)
    BY <1>3 DEF AcceptPing, WithLastId
  <2>2. /\ session.lastId < s.lastId /\ s \in Session
        /\ s.active /\ session.active /\ s.client = session.client
        /\ s.gen = session.gen /\ s.watchdog = session.watchdog
    BY <1>3, LastIdTakenUp
  <2> HIDE DEF s
  <2>3. Same(s, session') /\ session'.watchdog = s.watchdog
    BY <2>1, <2>2, SameFields
  <2>4. session.lastId \in Nat /\ session'.lastId \in Nat
    BY WifiAssumption DEF TypeInv, TypeOK, Session
  <2>5. Later /\ session'.active
    BY <1>1, <2>2, <2>3, <2>4 DEF Later, Same
  <2>6. SessionInv'
    BY <1>1, <2>5, SessionKept DEF SafeInv, InMessage
  <2>7. QuietFlight /\ RouterStep
    BY <1>1 DEF QuietFlight, Carrying, Accepted, RouterStep
  <2>8. Growing /\ sessions <= sessions'
    BY <1>1, <2>5, LaterGrows, WifiAssumption DEF TypeInv, TypeOK
  <2>9. StopComes => StopComes'
    BY <1>1 DEF StopComes
  <2>10. drivenBy' = drivenBy /\ Attended => Attended'
    BY <1>1, <2>2, <2>3 DEF Attended, Same
  <2>11. QED
    BY <1>1, <2>6, <2>7, <2>8, <2>9, <2>10, QuietStep
<1>4. QED
  BY <1>2, <1>3

\* A command is accepted: its id, counted on, is above all that the session has issued.
LEMMA SafeAccept ==
  ASSUME TypeInv, TypeInv', SafeInv, HistoryKept, OvertakenStep, Accept
  PROVE  SafeInv'
<1> DEFINE s == WithLastId(session, Continued(cb.command.id))
<1>1. UNCHANGED <<running, mutex, lp, epoch, intervened, sessions, queue, pending>>
  BY DEF Accept, CallbackOnly, routerVars
<1>2. CASE ~Acceptable(cb.command)
  <2>1. session' = session /\ cb'.at = "idle"
    BY <1>2 DEF Accept, CallbackDone
  <2>2. QED
    BY <1>1, <2>1, CallbackQuietStep DEF Same, Accepted, InMessage
<1>3. CASE Acceptable(cb.command)
  <2>1. /\ session' = s /\ cb.at = "accept" /\ running
        /\ cb'.at \in {"stamp", "remember"} /\ cb'.command \in Queued
        /\ cb'.command.id = Continued(cb.command.id)
        /\ cb'.command.gen = cb.command.gen /\ cb'.command.client = cb.command.client
        /\ cb'.command.intent = cb.command.intent
    <3>1. session' = s /\ cb.at = "accept"
      BY <1>3 DEF Accept, WithLastId
    <3>2. /\ cb'.at \in {"stamp", "remember"} /\ cb'.command \in Queued
          /\ cb'.command.id = Continued(cb.command.id)
          /\ cb'.command.gen = cb.command.gen
          /\ cb'.command.client = cb.command.client
          /\ cb'.command.intent = cb.command.intent
      <4>1. AcceptedAs(Continued(cb.command.id))
        BY <1>3 DEF Accept, AcceptedAs
      <4>2. cb \in [at: CallbackStep, command: Queued]
            /\ Continued(cb.command.id) \in Nat
        BY <1>3, LastIdTakenUp DEF TypeInv, TypeOK
      <4>3. QED
        BY <4>1, <4>2, AcceptedAsFields
    <3>3. running
      BY <3>1 DEF SafeInv, SessionInv
    <3>4. QED
      BY <3>1, <3>2, <3>3
  <2>2. /\ session.lastId < s.lastId /\ s.lastId = cb'.command.id
        /\ s.active /\ session.active /\ s.client = session.client
        /\ s.gen = session.gen /\ s.watchdog = session.watchdog
        /\ session.gen = cb.command.gen /\ session.client = cb.command.client
    BY <1>3, <2>1, LastIdTakenUp
  <2> HIDE DEF s
  <2>3. /\ session.lastId \in Nat /\ cb'.command \in Queued
        /\ cb'.command.id \in Nat /\ cb'.command.gen \in Nat
    <3>1. session.lastId \in Nat
      BY WifiAssumption DEF TypeInv, TypeOK, Session
    <3>2. QED
      BY <2>1, <3>1, LabelType
  <2>4. Later /\ session'.active
    BY <1>1, <2>1, <2>2, <2>3 DEF Later
  <2>5. SessionInv'
    <3>1. InMessage /\ ~(~running)
      BY <2>1 DEF InMessage
    <3>2. QED
      BY <1>1, <2>1, <2>4, <3>1, SessionKept DEF SafeInv
  <2>6. Growing
    BY <2>4, LaterGrows
  <2>00. PICK new : new = Label(cb'.command)
    OBVIOUS
  <2>7. /\ new \in Labels /\ new[1] = cb'.command.gen /\ new[2] = cb'.command.id
        /\ new[1] \in Nat /\ new[2] \in Nat
    BY <2>00, <2>3, LabelType
  <2>8. Issued(new[1], new[2])'
    <3>1. 1 <= session.gen /\ session.gen = sessions
      BY <2>2 DEF SafeInv, SessionInv
    <3>2. QED
      BY <1>1, <2>1, <2>2, <2>3, <2>7, <3>1 DEF Issued
  <2>9. \A l : /\ Carried(l)' <=> Carried(l)
               /\ InQueue(l)' <=> InQueue(l)
               /\ Offered(l)' <=> l = new
               /\ ~Offered(l)
               /\ l \in ran' <=> l \in ran
    <3>1. ran' = ran
      BY DEF HistoryKept
    <3>2. \A l : Offered(l)' <=> l = new
      BY <2>00, <2>1 DEF Offered, Label
    <3>3. \A l : ~Offered(l)
      BY <2>1 DEF Offered
    <3>4. \A l : (Carried(l)' <=> Carried(l)) /\ (InQueue(l)' <=> InQueue(l))
      BY <1>1 DEF Carried, InQueue
    <3>5. QED
      BY <3>1, <3>2, <3>3, <3>4
  <2>10. \A g, n \in Nat : Issued(g, n) /\ g = new[1] => n < new[2]
    BY <2>1, <2>2, <2>3, <2>7 DEF Issued
  <2>11. OrderInv'
    <3>1. \A l \in Labels : Known(l)' => Issued(l[1], l[2])'
      <4> SUFFICES ASSUME NEW l \in Labels, Known(l)' PROVE Issued(l[1], l[2])'
        OBVIOUS
      <4>1. CASE l = new
        BY <2>8, <4>1
      <4>2. CASE l # new
        <5>1. Known(l)
          BY <2>9, <4>2 DEF Known
        <5>2. QED
          BY <2>6, <5>1, LabelsNat DEF SafeInv, OrderInv, Growing
      <4>3. QED
        BY <4>1, <4>2
    <3>2. ASSUME NEW l \in Labels, NEW m \in Labels, Ahead(l, m)', l[1] = m[1]
          PROVE  l[2] < m[2]
      <4>1. InOrder(l, m)' <=> InOrder(l, m)
        BY <1>1 DEF InOrder
      <4>2. CASE Ahead(l, m)
        BY <3>2, <4>2 DEF SafeInv, OrderInv
      <4>3. CASE ~Ahead(l, m)
        <5>1. m = new /\ Known(l)
          BY <2>9, <3>2, <4>1, <4>3 DEF Ahead, Known
        <5>2. Issued(l[1], l[2]) /\ l[1] \in Nat /\ l[2] \in Nat
          BY <5>1, LabelsNat DEF SafeInv, OrderInv
        <5>3. QED
          BY <2>10, <3>2, <5>1, <5>2
      <4>4. QED
        BY <4>2, <4>3
    <3>3. QED
      BY <3>1, <3>2 DEF OrderInv
  <2>12. OvertakenInv'
    <3>1. overtaken' = overtaken
      BY <1>1 DEF OvertakenStep
    <3>2. \A o \in overtaken : Issued(o[1], o[2]) /\ o[1] \in Nat /\ o[2] \in Nat
      BY OriginsNat DEF SafeInv, OvertakenInv, HistoryOK
    <3>3. \A o \in overtaken' : Issued(o[1], o[2])'
      BY <2>6, <3>1, <3>2 DEF Growing
    <3>4. \A o \in overtaken' : o[1] = cb'.command.gen => o[2] < cb'.command.id
      BY <2>1, <2>7, <2>10, <3>1, <3>2
    <3>5. /\ Carrying' => Aged(lp.command)'
          /\ \A i \in DOMAIN queue' : Aged(queue[i])'
      BY <1>1, <3>1 DEF SafeInv, OvertakenInv, Aged, Origin, Carrying
    <3>6. QED
      BY <2>1, <3>3, <3>4, <3>5 DEF OvertakenInv, Carrying
  <2>13. StopInv'
    <3>1. stopMark' = stopMark /\ drivenBy' \in {drivenBy, Nothing, Abandoned}
      BY DEF HistoryKept
    <3>2. stopMark[1] \in Nat /\ stopMark[2] \in Nat
      BY OriginsNat DEF SafeInv, HistoryOK
    <3>3. \A g, n : Old(g, n)' <=> Old(g, n)
      BY <3>1 DEF Old
    <3>4. stopMark # Nothing => Issued(stopMark[1], stopMark[2])
      BY DEF SafeInv, StopInv
    <3>5. stopMark' # Nothing => Issued(stopMark[1], stopMark[2])'
      <4>1. \A g, n \in Nat : Issued(g, n) =>
              1 <= g /\ g <= sessions'
              /\ (session'.active /\ session'.gen = g => n <= session'.lastId)
        BY <2>6 DEF Growing, Issued
      <4>2. QED
        BY <3>1, <3>2, <3>4, <4>1 DEF Issued
    <3>6. ~Old(new[1], new[2])
      <4>1. CASE stopMark = Nothing
        BY <4>1, NobodysDrive DEF Old
      <4>2. CASE stopMark # Nothing
        BY <2>7, <2>10, <3>2, <3>4, <4>2 DEF Old
      <4>3. QED
        BY <4>1, <4>2
    <3>7. \A l \in Labels : InQueue(l)' \/ Offered(l)' => ~Old(l[1], l[2])'
      BY <2>9, <3>3, <3>6 DEF SafeInv, StopInv
    <3>8. StopComes' <=> StopComes
      BY <1>1 DEF StopComes
    <3>9. \A l \in Labels : Carried(l)' /\ Old(l[1], l[2])' => StopComes'
      BY <2>9, <3>3, <3>8 DEF SafeInv, StopInv
    <3>10. Old(drivenBy'[1], drivenBy'[2]) => StopComes'
      <4>1. CASE drivenBy' \in {Nothing, Abandoned}
        <5>1. drivenBy'[1] = 0
          BY <4>1, NobodysDrive
        <5>2. QED
          BY <5>1 DEF Old
      <4>2. CASE drivenBy' = drivenBy
        BY <3>8, <4>2 DEF SafeInv, StopInv
      <4>3. QED
        BY <3>1, <4>1, <4>2
    <3>11. QED
      BY <3>1, <3>3, <3>5, <3>7, <3>9, <3>10 DEF StopInv
  <2>14. AttendedInv'
    <3>1. drivenBy' = drivenBy /\ Attended => Attended'
      BY <1>1, <2>1, <2>2 DEF Attended
    <3>2. sessions \in Nat /\ sessions' \in Nat /\ drivenBy \in Origins
          /\ sessions <= sessions'
      BY <1>1, WifiAssumption DEF TypeInv, TypeOK, SafeInv, HistoryOK
    <3>3. QED
      BY <1>1, <3>1, <3>2, QuietKeepsAttended DEF SafeInv
  <2>15. HistoryOK'
    BY QuietKeepsHistory DEF SafeInv
  <2>16. QED
    BY <2>5, <2>11, <2>12, <2>13, <2>14, <2>15 DEF SafeInv
<1>4. QED
  BY <1>2, <1>3

LEMMA SafeRemember ==
  ASSUME TypeInv, TypeInv', SafeInv, HistoryKept, OvertakenStep, Remember
  PROVE  SafeInv'
<1>1. /\ UNCHANGED <<running, mutex, lp, epoch, intervened, sessions, queue, pending>>
      /\ cb.at = "remember"
  BY DEF Remember, CallbackOnly, routerVars
<1>2. session' = session
      \/ session' = WithIntents(session, Recorded(session.intents, cb.command.intent))
  BY DEF Remember, WithIntents
<1>3. session \in Session
  BY DEF TypeInv, TypeOK
<1>4. Same(session, session') /\ session'.watchdog = session.watchdog
  <2>1. CASE session' = session
    BY <2>1 DEF Same
  <2>2. QED
    BY <1>2, <1>3, <2>1, SameFields
<1>5. cb'.at = "idle" \/ (cb'.at = "stamp" /\ cb'.command = cb.command)
  <2>1. CallbackDone \/ CallbackGoes("stamp")
    BY DEF Remember
  <2>2. cb \in [at: CallbackStep, command: Queued]
    BY DEF TypeInv, TypeOK
  <2>3. QED
    BY <2>1, <2>2 DEF CallbackDone, CallbackGoes
<1>6. running
  BY <1>1 DEF SafeInv, SessionInv
<1>7. /\ Accepted /\ InMessage
      /\ Accepted' => cb'.command = cb.command
      /\ InMessage' => cb'.command = cb.command
  BY <1>1, <1>5 DEF Accepted, InMessage
<1>8. QED
  BY <1>1, <1>4, <1>5, <1>6, <1>7, CallbackQuietStep

LEMMA SafeStamp ==
  ASSUME TypeInv, TypeInv', SafeInv, HistoryKept, OvertakenStep, Stamp
  PROVE  SafeInv'
<1>1. /\ UNCHANGED <<running, mutex, lp, epoch, intervened, sessions, queue, pending,
                     session>>
      /\ cb.at = "stamp"
  BY DEF Stamp, CallbackOnly, routerVars, wifiVars
<1>2. /\ cb'.command.gen = cb.command.gen /\ cb'.command.id = cb.command.id
      /\ cb'.command.intent = cb.command.intent
      /\ cb'.command.client = cb.command.client
      /\ cb'.command.epoch = epoch
  <2>1. cb \in [at: CallbackStep, command: Queued]
    BY DEF TypeInv, TypeOK
  <2>2. QED
    BY <2>1 DEF Stamp, Queued
<1>3. running
  BY <1>1 DEF SafeInv, SessionInv
<1>4. Accepted /\ InMessage
  BY <1>1 DEF Accepted, InMessage
<1>5. cb'.command.epoch <= epoch
  BY <1>2 DEF TypeInv, TypeOK
<1>6. Same(session, session') /\ session'.watchdog = session.watchdog
  BY <1>1 DEF Same
<1>7. QED
  BY <1>1, <1>2, <1>3, <1>4, <1>5, <1>6, CallbackQuietStep

\* A command that joins the queue keeps its place.
LEMMA EnqueueThins ==
  ASSUME TypeInv, ran' = ran, lp' = lp, queue' = Append(queue, cb.command),
         cb.at = "enqueue", cb'.at = "idle"
  PROVE  Thinned /\ \A l : InQueue(l)' => InQueue(l) \/ Offered(l)
<1>1. /\ queue \in Seq(Queued) /\ cb.command \in Queued
  BY DEF TypeInv, TypeOK
<1>2. /\ DOMAIN queue = 1 .. Len(queue) /\ Len(queue) \in Nat
      /\ DOMAIN queue' = 1 .. Len(queue) + 1
      /\ \A i \in 1 .. Len(queue) : queue'[i] = queue[i]
      /\ queue'[Len(queue) + 1] = cb.command
  BY <1>1, Appended
<1>3. \A l : Offered(l) <=> l = Label(cb.command)
  BY DEF Offered
<1>4. \A l : ~Offered(l)'
  BY DEF Offered
<1>5. \A l : Carried(l)' <=> Carried(l)
  BY DEF Carried
<1>6. \A l : InQueue(l)' => InQueue(l) \/ Offered(l)
  <2> SUFFICES ASSUME NEW l, NEW i \in DOMAIN queue', l = Label(queue'[i])
               PROVE  InQueue(l) \/ Offered(l)
    BY DEF InQueue, Label
  <2>1. CASE i \in 1 .. Len(queue)
    BY <1>2, <2>1 DEF InQueue
  <2>2. CASE i = Len(queue) + 1
    BY <1>2, <1>3, <2>2
  <2>3. QED
    BY <1>2, <2>1, <2>2
<1>7. \A l, m : InOrder(l, m)' => InOrder(l, m) \/ (InQueue(l) /\ Offered(m))
  <2> SUFFICES ASSUME NEW l, NEW m, InOrder(l, m)'
               PROVE  InOrder(l, m) \/ (InQueue(l) /\ Offered(m))
    OBVIOUS
  <2> PICK i \in DOMAIN queue', j \in DOMAIN queue' :
             i < j /\ l = Label(queue'[i]) /\ m = Label(queue'[j])
    BY DEF InOrder, Label
  <2>1. i \in 1 .. Len(queue) /\ queue'[i] = queue[i]
    BY <1>2
  <2>2. CASE j \in 1 .. Len(queue)
    BY <1>2, <2>1, <2>2 DEF InOrder
  <2>3. CASE j = Len(queue) + 1
    BY <1>2, <1>3, <2>1, <2>3 DEF InQueue
  <2>4. QED
    BY <1>2, <2>2, <2>3
<1>8. \A l : Known(l)' => Known(l)
  BY <1>4, <1>5, <1>6 DEF Known
<1>9. \A l, m : Ahead(l, m)' => Ahead(l, m)
  BY <1>4, <1>5, <1>6, <1>7 DEF Ahead
<1>10. QED
  BY <1>6, <1>8, <1>9 DEF Thinned

LEMMA SafeEnqueue ==
  ASSUME TypeInv, TypeInv', SafeInv, HistoryKept, OvertakenStep, Enqueue
  PROVE  SafeInv'
<1>1. /\ UNCHANGED <<running, mutex, lp, epoch, intervened, sessions, pending>>
      /\ cb.at = "enqueue" /\ cb'.at = "idle"
  BY DEF Enqueue, CallbackDone, CallbackOnly, routerVars
<1>2. session' = session \/ session' = Refreshed(session)
  BY DEF Enqueue
<1>3. session \in Session
  BY DEF TypeInv, TypeOK
<1>4. Same(session, session') /\ session'.watchdog = session.watchdog
  <2>1. CASE session' = session
    BY <2>1 DEF Same
  <2>2. QED
    BY <1>2, <1>3, <2>1, SameFields
<1>5. CASE queue' = queue
  BY <1>1, <1>4, <1>5, CallbackQuietStep DEF Accepted, InMessage
<1>6. CASE queue' = Append(queue, cb.command)
  <2>1. Later /\ (session'.active <=> session.active)
    BY <1>1, <1>4, SameIsLater
  <2>2. SessionInv'
    BY <1>1, <2>1, SessionKept DEF SafeInv, InMessage
  <2>3. ran' = ran /\ overtaken' = overtaken
    BY <1>1 DEF HistoryKept, OvertakenStep
  <2>4. Thinned /\ Growing
    BY <1>1, <1>6, <2>1, <2>3, EnqueueThins, LaterGrows
  <2>5. OrderInv'
    BY <2>4, ThinnedKeepsOrder DEF SafeInv
  <2>6. HistoryOK'
    BY QuietKeepsHistory DEF SafeInv
  <2>7. /\ queue \in Seq(Queued) /\ cb.command \in Queued
    BY DEF TypeInv, TypeOK
  <2>8. /\ DOMAIN queue = 1 .. Len(queue) /\ Len(queue) \in Nat
        /\ DOMAIN queue' = 1 .. Len(queue) + 1
        /\ \A i \in 1 .. Len(queue) : queue'[i] = queue[i]
        /\ queue'[Len(queue) + 1] = cb.command
    BY <1>6, <2>7, Appended
  <2>9. OvertakenInv'
    <3>1. \A o \in overtaken : Issued(o[1], o[2]) /\ o[1] \in Nat /\ o[2] \in Nat
      BY OriginsNat DEF SafeInv, OvertakenInv, HistoryOK
    <3>2. \A o \in overtaken' : Issued(o[1], o[2])'
      BY <2>3, <2>4, <3>1 DEF Growing
    <3>3. Carrying' => Aged(lp.command)'
      BY <1>1, <2>3 DEF SafeInv, OvertakenInv, Aged, Origin, Carrying
    <3>4. Origin(cb.command) \notin overtaken
      <4>1. Origin(cb.command)[1] = cb.command.gen /\ Origin(cb.command)[2] = cb.command.id
            /\ cb.command.id \in Nat
        BY <2>7, LabelType
      <4>2. Origin(cb.command) \in overtaken =>
              Origin(cb.command)[2] < cb.command.id
        BY <1>1, <4>1 DEF SafeInv, OvertakenInv
      <4>3. QED
        BY <4>1, <4>2
    <3>5. cb.command.epoch <= epoch
      BY <1>1 DEF SafeInv, OvertakenInv
    <3>6. ASSUME NEW i \in DOMAIN queue'
          PROVE  Aged(queue[i])'
      <4>1. CASE i \in 1 .. Len(queue)
        <5>1. Aged(queue[i]) /\ queue'[i] = queue[i]
          BY <2>8, <4>1 DEF SafeInv, OvertakenInv
        <5>2. QED
          BY <1>1, <2>3, <5>1 DEF Aged, Origin
      <4>2. CASE i = Len(queue) + 1
        BY <1>1, <2>3, <2>8, <3>4, <3>5, <4>2 DEF Aged, Origin
      <4>3. QED
        BY <2>8, <4>1, <4>2
    <3>7. QED
      BY <1>1, <3>2, <3>3, <3>6 DEF OvertakenInv, Carrying
  <2>10. StopInv'
    <3>1. stopMark' = stopMark /\ drivenBy' \in {drivenBy, Nothing, Abandoned}
      BY DEF HistoryKept
    <3>2. stopMark[1] \in Nat /\ stopMark[2] \in Nat
      BY OriginsNat DEF SafeInv, HistoryOK
    <3>3. \A g, n : Old(g, n)' <=> Old(g, n)
      BY <3>1 DEF Old
    <3>4. stopMark' # Nothing => Issued(stopMark[1], stopMark[2])'
      <4>1. \A g, n \in Nat : Issued(g, n) =>
              1 <= g /\ g <= sessions'
              /\ (session'.active /\ session'.gen = g => n <= session'.lastId)
        BY <2>4 DEF Growing, Issued
      <4>2. QED
        BY <3>1, <3>2, <4>1 DEF SafeInv, StopInv, Issued
    <3>5. \A l : /\ Offered(l) <=> l = Label(cb.command)
                 /\ ~Offered(l)' /\ (Carried(l)' <=> Carried(l))
      BY <1>1 DEF Offered, Carried
    <3>6. \A l : InQueue(l)' => InQueue(l) \/ Offered(l)
      BY <1>1, <1>6, <2>3, EnqueueThins
    <3>7. \A l \in Labels : InQueue(l)' \/ Offered(l)' => ~Old(l[1], l[2])'
      BY <3>3, <3>5, <3>6 DEF SafeInv, StopInv
    <3>8. StopComes' <=> StopComes
      BY <1>1 DEF StopComes
    <3>9. \A l \in Labels : Carried(l)' /\ Old(l[1], l[2])' => StopComes'
      BY <3>3, <3>5, <3>8 DEF SafeInv, StopInv
    <3>10. Old(drivenBy'[1], drivenBy'[2]) => StopComes'
      <4>1. CASE drivenBy' \in {Nothing, Abandoned}
        <5>1. drivenBy'[1] = 0
          BY <4>1, NobodysDrive
        <5>2. QED
          BY <5>1 DEF Old
      <4>2. CASE drivenBy' = drivenBy
        BY <3>8, <4>2 DEF SafeInv, StopInv
      <4>3. QED
        BY <3>1, <4>1, <4>2
    <3>11. QED
      BY <3>1, <3>3, <3>4, <3>7, <3>9, <3>10 DEF StopInv
  <2>11. AttendedInv'
    <3>1. drivenBy' = drivenBy /\ Attended => Attended'
      BY <1>1, <1>4, <2>1 DEF Attended, Same
    <3>2. sessions \in Nat /\ sessions' \in Nat /\ drivenBy \in Origins
          /\ sessions <= sessions'
      BY <1>1, WifiAssumption DEF TypeInv, TypeOK, SafeInv, HistoryOK
    <3>3. QED
      BY <1>1, <3>1, <3>2, QuietKeepsAttended DEF SafeInv
  <2>12. QED
    BY <2>2, <2>5, <2>6, <2>9, <2>10, <2>11 DEF SafeInv
<1>7. QED
  BY <1>5, <1>6 DEF Enqueue

LEMMA SafeTime ==
  ASSUME TypeInv, TypeInv', SafeInv, HistoryKept, OvertakenStep,
         LeaseRunsOut \/ WatchdogRunsOut
  PROVE  SafeInv'
<1>1. session \in Session
  BY DEF TypeInv, TypeOK
<1>2. session' = OutOfLease(session) \/ session' = WithWatchdog(session, "late")
  BY DEF LeaseRunsOut, WatchdogRunsOut, OutOfLease, WithWatchdog
<1>3. Same(session, session')
      /\ (session.watchdog # "off" => session'.watchdog # "off")
  <2>1. CASE session' = OutOfLease(session)
    BY <1>1, <2>1, SameFields
  <2>2. CASE session' = WithWatchdog(session, "late")
    BY <1>1, <2>2, SameFields
  <2>3. QED
    BY <1>2, <2>1, <2>2
<1>4. UNCHANGED <<running, mutex, lp, epoch, intervened, sessions, queue, pending, cb>>
  BY DEF LeaseRunsOut, WatchdogRunsOut, routerVars
<1>5. /\ ~running => cb.at = "idle"
      /\ cb.at = "enqueue" => cb.command.epoch <= epoch
  BY DEF SafeInv, SessionInv, OvertakenInv
<1>6. /\ Accepted' => Accepted
      /\ InMessage' => InMessage
  BY <1>4 DEF Accepted, InMessage
<1>7. QED
  BY <1>3, <1>4, <1>5, <1>6, CallbackQuietStep

-----------------------------------------------------------------------------
(* The loop task keeps the safety invariant. *)

\* A step of the loop task outside of a hand-over that takes no command out of
\* the queue.
LEMMA LoopQuietStep ==
  ASSUME TypeInv, TypeInv', SafeInv, HistoryKept, OvertakenStep,
         UNCHANGED <<mutex, cb>>, lp.at # "execute", lp'.at # "execute",
         ~running' => cb.at = "idle",
         Later, RouterStep,
         queue' = queue \/ queue' = <<>>,
         Carrying' => Carrying /\ lp'.command = lp.command,
         StopComes => StopComes' \/ (drivenBy' = Nothing /\ ~Carrying'),
         running => running' \/ drivenBy' \in {Nothing, Abandoned},
         drivenBy' = drivenBy /\ drivenBy # Nothing /\ Attended => Attended'
  PROVE  SafeInv'
<1>1. SessionInv'
  <2>1. session'.active => 1 <= session'.gen /\ session'.gen = sessions'
    BY DEF SafeInv, SessionInv, Later
  <2>2. mutex' = "loop" <=> lp'.at = "execute"
    BY DEF SafeInv, SessionInv
  <2>3. InMessage' /\ session'.active => SessionCurrent(cb.command)'
    BY DEF SafeInv, SessionInv, InMessage, SessionCurrent, Owns, Later
  <2>4. QED
    BY <2>1, <2>2, <2>3 DEF SessionInv, InMessage
<1>2. QuietFlight
  BY DEF QuietFlight, Accepted
<1>3. Growing /\ sessions <= sessions'
  BY LaterGrows, WifiAssumption DEF Later, TypeInv, TypeOK
<1>4. cb'.at = "enqueue" => cb'.command.epoch <= epoch'
  <2>1. cb.at = "enqueue" => cb.command.epoch <= epoch
    BY DEF SafeInv, OvertakenInv
  <2>2. epoch \in Nat /\ cb.command.epoch \in Nat
    BY DEF TypeInv, TypeOK, Queued
  <2>3. QED
    BY <2>1, <2>2 DEF RouterStep
<1>5. QED
  BY <1>1, <1>2, <1>3, <1>4, QuietStep

LEMMA SafeUpdateTimers ==
  ASSUME TypeInv, TypeInv', SafeInv, HistoryKept, OvertakenStep,
         \/ \E expired \in BOOLEAN, evicted \in SUBSET Clients :
              BeginUpdate(expired, evicted)
         \/ CheckTimers \/ LeaseExpired \/ WatchdogExpired
  PROVE  SafeInv'
<1>1. session \in Session /\ lp \in LoopState /\ pending \in StopFault \cup {"no"}
  BY DEF TypeInv, TypeOK, LoopState
<1>2. ~running => cb.at = "idle"
  BY DEF SafeInv, SessionInv
<1>3. UNCHANGED <<cb, epoch, intervened>> /\ RouterStep
  BY DEF BeginUpdate, CheckTimers, LeaseExpired, WatchdogExpired, LoopOnly,
         routerVars, RouterStep
<1>4. lp' = [lp EXCEPT !.at = "take", !.next = "dequeue"] => lp'.at = "take"
  BY <1>1 DEF LoopState
<1>5. CASE \E expired \in BOOLEAN, evicted \in SUBSET Clients :
             BeginUpdate(expired, evicted)
  <2>1. /\ UNCHANGED <<running, session, sessions, queue, pending, mutex>>
        /\ lp.at = "idle" /\ LoopGoes("timers")
    BY <1>5 DEF BeginUpdate
  <2>2. lp'.at = "timers"
    BY <1>1, <2>1, LoopGoesType DEF LoopStep
  <2>3. Later
    BY <2>1, SameIsLater DEF Same
  <2>4. /\ ~Carrying'
        /\ StopComes => StopComes'
        /\ drivenBy' = drivenBy /\ Attended => Attended'
    BY <2>1, <2>2 DEF Carrying, StopComes, Attended
  <2>5. QED
    BY <1>2, <1>3, <2>1, <2>2, <2>3, <2>4, LoopQuietStep
<1>6. CASE CheckTimers
  <2>1. /\ UNCHANGED <<running, sessions, queue, pending, mutex>>
        /\ lp.at = "timers"
    BY <1>6 DEF CheckTimers
  <2>2. \/ session' = session /\ lp'.at \in {"leaseExpired", "take"}
        \/ session' = WithWatchdog(session, "off") /\ lp'.at = "watchdogExpired"
    <3>1. /\ LoopGoes("leaseExpired") => lp'.at = "leaseExpired"
          /\ LoopGoes("watchdogExpired") => lp'.at = "watchdogExpired"
      BY <1>1, LoopGoesType DEF LoopStep
    <3>2. QED
      BY <1>4, <1>6, <3>1 DEF CheckTimers, WithWatchdog
  <2>3. Same(session, session')
    <3>1. CASE session' = session
      BY <3>1 DEF Same
    <3>2. QED
      BY <1>1, <2>2, <3>1, SameFields
  <2>4. Later
    BY <2>1, <2>3, SameIsLater
  <2>5. /\ ~Carrying' /\ lp'.at # "execute"
        /\ StopComes => StopComes'
        /\ drivenBy' = drivenBy /\ Attended => Attended'
    BY <2>1, <2>2 DEF Carrying, StopComes, Attended
  <2>6. QED
    BY <1>2, <1>3, <2>1, <2>4, <2>5, LoopQuietStep
<1>7. CASE LeaseExpired
  <2>1. RevokeController("CONTROLLER_LEASE_EXPIRED") /\ lp'.at \in {"take", "newCode"}
        /\ lp.at = "leaseExpired"
    BY <1>1, <1>7 DEF LeaseExpired, LoopState
  <2>2. /\ Later /\ ~session'.active
        /\ queue' = queue \/ queue' = <<>>
        /\ pending # "no" \/ session.active => pending' # "no"
        /\ UNCHANGED <<running, mutex, sessions>>
    BY <2>1, Revoked DEF SafeInv, StopFault
  <2>3. /\ ~Carrying'
        /\ StopComes => StopComes'
        /\ drivenBy' = drivenBy /\ Attended => Attended'
    BY <2>1, <2>2 DEF Carrying, StopComes, Attended
  <2>4. QED
    BY <1>2, <1>3, <2>1, <2>2, <2>3, LoopQuietStep
<1>8. CASE WatchdogExpired
  <2>1. /\ UNCHANGED <<running, session, sessions, mutex>>
        /\ queue' = <<>> /\ pending' = StopRequested("DRIVE_WATCHDOG")
        /\ lp'.at = "take" /\ lp.at = "watchdogExpired"
    BY <1>4, <1>8 DEF WatchdogExpired
  <2>2. pending' # "no"
    BY <2>1 DEF StopRequested
  <2>3. Later
    BY <2>1, SameIsLater DEF Same
  <2>4. ~Carrying' /\ StopComes' /\ Attended'
    BY <2>1, <2>2 DEF Carrying, StopComes, Attended
  <2>5. QED
    BY <1>2, <1>3, <2>1, <2>3, <2>4, LoopQuietStep
<1>9. QED
  BY <1>5, <1>6, <1>7, <1>8

LEMMA SafeUpdateStop ==
  ASSUME TypeInv, TypeInv', SafeInv, HistoryKept, OvertakenStep,
         TakePendingStop \/ ExecutePendingStop
  PROVE  SafeInv'
<1>1. /\ session \in Session /\ lp \in LoopState /\ robot \in RobotState
      /\ epoch \in Nat /\ intervened \in 0 .. epoch
  BY DEF TypeInv, TypeOK, LoopState, RobotState
<1>2. ~running => cb.at = "idle"
  BY DEF SafeInv, SessionInv
<1>3. CASE TakePendingStop
  <2>1. /\ UNCHANGED <<running, session, sessions, mutex, cb, epoch, intervened>>
        /\ lp.at = "take"
    BY <1>3 DEF TakePendingStop, routerVars, LoopOnly
  <2>2. Later /\ RouterStep
    BY <2>1, SameIsLater DEF Same, RouterStep
  <2>3. CASE pending = "no"
    <3>1. lp'.at \in {"dequeue", "take", "idle"} /\ pending' = pending /\ queue' = queue
      BY <1>1, <1>3, <2>3, AfterStopType DEF TakePendingStop
    <3>2. /\ ~Carrying' /\ ~StopComes
          /\ drivenBy' = drivenBy /\ Attended => Attended'
      BY <2>1, <2>3, <3>1 DEF Carrying, StopComes, Attended
    <3>3. QED
      BY <1>2, <2>1, <2>2, <3>1, <3>2, LoopQuietStep
  <2>4. CASE pending # "no"
    <3>1. lp'.at = "stop" /\ queue' = <<>>
      BY <1>1, <1>3, <2>4 DEF TakePendingStop, LoopState
    <3>2. ~Carrying' /\ StopComes' /\ Attended'
      BY <3>1 DEF Carrying, StopComes, Attended
    <3>3. QED
      BY <1>2, <2>1, <2>2, <3>1, <3>2, LoopQuietStep
  <2>5. QED
    BY <2>3, <2>4
<1>4. CASE ExecutePendingStop
  <2>1. /\ UNCHANGED <<running, sessions, queue, mutex, cb>>
        /\ session' = WithWatchdog(session, "off") /\ lp.at = "stop"
    BY <1>4 DEF ExecutePendingStop, WithWatchdog, LoopOnly
  <2>2. Same(session, session')
    BY <1>1, <2>1, SameFields
  <2>3. Later
    BY <2>1, <2>2, SameIsLater
  <2>4. RouterStep /\ ~robot'.driving
    <3>1. CASE lp.fault = "NONE"
      <4>1. PICK outcome \in Executed("STOP") : robot' = outcome[1]
        BY <1>4, <3>1 DEF ExecutePendingStop
      <4>2. ~robot'.driving
        BY <1>1, <4>1, ExecutedType DEF Kind
      <4>3. Counted(TRUE)
        BY <1>4, <3>1 DEF ExecutePendingStop
      <4>4. QED
        BY <4>2, <4>3 DEF Counted, RouterStep
    <3>2. CASE lp.fault # "NONE"
      <4>1. EmergencyStop
        BY <1>4, <3>2 DEF ExecutePendingStop
      <4>2. QED
        BY <1>1, <4>1, EmergencyType DEF EmergencyStop, Counted, RouterStep
    <3>3. QED
      BY <3>1, <3>2
  <2>5. drivenBy' = Nothing
    BY <2>4 DEF HistoryKept
  <2>6. lp'.at \in {"dequeue", "take", "idle"}
    BY <1>1, <1>4, AfterStopType DEF ExecutePendingStop
  <2>7. ~Carrying' /\ lp'.at # "execute"
    BY <2>6 DEF Carrying
  <2>8. QED
    BY <1>2, <2>1, <2>3, <2>4, <2>5, <2>7, LoopQuietStep
<1>5. QED
  BY <1>3, <1>4

\* A command that leaves the queue keeps its place.
LEMMA DequeueThins ==
  ASSUME TypeInv, ran' = ran, cb' = cb, queue # <<>>, queue' = Tail(queue),
         ~Carrying, lp'.command = Head(queue)
  PROVE  /\ Thinned
         /\ \A l : InQueue(l)' \/ Carried(l)' => InQueue(l)
         /\ \A l : ~Carried(l)
<1>1. queue \in Seq(Queued)
  BY DEF TypeInv, TypeOK
<1>2. /\ DOMAIN queue = 1 .. Len(queue) /\ Len(queue) \in Nat /\ Len(queue) >= 1
      /\ DOMAIN queue' = 1 .. Len(queue) - 1
      /\ \A i \in 1 .. Len(queue) - 1 : queue'[i] = queue[i + 1]
      /\ lp'.command = queue[1]
  BY <1>1, Shortened
<1>3. \A l : ~Carried(l)
  BY DEF Carried, Carrying
<1>4. \A l : Offered(l)' <=> Offered(l)
  BY DEF Offered
<1>5. \A l : Carried(l)' => InQueue(l)
  <2> SUFFICES ASSUME NEW l, Carried(l)' PROVE InQueue(l)
    OBVIOUS
  <2>1. l = Label(queue[1]) /\ 1 \in DOMAIN queue
    BY <1>2 DEF Carried, Label
  <2>2. QED
    BY <2>1 DEF InQueue
<1>6. \A l : InQueue(l)' => InQueue(l)
  <2> SUFFICES ASSUME NEW l, InQueue(l)' PROVE InQueue(l)
    OBVIOUS
  <2>1. PICK i \in DOMAIN queue' : l = Label(queue'[i])
    BY DEF InQueue, Label
  <2>2. i + 1 \in DOMAIN queue /\ l = Label(queue[i + 1])
    BY <1>2, <2>1
  <2>3. QED
    BY <2>2 DEF InQueue
<1>7. \A l, m : InOrder(l, m)' => InOrder(l, m)
  <2> SUFFICES ASSUME NEW l, NEW m, InOrder(l, m)' PROVE InOrder(l, m)
    OBVIOUS
  <2>1. PICK i \in DOMAIN queue', j \in DOMAIN queue' :
          i < j /\ l = Label(queue'[i]) /\ m = Label(queue'[j])
    BY DEF InOrder, Label
  <2>2. /\ i + 1 \in DOMAIN queue /\ j + 1 \in DOMAIN queue /\ i + 1 < j + 1
        /\ l = Label(queue[i + 1]) /\ m = Label(queue[j + 1])
    BY <1>2, <2>1
  <2>3. QED
    BY <2>2 DEF InOrder
<1>8. \A l, m : Carried(l)' /\ InQueue(m)' => InOrder(l, m)
  <2> SUFFICES ASSUME NEW l, NEW m, Carried(l)', InQueue(m)' PROVE InOrder(l, m)
    OBVIOUS
  <2>1. PICK j \in DOMAIN queue' : m = Label(queue'[j])
    BY DEF InQueue, Label
  <2>2. /\ 1 \in DOMAIN queue /\ j + 1 \in DOMAIN queue /\ 1 < j + 1
        /\ l = Label(queue[1]) /\ m = Label(queue[j + 1])
    BY <1>2, <2>1 DEF Carried, Label
  <2>3. QED
    BY <2>2 DEF InOrder
<1>9. \A l : Known(l)' => Known(l)
  BY <1>4, <1>5, <1>6 DEF Known
<1>10. \A l, m : Ahead(l, m)' => Ahead(l, m)
  BY <1>4, <1>5, <1>6, <1>7, <1>8 DEF Ahead
<1>11. QED
  BY <1>3, <1>5, <1>6, <1>9, <1>10 DEF Thinned

LEMMA SafeDequeue ==
  ASSUME TypeInv, TypeInv', SafeInv, HistoryKept, OvertakenStep, Dequeue
  PROVE  SafeInv'
<1>1. /\ UNCHANGED <<running, session, sessions, pending, mutex, cb, epoch, intervened>>
      /\ lp.at = "dequeue" /\ lp \in LoopState
  BY DEF Dequeue, routerVars, LoopOnly, TypeInv, TypeOK, LoopState
<1>2. Later /\ RouterStep
  BY <1>1, SameIsLater DEF Same, RouterStep
<1>3. ~Carrying
  BY <1>1 DEF Carrying
<1>4. CASE ~(pending = "no" /\ queue # <<>>)
  <2>1. lp'.at = "take" /\ queue' = queue
    BY <1>1, <1>4 DEF Dequeue, LoopState
  <2>2. /\ ~running => cb.at = "idle"
        /\ ~Carrying' /\ (StopComes => StopComes')
        /\ drivenBy' = drivenBy /\ Attended => Attended'
    BY <1>1, <2>1 DEF SafeInv, SessionInv, Carrying, StopComes, Attended
  <2>3. QED
    BY <1>1, <1>2, <2>1, <2>2, LoopQuietStep
<1>5. CASE pending = "no" /\ queue # <<>>
  <2>1. /\ lp'.at = "check" /\ lp'.command = Head(queue) /\ queue' = Tail(queue)
    BY <1>1, <1>5 DEF Dequeue, LoopState
  <2>2. ran' = ran /\ overtaken' = overtaken
    BY <1>1 DEF HistoryKept, OvertakenStep
  <2>3. /\ Thinned
        /\ \A l : InQueue(l)' \/ Carried(l)' => InQueue(l)
    BY <1>1, <1>3, <1>5, <2>1, <2>2, DequeueThins
  <2>4. Growing
    BY <1>2, LaterGrows
  <2>5. SessionInv'
    <3>1. InMessage' <=> InMessage
      BY <1>1 DEF InMessage
    <3>2. session' = session /\ sessions' = sessions /\ cb' = cb
      BY <1>1
    <3>3. SessionCurrent(cb.command)' <=> SessionCurrent(cb.command)
      BY <3>2 DEF SessionCurrent, Owns
    <3>4. QED
      BY <1>1, <2>1, <3>1, <3>2, <3>3 DEF SafeInv, SessionInv, InMessage
  <2>6. OrderInv'
    BY <2>3, <2>4, ThinnedKeepsOrder DEF SafeInv
  <2>7. HistoryOK'
    BY QuietKeepsHistory DEF SafeInv
  <2>8. queue \in Seq(Queued)
    BY DEF TypeInv, TypeOK
  <2>9. /\ DOMAIN queue = 1 .. Len(queue) /\ Len(queue) \in Nat /\ Len(queue) >= 1
        /\ DOMAIN queue' = 1 .. Len(queue) - 1
        /\ \A i \in 1 .. Len(queue) - 1 : queue'[i] = queue[i + 1]
        /\ lp'.command = queue[1]
    BY <1>5, <2>1, <2>8, Shortened
  <2>10. OvertakenInv'
    <3>1. \A o \in overtaken : Issued(o[1], o[2]) /\ o[1] \in Nat /\ o[2] \in Nat
      BY OriginsNat DEF SafeInv, OvertakenInv, HistoryOK
    <3>2. \A o \in overtaken' : Issued(o[1], o[2])'
      BY <2>2, <2>4, <3>1 DEF Growing
    <3>3. \A i \in DOMAIN queue : Aged(queue[i])
      BY DEF SafeInv, OvertakenInv
    <3>4. Aged(lp.command)'
      BY <1>1, <2>2, <2>9, <3>3 DEF Aged, Origin
    <3>5. ASSUME NEW i \in DOMAIN queue'
          PROVE  Aged(queue[i])'
      <4>1. i + 1 \in DOMAIN queue /\ queue'[i] = queue[i + 1]
        BY <2>9
      <4>2. Aged(queue[i + 1])
        BY <3>3, <4>1
      <4>3. QED
        BY <1>1, <2>2, <4>1, <4>2 DEF Aged, Origin
    <3>6. /\ cb.at \in {"remember", "stamp", "enqueue"} =>
               \A o \in overtaken : o[1] = cb.command.gen => o[2] < cb.command.id
          /\ cb.at = "enqueue" => cb.command.epoch <= epoch
      BY DEF SafeInv, OvertakenInv
    <3>7. QED
      BY <1>1, <2>2, <3>2, <3>4, <3>5, <3>6 DEF OvertakenInv
  <2>11. StopInv'
    <3>1. stopMark' = stopMark /\ drivenBy' \in {drivenBy, Nothing, Abandoned}
      BY DEF HistoryKept
    <3>2. stopMark[1] \in Nat /\ stopMark[2] \in Nat
      BY OriginsNat DEF SafeInv, HistoryOK
    <3>3. \A g, n : Old(g, n)' <=> Old(g, n)
      BY <3>1 DEF Old
    <3>4. stopMark' # Nothing => Issued(stopMark[1], stopMark[2])'
      BY <1>1, <3>1 DEF SafeInv, StopInv, Issued
    <3>5. \A l \in Labels : InQueue(l)' \/ Carried(l)' \/ Offered(l)' =>
                              ~Old(l[1], l[2])'
      <4>1. \A l : Offered(l)' => Offered(l)
        BY <1>1 DEF Offered
      <4>2. QED
        BY <2>3, <3>3, <4>1 DEF SafeInv, StopInv
    <3>6. ~Old(drivenBy'[1], drivenBy'[2])
      <4>1. ~StopComes
        BY <1>1, <1>5 DEF StopComes
      <4>2. ~Old(drivenBy[1], drivenBy[2])
        BY <4>1 DEF SafeInv, StopInv
      <4>3. CASE drivenBy' \in {Nothing, Abandoned}
        <5>1. drivenBy'[1] = 0
          BY <4>3, NobodysDrive
        <5>2. QED
          BY <5>1 DEF Old
      <4>4. QED
        BY <3>1, <4>2, <4>3
    <3>7. ~Old(drivenBy[1], drivenBy[2])'
      BY <3>1, <3>6 DEF Old
    <3>8. QED
      BY <3>1, <3>4, <3>5, <3>7 DEF StopInv
  <2>12. AttendedInv'
    <3>1. drivenBy' = drivenBy /\ Attended => Attended'
      BY <1>1, <2>1 DEF Attended
    <3>2. sessions \in Nat /\ sessions' \in Nat /\ drivenBy \in Origins
          /\ sessions <= sessions'
      BY <1>1, WifiAssumption DEF TypeInv, TypeOK, SafeInv, HistoryOK
    <3>3. QED
      BY <1>1, <3>1, <3>2, QuietKeepsAttended DEF SafeInv
  <2>13. QED
    BY <2>5, <2>6, <2>7, <2>10, <2>11, <2>12 DEF SafeInv
<1>6. QED
  BY <1>4, <1>5

\* The steps up to the hand-over and after it.
LEMMA SafeAroundExecute ==
  ASSUME TypeInv, TypeInv', SafeInv, HistoryKept, OvertakenStep,
         CheckPendingStop \/ LockDispatch \/ DropCommand \/ ReportCommand
  PROVE  SafeInv'
<1>1. lp \in LoopState /\ session \in Session
  BY DEF TypeInv, TypeOK, LoopState
<1>2. UNCHANGED <<running, sessions, pending, queue, cb, epoch, intervened>>
  BY DEF CheckPendingStop, LockDispatch, DropCommand, ReportCommand, wifiVars,
         routerVars, LoopOnly
<1>3. RouterStep /\ (~running => cb.at = "idle")
  BY <1>2 DEF RouterStep, SafeInv, SessionInv
<1>4. CASE CheckPendingStop
  <2>1. /\ UNCHANGED <<session, mutex>> /\ lp.at = "check"
        /\ lp'.at \in {"lock", "take"} /\ lp'.command = lp.command
    BY <1>1, <1>4 DEF CheckPendingStop, wifiVars, LoopState
  <2>2. Later
    BY <1>2, <2>1, SameIsLater DEF Same
  <2>3. /\ Carrying /\ (StopComes => StopComes')
        /\ drivenBy' = drivenBy /\ Attended => Attended'
    BY <1>2, <2>1 DEF Carrying, StopComes, Attended
  <2>4. QED
    BY <1>2, <1>3, <2>1, <2>2, <2>3, LoopQuietStep
<1>5. CASE LockDispatch
  <2>1. /\ session' = session /\ lp.at = "lock" /\ mutex' = "loop"
        /\ lp'.at = "execute" /\ lp'.command = lp.command
        /\ lp'.current = SessionCurrent(lp.command)
        /\ lp'.superseded = Superseded(lp.command)
    BY <1>1, <1>5 DEF LockDispatch, LoopState
  <2>2. Later
    BY <1>2, <2>1, SameIsLater DEF Same
  <2>3. SessionInv'
    <3>1. /\ SessionCurrent(lp.command)' <=> SessionCurrent(lp.command)
          /\ Superseded(lp.command)' <=> Superseded(lp.command)
          /\ SessionCurrent(cb.command)' <=> SessionCurrent(cb.command)
      BY <1>2, <2>1 DEF SessionCurrent, Owns, Superseded
    <3>2. lp'.current => SessionCurrent(lp.command)'
      BY <2>1, <3>1
    <3>3. lp'.superseded <=> Superseded(lp.command)'
      BY <2>1, <3>1
    <3>4. QED
      BY <1>2, <2>1, <3>1, <3>2, <3>3 DEF SafeInv, SessionInv
  <2>4. QuietFlight
    BY <1>2, <2>1 DEF QuietFlight, Carrying, Accepted
  <2>5. Growing /\ sessions <= sessions'
    BY <2>2, LaterGrows, WifiAssumption DEF Later, TypeInv, TypeOK
  <2>6. /\ StopComes => StopComes'
        /\ drivenBy' = drivenBy /\ Attended => Attended'
        /\ cb'.at = "enqueue" => cb'.command.epoch <= epoch'
    BY <1>2, <2>1 DEF StopComes, Attended, SafeInv, OvertakenInv
  <2>7. QED
    BY <1>2, <1>3, <2>3, <2>4, <2>5, <2>6, QuietStep
<1>6. CASE DropCommand
  <2>1. /\ session' = session /\ lp.at = "execute" /\ mutex' = "free"
        /\ lp'.at = "report"
    BY <1>1, <1>6 DEF DropCommand, LoopState
  <2>2. Later
    BY <1>2, <2>1, SameIsLater DEF Same
  <2>3. SessionInv'
    <3>1. SessionCurrent(cb.command)' <=> SessionCurrent(cb.command)
      BY <1>2, <2>1 DEF SessionCurrent, Owns
    <3>2. QED
      BY <1>2, <2>1, <3>1 DEF SafeInv, SessionInv
  <2>4. QuietFlight
    BY <1>2, <2>1 DEF QuietFlight, Carrying, Accepted
  <2>5. Growing /\ sessions <= sessions'
    BY <2>2, LaterGrows, WifiAssumption DEF Later, TypeInv, TypeOK
  <2>6. /\ StopComes => StopComes'
        /\ drivenBy' = drivenBy /\ Attended => Attended'
        /\ cb'.at = "enqueue" => cb'.command.epoch <= epoch'
    BY <1>2, <2>1 DEF StopComes, Attended, SafeInv, OvertakenInv
  <2>7. QED
    BY <1>2, <1>3, <2>3, <2>4, <2>5, <2>6, QuietStep
<1>7. CASE ReportCommand
  <2> DEFINE settled == Settled(session.intents, lp.command.intent, lp.status)
  <2>1. /\ session' = WithIntents(session, settled) /\ lp.at = "report"
        /\ mutex' = mutex /\ lp'.at = "dequeue"
    BY <1>1, <1>7 DEF ReportCommand, LoopState, WithIntents
  <2> HIDE DEF settled
  <2>2. Same(session, session') /\ session'.watchdog = session.watchdog
    BY <1>1, <2>1, SameFields
  <2>3. Later /\ (session'.active <=> session.active)
    BY <1>2, <2>2, SameIsLater
  <2>4. /\ ~Carrying' /\ (StopComes => StopComes')
        /\ drivenBy' = drivenBy /\ Attended => Attended'
    BY <1>2, <2>1, <2>2, <2>3 DEF Carrying, StopComes, Attended, Same
  <2>5. QED
    BY <1>2, <1>3, <2>1, <2>3, <2>4, LoopQuietStep
<1>8. QED
  BY <1>4, <1>5, <1>6, <1>7

\* Without Wi-Fi there is no update() to be in the middle of.
RunningInv == ~running => lp.at = "idle"

LEMMA RunningStep ==
  ASSUME TypeInv, RunningInv, [MCNext]_mcVars
  PROVE  RunningInv'
<1>1. CASE UNCHANGED mcVars
  BY <1>1 DEF mcVars, vars, wifiVars, RunningInv
<1>2. CASE CallbackArrival \/ CallbackHandler \/ LeaseRunsOut \/ WatchdogRunsOut
  <2>1. running' = running /\ lp' = lp
    BY <1>2 DEF CallbackArrival, CallbackHandler, Connect, Disconnect, ReceivePair,
      ReceivePing, ReceiveControl, Receive, ReceiveStop, RevokeDisconnected,
      RevokeController, ShowNewCode, Pair, AcceptPing, Accept, Remember, Stamp, Enqueue,
      CallbackOnly, LeaseRunsOut, WatchdogRunsOut, wifiVars
  <2>2. QED
    BY <2>1 DEF RunningInv
<1>3. CASE Update
  <2>1. running /\ running' = running
    BY <1>3 DEF Update, BeginUpdate, CheckTimers, LeaseExpired, RevokeController,
      WatchdogExpired, TakePendingStop, ExecutePendingStop, Dequeue, CheckPendingStop,
      LockDispatch, ExecuteCommand, Executes, DropCommand, ReportCommand, wifiVars,
      RunningInv
  <2>2. QED
    BY <2>1 DEF RunningInv
<1>4. CASE FinishWifiOff
  BY <1>4, LoopGoesType DEF FinishWifiOff, LoopStep, LoopState, TypeInv, TypeOK,
     RunningInv
<1>5. CASE GeneratePairingCode \/ BetweenUpdates
  <2>1. CASE GeneratePairingCode \/ RequestNewPairingCode \/ BeginWifiOff
    <3>1. running' = running
      BY <2>1 DEF GeneratePairingCode, RequestNewPairingCode, BeginWifiOff, wifiVars
    <3>2. running
      BY <2>1 DEF GeneratePairingCode, RequestNewPairingCode, BeginWifiOff, RunningInv
    <3>3. QED
      BY <3>1, <3>2 DEF RunningInv
  <2>2. CASE \/ \E kind \in LocalKinds : LocalCommand(kind)
             \/ LocalEstop \/ SafetyFaultFound \/ DriveTimesOut
    <3>1. running' = running /\ lp' = lp
      BY <2>2 DEF LocalCommand, LocalEstop, SafetyFaultFound, DriveTimesOut, wifiVars
    <3>2. QED
      BY <3>1 DEF RunningInv
  <2>3. CASE WifiOn
    BY <2>3 DEF WifiOn, RunningInv
  <2>4. QED
    BY <1>5, <2>1, <2>2, <2>3 DEF BetweenUpdates
<1>6. QED
  BY <1>1, <1>2, <1>3, <1>4, <1>5 DEF MCNext, Next

\* A command is handed to the router.
LEMMA SafeExecuteCommand ==
  ASSUME TypeInv, TypeInv', RunningInv, SafeInv, MCNext, ~WifiOn, ExecuteCommand
  PROVE  SafeInv'
<1>1. /\ lp \in LoopState /\ session \in Session /\ lp.command \in Queued
      /\ robot \in RobotState /\ lp.command.kind \in Kind
  BY DEF TypeInv, TypeOK, LoopState, RobotState, Queued
<1>2. /\ UNCHANGED <<running, sessions, pending, queue, cb>>
      /\ lp.at = "execute" /\ mutex' = "free"
      /\ Executes /\ Counted(Intervention(lp.command.kind))
  BY DEF ExecuteCommand, LoopOnly, Executes
<1>3. PICK outcome \in Executed(lp.command.kind) :
        /\ robot' = outcome[1]
        /\ IF lp.command.kind = "MOVE" /\ outcome[2] /\ Owns(lp.command)
           THEN \E w \in {"running", "blind"} : session' = WithWatchdog(session, w)
           ELSE session' = session
        /\ lp' = [lp EXCEPT !.at = "report",
                   !.status = IF outcome[2] THEN "SUCCEEDED" ELSE "FAILED"]
  BY DEF ExecuteCommand, WithWatchdog
<1>4. outcome[2] \in BOOLEAN
  BY <1>1, <1>3, ExecutedType
<1>5. /\ lp'.at = "report" /\ lp'.status = IF outcome[2] THEN "SUCCEEDED" ELSE "FAILED"
  BY <1>1, <1>3 DEF LoopState
<1>6. SessionCurrent(lp.command) /\ Owns(lp.command) /\ session.active
  BY <1>2 DEF SafeInv, SessionInv, Executes, SessionCurrent, Owns
<1>7. \/ session' = session /\ ~(lp.command.kind = "MOVE" /\ outcome[2])
      \/ \E w \in {"running", "blind"} : session' = WithWatchdog(session, w)
  BY <1>3, <1>6
<1>8. /\ Same(session, session')
      /\ session.watchdog # "off" => session'.watchdog # "off"
      /\ lp.command.kind = "MOVE" /\ outcome[2] => session'.watchdog # "off"
  <2>1. CASE session' = session /\ ~(lp.command.kind = "MOVE" /\ outcome[2])
    BY <2>1 DEF Same
  <2>2. CASE \E w \in {"running", "blind"} : session' = WithWatchdog(session, w)
    BY <1>1, <2>2, SameFields
  <2>3. QED
    BY <1>7, <2>1, <2>2
<1>9. Later /\ (session'.active <=> session.active)
  BY <1>2, <1>8, SameIsLater
<1>10. RouterStep
  BY <1>2 DEF Counted, RouterStep
<1>11. ~Forgotten /\ HandedOver
  BY <1>2, <1>5 DEF Forgotten, HandedOver
<1> DEFINE label == Label(lp.command)
<1>12. /\ ran' = ran \cup {label}
       /\ stopMark' = stopMark /\ OvertakenStep
       /\ \/ drivenBy' = drivenBy
          \/ drivenBy' = Nothing
          \/ /\ drivenBy' = Origin(lp.command)
             /\ lp.command.kind = "MOVE" /\ lp'.status = "SUCCEEDED"
  <2>1. ran' = ran \cup {label}
    BY <1>11 DEF MCNext, RanNext, Label
  <2>2. stopMark' = stopMark
    <3>1. \A c \in Clients : ~ReceiveStop(c, TRUE)
      BY <1>2, <1>5 DEF ReceiveStop, CallbackOnly
    <3>2. QED
      BY <1>11, <3>1 DEF MCNext, StopMarkNext
  <2>3. OvertakenStep
    BY <1>11 DEF MCNext, OvertakenNext, OvertakenStep
  <2>4. \/ drivenBy' = drivenBy
        \/ drivenBy' = Nothing
        \/ /\ drivenBy' = Origin(lp.command)
           /\ lp.command.kind = "MOVE" /\ lp'.status = "SUCCEEDED"
    <3>1. ~FinishWifiOff
      BY <1>2 DEF FinishWifiOff
    <3>2. QED
      BY <1>11, <3>1 DEF MCNext, DrivenByNext
  <2>5. QED
    BY <2>1, <2>2, <2>3, <2>4
<1>13. /\ label \in Labels /\ Origin(lp.command) \in Origins
       /\ label[1] = lp.command.gen /\ label[2] = lp.command.id
       /\ Origin(lp.command)[1] = lp.command.gen
       /\ Origin(lp.command)[2] = lp.command.id
       /\ lp.command.gen \in Nat /\ lp.command.id \in Nat
  BY <1>1, LabelType
<1>14. Carried(label) /\ \A l : Carried(l) => l = label
  BY <1>2 DEF Carried
<1>15. Issued(lp.command.gen, lp.command.id)
  BY <1>13, <1>14 DEF SafeInv, OrderInv, Known
<1> HIDE DEF label
<1>16. HistoryOK'
  <2>2. drivenBy' \in Origins
    BY <1>12, <1>13, NobodysDrive DEF SafeInv, HistoryOK
  <2>3. overtaken' \subseteq Origins
    <3>1. \A i \in DOMAIN queue : queue[i] \in Queued
      BY DEF TypeInv, TypeOK
    <3>2. Waiting \subseteq Origins
      BY <1>1, <3>1, LabelType DEF Waiting
    <3>3. QED
      BY <1>12, <3>2 DEF OvertakenStep, SafeInv, HistoryOK
  <2>4. QED
    BY <1>12, <1>13, <2>2, <2>3 DEF SafeInv, HistoryOK
<1>17. SessionInv'
  <2>1. SessionCurrent(cb.command)' <=> SessionCurrent(cb.command)
    BY <1>2, <1>8 DEF SessionCurrent, Owns, Same
  <2>2. session'.active => 1 <= session'.gen /\ session'.gen = sessions'
    BY <1>2, <1>9 DEF SafeInv, SessionInv, Later
  <2>3. QED
    BY <1>2, <1>5, <1>9, <2>1, <2>2 DEF SafeInv, SessionInv
<1>18. QuietFlight
  BY <1>2, <1>5 DEF QuietFlight, Carrying, Accepted
<1>19. Growing
  BY <1>9, LaterGrows
<1>20. Thinned
  <2>1. \A l : /\ InQueue(l)' <=> InQueue(l)
               /\ Offered(l)' <=> Offered(l)
               /\ ~Carried(l)'
               /\ l \in ran' <=> l \in ran \/ Carried(l)
    <3>1. \A l : l \in ran' <=> l \in ran \/ Carried(l)
      BY <1>12, <1>14
    <3>2. \A l : ~Carried(l)'
      BY <1>5 DEF Carried
    <3>3. \A l : (InQueue(l)' <=> InQueue(l)) /\ (Offered(l)' <=> Offered(l))
      BY <1>2 DEF InQueue, Offered
    <3>4. QED
      BY <3>1, <3>2, <3>3
  <2>2. \A l, m : InOrder(l, m)' <=> InOrder(l, m)
    BY <1>2 DEF InOrder
  <2>3. \A l : Known(l)' => Known(l)
    BY <2>1 DEF Known
  <2>4. \A l, m : Ahead(l, m)' => Ahead(l, m)
    BY <2>1, <2>2 DEF Ahead
  <2>5. QED
    BY <2>3, <2>4 DEF Thinned
<1>21. OrderInv'
  BY <1>19, <1>20, ThinnedKeepsOrder DEF SafeInv
<1>22. OvertakenInv'
  <2>1. cb'.at = "enqueue" => cb'.command.epoch <= epoch'
    <3>1. cb.at = "enqueue" => cb.command.epoch <= epoch
      BY DEF SafeInv, OvertakenInv
    <3>2. epoch \in Nat /\ cb.command.epoch \in Nat
      BY DEF TypeInv, TypeOK, Queued
    <3>3. QED
      BY <1>2, <1>10, <3>1, <3>2 DEF RouterStep
  <2>2. QED
    BY <1>10, <1>12, <1>18, <1>19, <2>1, QuietKeepsOvertaken DEF SafeInv
<1>23. StopComes' <=> StopComes
  BY <1>2, <1>5 DEF StopComes
<1>24. StopInv'
  <2>1. stopMark[1] \in Nat /\ stopMark[2] \in Nat
    BY OriginsNat DEF SafeInv, HistoryOK
  <2>2. \A g, n : Old(g, n)' <=> Old(g, n)
    BY <1>12 DEF Old
  <2>3. stopMark' # Nothing => Issued(stopMark[1], stopMark[2])'
    <3>1. \A g, n \in Nat : Issued(g, n) =>
            1 <= g /\ g <= sessions'
            /\ (session'.active /\ session'.gen = g => n <= session'.lastId)
      BY <1>19 DEF Growing, Issued
    <3>2. QED
      BY <1>12, <2>1, <3>1 DEF SafeInv, StopInv, Issued
  <2>4. \A l : /\ InQueue(l)' => InQueue(l)
               /\ Offered(l)' => Offered(l)
               /\ ~Carried(l)'
    BY <1>2, <1>5 DEF InQueue, Offered, Carried
  <2>5. \A l \in Labels : InQueue(l)' \/ Offered(l)' => ~Old(l[1], l[2])'
    BY <2>2, <2>4 DEF SafeInv, StopInv
  <2>6. Old(drivenBy[1], drivenBy[2])' => StopComes'
    <3>1. CASE drivenBy' = drivenBy
      BY <1>12, <1>23, <3>1 DEF SafeInv, StopInv, Old
    <3>2. CASE drivenBy' = Nothing
      <4>1. drivenBy'[1] = 0
        BY <3>2, NobodysDrive
      <4>2. QED
        BY <4>1 DEF Old
    <3>3. CASE drivenBy' = Origin(lp.command)
      <4>1. Old(label[1], label[2]) => StopComes
        BY <1>13, <1>14 DEF SafeInv, StopInv
      <4>2. drivenBy'[1] = label[1] /\ drivenBy'[2] = label[2]
        BY <1>13, <3>3
      <4>3. QED
        BY <1>12, <1>23, <4>1, <4>2 DEF Old
    <3>4. QED
      BY <1>12, <3>1, <3>2, <3>3
  <2>7. QED
    BY <1>12, <2>2, <2>3, <2>4, <2>5, <2>6 DEF StopInv
<1>25. AttendedInv'
  <2>1. CASE drivenBy' = Nothing
    BY <2>1 DEF AttendedInv
  <2>2. CASE drivenBy' = drivenBy
    <3>1. Attended => Attended'
      BY <1>2, <1>5, <1>8, <1>9, <2>2 DEF Attended, Same
    <3>2. QED
      BY <1>2, <2>2, <3>1 DEF SafeInv, AttendedInv
  <2>3. CASE /\ drivenBy' = Origin(lp.command)
             /\ lp.command.kind = "MOVE" /\ lp'.status = "SUCCEEDED"
    <3>1. outcome[2]
      BY <1>4, <1>5, <2>3
    <3>2. session'.watchdog # "off" /\ session'.active
      BY <1>6, <1>8, <1>9, <2>3, <3>1
    <3>3. drivenBy'[1] <= sessions'
      BY <1>2, <1>13, <1>15, <2>3 DEF Issued
    <3>4. running'
      <4>1. running
        BY <1>2 DEF RunningInv
      <4>2. QED
        BY <1>2, <4>1
    <3>5. QED
      BY <3>2, <3>3, <3>4 DEF AttendedInv, Attended
  <2>4. QED
    BY <1>12, <2>1, <2>2, <2>3
<1>26. QED
  BY <1>16, <1>17, <1>21, <1>22, <1>24, <1>25 DEF SafeInv

-----------------------------------------------------------------------------
(* The steps between two updates keep it.                                  *)

\* A step at rest that leaves the session, the queue and the request alone.
LEMMA RestingStep ==
  ASSUME TypeInv, TypeInv', SafeInv, HistoryKept, OvertakenStep,
         UNCHANGED <<running, session, sessions, queue, pending, mutex, cb>>,
         lp.at \in {"idle", "newCode"},
         lp'.at \in {"idle", "newCode", "off", "take"},
         RouterStep
  PROVE  SafeInv'
<1>1. ~running' => cb.at = "idle"
  BY DEF SafeInv, SessionInv
<1>2. Later
  BY SameIsLater DEF Same
<1>3. ~Carrying' /\ (StopComes => StopComes')
      /\ (drivenBy' = drivenBy /\ Attended => Attended')
  BY DEF Carrying, StopComes, Attended
<1>4. QED
  BY <1>1, <1>2, <1>3, LoopQuietStep

LEMMA SafeBetween ==
  ASSUME TypeInv, TypeInv', SafeInv, HistoryKept, OvertakenStep, ~WifiOn,
         GeneratePairingCode \/ BetweenUpdates
  PROVE  SafeInv'
<1>1. lp \in LoopState
  BY DEF TypeInv, TypeOK, LoopState
<1>2. \A b \in BOOLEAN : Counted(b) => RouterStep
  BY DEF Counted, RouterStep
<1>3. UNCHANGED <<epoch, intervened>> => RouterStep
  BY DEF RouterStep
<1>4. UNCHANGED <<running, session, sessions, queue, pending, mutex, cb>>
  BY DEF GeneratePairingCode, BetweenUpdates, LocalCommand, LocalEstop,
         SafetyFaultFound, RequestNewPairingCode, DriveTimesOut, BeginWifiOff,
         LoopOnly, wifiVars
<1>5. RouterStep
  BY <1>2, <1>3 DEF GeneratePairingCode, BetweenUpdates, LocalCommand, LocalEstop,
         SafetyFaultFound, RequestNewPairingCode, DriveTimesOut, BeginWifiOff,
         routerVars
<1>6. lp.at \in {"idle", "newCode"}
  BY DEF GeneratePairingCode, BetweenUpdates, LocalCommand, LocalEstop,
         SafetyFaultFound, RequestNewPairingCode, DriveTimesOut, BeginWifiOff, AtRest
<1>7. lp'.at \in {"idle", "newCode", "off", "take"}
  <2>1. CASE GeneratePairingCode
    <3>1. LoopGoes("idle") \/ LoopGoes("take")
      BY <2>1 DEF GeneratePairingCode
    <3>2. QED
      BY <1>1, <3>1, LoopGoesType DEF LoopStep
  <2>2. CASE RequestNewPairingCode
    BY <1>1, <2>2 DEF RequestNewPairingCode, LoopState
  <2>3. CASE BeginWifiOff
    BY <1>1, <2>3 DEF BeginWifiOff, LoopState
  <2>4. CASE \/ \E kind \in LocalKinds : LocalCommand(kind)
             \/ LocalEstop \/ SafetyFaultFound \/ DriveTimesOut
    BY <1>6, <2>4 DEF LocalCommand, LocalEstop, SafetyFaultFound, DriveTimesOut
  <2>5. QED
    BY <2>1, <2>2, <2>3, <2>4 DEF BetweenUpdates
<1>8. QED
  BY <1>4, <1>5, <1>6, <1>7, RestingStep

\* stop(): with a controller it stops the robot itself; a drive that it leaves
\* is abandoned.
LEMMA SafeFinishWifiOff ==
  ASSUME TypeInv, TypeInv', SafeInv, MCNext, HistoryKept, OvertakenStep, FinishWifiOff
  PROVE  SafeInv'
<1>1. /\ lp \in LoopState /\ epoch \in Nat /\ intervened \in 0 .. epoch
      /\ pending \in StopFault \cup {"no"}
  BY DEF TypeInv, TypeOK, LoopState
<1>2. /\ UNCHANGED <<sessions, mutex, cb>> /\ lp.at = "off" /\ cb.at = "idle"
      /\ session' = NoSession /\ queue' = (IF session.active THEN <<>> ELSE queue)
      /\ LoopGoes("idle")
  BY DEF FinishWifiOff
<1>3. lp'.at = "idle"
  BY <1>1, <1>2, LoopGoesType DEF LoopStep
<1>4. queue' = queue \/ queue' = <<>>
  BY <1>2
<1>5. Later /\ ~Carrying'
  BY <1>2, <1>3, NoSessionFields DEF Later, Carrying
<1>6. CASE lp.hadController
  <2>1. EmergencyStop
    BY <1>6 DEF FinishWifiOff
  <2>2. RouterStep /\ ~robot'.driving
    BY <1>1, <2>1, EmergencyType DEF EmergencyStop, Counted, RouterStep
  <2>3. drivenBy' = Nothing
    BY <2>2 DEF HistoryKept
  <2>4. QED
    BY <1>2, <1>3, <1>4, <1>5, <2>2, <2>3, LoopQuietStep
<1>7. CASE ~lp.hadController
  <2>1. /\ UNCHANGED routerVars
        /\ pending' = IF session.active
                      THEN StopRequested("CONTROLLER_DISCONNECTED") ELSE pending
    BY <1>7 DEF FinishWifiOff
  <2>2. pending # "no" \/ session.active => pending' # "no"
    BY <2>1 DEF StopRequested
  <2>3. StopComes => StopComes'
    BY <1>2, <2>2 DEF StopComes
  <2>4. Attended => Attended'
    BY <1>2, <2>2 DEF Attended
  <2>5. RouterStep
    BY <2>1 DEF RouterStep, routerVars
  <2>6. drivenBy' \in {Nothing, Abandoned}
    <3>1. ~HandedOver
      BY <1>2 DEF HandedOver, Executes
    <3>2. QED
      BY <1>7, <3>1 DEF MCNext, DrivenByNext
  <2>7. QED
    BY <1>2, <1>3, <1>4, <1>5, <2>3, <2>4, <2>5, <2>6, LoopQuietStep
<1>8. QED
  BY <1>6, <1>7

\* Nothing is in flight when Wi-Fi goes on, and nothing is remembered.
LEMMA SafeWifiOn ==
  ASSUME TypeInv, SafeInv, MCNext, WifiOn
  PROVE  SafeInv'
<1>1. /\ lp' = lp /\ lp.at = "idle" /\ cb' = cb /\ queue' = <<>> /\ sessions' = 0
      /\ session' = NoSession /\ mutex' = mutex /\ ~running /\ running'
  BY DEF WifiOn, AtRest
<1>2. /\ drivenBy' \in {Nothing, Abandoned} /\ stopMark' = Nothing
      /\ overtaken' = {} /\ ran' = {}
  <2>1. stopMark' = Nothing /\ overtaken' = {} /\ ran' = {}
    BY DEF MCNext, Forgotten, StopMarkNext, OvertakenNext, RanNext
  <2>2. ~HandedOver
    BY <1>1 DEF HandedOver, Executes
  <2>3. drivenBy \in {Nothing, Abandoned}
    BY <1>1 DEF SafeInv, AttendedInv
  <2>4. drivenBy' \in {Nothing, Abandoned}
    BY <2>2, <2>3 DEF MCNext, DrivenByNext
  <2>5. QED
    BY <2>1, <2>4
<1>3. cb'.at = "idle"
  BY <1>1 DEF SafeInv, SessionInv
<1>4. HistoryOK'
  BY <1>2, NobodysDrive DEF HistoryOK
<1>5. SessionInv'
  BY <1>1, <1>3, NoSessionFields DEF SafeInv, SessionInv
<1>6. \A l : ~Known(l)' /\ ~Carried(l)' /\ ~InQueue(l)' /\ ~Offered(l)'
  BY <1>1, <1>2, <1>3 DEF Known, Carried, InQueue, Offered
<1>7. \A l, m : ~Ahead(l, m)'
  BY <1>1, <1>2, <1>6 DEF Ahead, InOrder
<1>8. OrderInv'
  BY <1>6, <1>7 DEF OrderInv
<1>9. OvertakenInv'
  BY <1>1, <1>2, <1>3 DEF OvertakenInv
<1>10. stopMark'[1] = 0 /\ drivenBy'[1] = 0
  BY <1>2, NobodysDrive
<1>11. StopInv'
  BY <1>2, <1>6, <1>10 DEF StopInv, Old
<1>12. AttendedInv'
  BY <1>2 DEF AttendedInv
<1>13. QED
  BY <1>4, <1>5, <1>8, <1>9, <1>11, <1>12 DEF SafeInv

LEMMA SafeInit == MCInit => SafeInv
<1> SUFFICES ASSUME MCInit PROVE SafeInv
  OBVIOUS
<1>1. /\ running = TRUE /\ session = NoSession /\ queue = <<>> /\ mutex = "free"
      /\ cb.at = "idle" /\ lp.at = "idle"
      /\ drivenBy = Nothing /\ stopMark = Nothing /\ overtaken = {} /\ ran = {}
  BY DEF MCInit, Init
<1>2. HistoryOK
  BY <1>1, NobodysDrive DEF HistoryOK
<1>3. SessionInv
  BY <1>1, NoSessionFields DEF SessionInv
<1>4. \A l : ~Known(l) /\ ~Carried(l) /\ ~InQueue(l) /\ ~Offered(l)
  BY <1>1 DEF Known, Carried, InQueue, Offered
<1>5. \A l, m : ~Ahead(l, m)
  BY <1>1, <1>4 DEF Ahead, InOrder
<1>6. OrderInv
  BY <1>4, <1>5 DEF OrderInv
<1>7. OvertakenInv
  BY <1>1 DEF OvertakenInv
<1>8. stopMark[1] = 0 /\ drivenBy[1] = 0
  BY <1>1, NobodysDrive
<1>9. StopInv
  BY <1>1, <1>4, <1>8 DEF StopInv, Old
<1>10. AttendedInv
  BY <1>1 DEF AttendedInv
<1>11. QED
  BY <1>2, <1>3, <1>6, <1>7, <1>9, <1>10 DEF SafeInv

LEMMA SafeUnchanged ==
  ASSUME SafeInv, UNCHANGED mcVars
  PROVE  SafeInv'
<1>1. /\ UNCHANGED <<running, clients, session, sessions, code, queue, pending, mutex,
                     epoch, intervened, robot, cb, lp, inputs>>
      /\ UNCHANGED <<drivenBy, stopMark, overtaken, ran>>
  BY DEF mcVars, vars, wifiVars, routerVars, history
<1>2. HistoryOK' /\ SessionInv'
  BY <1>1 DEF SafeInv, HistoryOK, SessionInv, SessionCurrent, Owns, Superseded
<1>3. OrderInv'
  BY <1>1 DEF SafeInv, OrderInv, Known, Ahead, InOrder, Carried, InQueue, Offered, Issued
<1>4. OvertakenInv'
  BY <1>1 DEF SafeInv, OvertakenInv, Aged, Issued, Origin
<1>5. StopInv' /\ AttendedInv'
  BY <1>1 DEF SafeInv, StopInv, AttendedInv, Attended, StopComes, Old, InQueue,
         Offered, Carried, Issued
<1>6. QED
  BY <1>2, <1>3, <1>4, <1>5 DEF SafeInv

\* Every step keeps the safety invariant.
LEMMA SafeStep ==
  ASSUME TypeInv, TypeInv', RunningInv, SafeInv, [MCNext]_mcVars
  PROVE  SafeInv'
<1>1. CASE UNCHANGED mcVars
  BY <1>1, SafeUnchanged
<1>2. CASE MCNext /\ WifiOn
  BY <1>2, SafeWifiOn
<1>3. CASE MCNext /\ ~WifiOn /\ ExecuteCommand
  BY <1>3, SafeExecuteCommand
<1>4. CASE MCNext /\ ~WifiOn /\ \E c \in Clients : ReceiveStop(c, TRUE)
  BY <1>4, SafeStopMessage
<1>5. CASE /\ MCNext /\ ~WifiOn /\ ~ExecuteCommand
           /\ ~(\E c \in Clients : ReceiveStop(c, TRUE))
  <2>1. HistoryKept /\ OvertakenStep
    BY <1>5, HistoryStep
  <2>2. CASE CallbackArrival
    BY <1>5, <2>1, <2>2, SafeArrival
  <2>3. CASE CallbackHandler
    BY <2>1, <2>3, SafeRevokeDisconnected, SafeShowNewCode, SafePair, SafeAcceptPing, SafeAccept,
       SafeRemember, SafeStamp, SafeEnqueue
    DEF CallbackHandler
  <2>4. CASE Update
    BY <1>5, <2>1, <2>4, SafeUpdateTimers, SafeUpdateStop, SafeDequeue,
       SafeAroundExecute
    DEF Update
  <2>5. CASE GeneratePairingCode \/ BetweenUpdates
    BY <1>5, <2>1, <2>5, SafeBetween
  <2>6. CASE FinishWifiOff
    BY <1>5, <2>1, <2>6, SafeFinishWifiOff
  <2>7. CASE LeaseRunsOut \/ WatchdogRunsOut
    BY <2>1, <2>7, SafeTime
  <2>8. QED
    BY <1>5, <2>2, <2>3, <2>4, <2>5, <2>6, <2>7 DEF MCNext, Next
<1>6. QED
  BY <1>1, <1>2, <1>3, <1>4, <1>5

LEMMA SafeInvariant == MCSpec => [](TypeInv /\ SafeInv)
<1>1. MCInit => TypeInv /\ RunningInv /\ SafeInv
  BY TypeInit, SafeInit DEF MCInit, Init, RunningInv
<1>2. TypeInv /\ RunningInv /\ SafeInv /\ [MCNext]_mcVars
      => (TypeInv /\ RunningInv /\ SafeInv)'
  BY TypeStep, RunningStep, SafeStep
<1>3. QED
  BY <1>1, <1>2, PTL DEF MCSpec

-----------------------------------------------------------------------------
(* The safety properties. *)

\* A command reaches the router only on behalf of the session that is active at
\* that moment: revokeController and PAIR wait for the dispatch mutex that
\* update() holds from commandSessionCurrent to execute().
THEOREM CommandsAreAuthorized == MCSpec => []CommandAuthority
<1>1. TypeInv /\ SafeInv => CommandAuthority
  BY DEF SafeInv, SessionInv, CommandAuthority
<1>2. QED
  BY <1>1, SafeInvariant, PTL

\* The commands of a session reach the router in the order in which their ids
\* were accepted, counting on where the device's ids wrap, each as often as it was
\* accepted (acceptRequestId and the queue).
THEOREM CommandsRunInOrder == MCSpec => []NoReplay
<1>1. ASSUME TypeInv, SafeInv, Executes, NEW r \in ran, r[1] = lp.command.gen
      PROVE  r[2] < lp.command.id
  <2>1. lp.command \in Queued /\ r \in Labels
    BY <1>1 DEF TypeInv, TypeOK, SafeInv, HistoryOK
  <2>2. /\ Label(lp.command) \in Labels /\ Label(lp.command)[1] = lp.command.gen
        /\ Label(lp.command)[2] = lp.command.id
    BY <2>1, LabelType
  <2>3. Ahead(r, Label(lp.command))
    BY <1>1 DEF Ahead, Carried, Executes
  <2>4. QED
    BY <1>1, <2>1, <2>2, <2>3 DEF SafeInv, OrderInv
<1>2. TypeInv /\ SafeInv => NoReplay
  BY <1>1 DEF NoReplay
<1>3. QED
  BY <1>2, SafeInvariant, PTL

\* A command that an intervention found waiting never runs afterwards, unless it
\* stops or disarms itself (ControlRouter's epochs, the superseded test).
THEOREM OvertakenCommandsNeverRun == MCSpec => []OvertakenNeverRuns
<1>1. ASSUME TypeInv, SafeInv, Executes, ~Intervention(lp.command.kind)
      PROVE  Origin(lp.command) \notin overtaken
  <2>1. lp.at = "execute" /\ ~lp.superseded
    BY <1>1 DEF Executes
  <2>2. ~(intervened > lp.command.epoch)
    BY <1>1, <2>1 DEF SafeInv, SessionInv, Superseded
  <2>3. Aged(lp.command)
    BY <1>1, <2>1 DEF SafeInv, OvertakenInv
  <2>4. QED
    BY <2>2, <2>3 DEF Aged
<1>2. TypeInv /\ SafeInv => OvertakenNeverRuns
  BY <1>1 DEF OvertakenNeverRuns
<1>3. QED
  BY <1>2, SafeInvariant, PTL

\* Once no stop is pending and update() is over, no move accepted before the last
\* acknowledged stop drives (requestEmergencyStopFromWifi, processPendingStop).
THEOREM StopsWin == MCSpec => []StopWins
<1>1. ASSUME TypeInv, SafeInv, lp.at = "idle", pending = "no",
             drivenBy[1] = stopMark[1]
      PROVE  drivenBy = Nothing \/ drivenBy[2] > stopMark[2]
  <2>1. drivenBy \in Origins /\ stopMark \in Origins
    BY <1>1 DEF SafeInv, HistoryOK
  <2>2. /\ drivenBy[1] \in Nat /\ drivenBy[2] \in Nat
        /\ stopMark[1] \in Nat /\ stopMark[2] \in Nat
    BY <2>1, OriginsNat
  <2>3. ~Old(drivenBy[1], drivenBy[2])
    BY <1>1 DEF SafeInv, StopInv, StopComes
  <2>4. CASE 1 <= drivenBy[1]
    BY <1>1, <2>2, <2>3, <2>4 DEF Old
  <2>5. CASE drivenBy[1] = 0
    <3>1. stopMark # Nothing => 1 <= stopMark[1]
      BY <1>1 DEF SafeInv, StopInv, Issued
    <3>2. stopMark = Nothing
      BY <1>1, <2>5, <3>1
    <3>3. drivenBy[2] = 0 \/ drivenBy[2] > stopMark[2]
      BY <2>2, <3>2 DEF Nothing
    <3>4. drivenBy[2] = 0 => drivenBy = Nothing
      BY <2>1, <2>5 DEF Origins, Nothing
    <3>5. QED
      BY <3>3, <3>4
  <2>6. QED
    BY <2>2, <2>4, <2>5
<1>2. TypeInv /\ SafeInv => StopWins
  BY <1>1 DEF StopWins
<1>3. QED
  BY <1>2, SafeInvariant, PTL

\* Between two updates a remote drive that was not abandoned by WIFI OFF has a
\* controller with a watchdog, or a newer one, or its stop is already requested of
\* an update() that will come (ExecuteCommand, revokeController, the watchdog of
\* update, PAIR, stop, start).
THEOREM RemoteDrivesAreAttended == MCSpec => []RemoteDriveAttended
<1>1. TypeInv /\ SafeInv => RemoteDriveAttended
  BY DEF SafeInv, AttendedInv, Attended, RemoteDriveAttended
<1>2. QED
  BY <1>1, SafeInvariant, PTL

-----------------------------------------------------------------------------
(* Each intent is executed once. *)

\* The remembered intents, not their status.
SameIntents ==
  /\ DOMAIN session'.intents = DOMAIN session.intents
  /\ \A i \in DOMAIN session.intents :
       session'.intents[i].intent = session.intents[i].intent

SessionGoesOn ==
  \/ ~session'.active /\ session'.intents = <<>>
  \/ session'.active = session.active /\ session'.gen = session.gen /\ SameIntents

\* A step that thins the flight, and in which no handler looks for an intent.
LEMMA ThinnedKeepsIntents ==
  ASSUME IntentInv, SessionGoesOn,
         \A l : Recalled(l)' => Recalled(l),
         \A l, m : Ahead(l, m)' => Ahead(l, m),
         \A m : Pondered(m) => Pondered(m)'
  PROVE  IntentInv'
<1>1. CASE ~session'.active /\ session'.intents = <<>>
  <2>1. DOMAIN session'.intents = {} /\ \A l : ~Own(l)'
    BY <1>1 DEF Own
  <2>2. QED
    BY <2>1 DEF IntentInv
<1>2. CASE /\ session'.active = session.active /\ session'.gen = session.gen
           /\ SameIntents
  <2>1. \A l : Own(l)' <=> Own(l)
    BY <1>2 DEF Own
  <2>2. \A t : Remembered(t)' <=> Remembered(t)
    BY <1>2 DEF Remembered, SameIntents
  <2>3. \A i, j \in DOMAIN session'.intents :
          i # j => session'.intents[i].intent # session'.intents[j].intent
    BY <1>2 DEF SameIntents, IntentInv
  <2>4. \A l \in Labels : Own(l)' /\ Recalled(l)' => Remembered(l[3])'
    BY <2>1, <2>2 DEF IntentInv
  <2>5. \A l, m \in Labels :
          Own(l)' /\ Own(m)' /\ Ahead(l, m)' /\ ~Pondered(m)' => l[3] # m[3]
    BY <2>1 DEF IntentInv
  <2>6. QED
    BY <2>3, <2>4, <2>5 DEF IntentInv
<1>3. QED
  BY <1>1, <1>2 DEF SessionGoesOn

LEMMA QuietKeepsIntents ==
  ASSUME IntentInv, SessionGoesOn, QuietFlight, ran' = ran,
         cb.at = "remember" => cb' = cb
  PROVE  IntentInv'
<1>1. \A l, m : Ahead(l, m)' => Ahead(l, m)
  BY QuietThins DEF Thinned
<1>2. \A m : Pondered(m) => Pondered(m)'
  BY DEF Pondered
<1>3. \A l : /\ Carried(l)' => Carried(l)
             /\ Offered(l)' => Offered(l)
             /\ InQueue(l)' => InQueue(l)
  <2>1. \A l : Carried(l)' => Carried(l)
    BY DEF QuietFlight, Carrying, Carried
  <2>2. \A l : Offered(l)' => Offered(l)
    BY DEF QuietFlight, Accepted, Offered
  <2>3. \A l : InQueue(l)' => InQueue(l)
    BY DEF QuietFlight, InQueue
  <2>4. QED
    BY <2>1, <2>2, <2>3
<1>4. \A l : Recalled(l)' => Recalled(l)
  BY <1>3 DEF Recalled
<1>5. QED
  BY <1>1, <1>2, <1>4, ThinnedKeepsIntents

\* The ring has room for an intent that it does not hold.
LEMMA RoomForNew ==
  ASSUME TypeInv, IntentInv, IsFiniteSet(Intents),
         Cardinality(Intents) <= RecentIntents,
         NEW intent \in Intents, ~Remembered(intent)
  PROVE  Len(session.intents) < RecentIntents
<1> DEFINE n == Len(session.intents)
           f == [i \in 1 .. n |-> session.intents[i].intent]
           S == {session.intents[i].intent : i \in 1 .. n}
<1>1. /\ session.intents \in Seq(IntentResult) /\ n \in Nat
      /\ DOMAIN session.intents = 1 .. n
      /\ \A i \in 1 .. n : session.intents[i].intent \in Intents
  <2>1. session.intents \in Seq(IntentResult)
    BY DEF TypeInv, TypeOK, Session, IntentResult
  <2>2. n \in Nat /\ DOMAIN session.intents = 1 .. n
    BY <2>1
  <2>3. \A i \in 1 .. n : session.intents[i] \in IntentResult
    BY <2>1, <2>2
  <2>4. QED
    BY <2>1, <2>2, <2>3 DEF IntentResult
<1>2. f \in Bijection(1 .. n, S)
  BY <1>1 DEF IntentInv, Bijection, Injection, Surjection, IsInjective
<1>3. n \in Nat /\ ExistsBijection(1 .. n, S)
  BY <1>1, <1>2 DEF ExistsBijection
<1>4. S \subseteq Intents /\ intent \notin S
  BY <1>1 DEF Remembered
<1> HIDE DEF n, f, S
<1>5. Cardinality(S) = n /\ S \subseteq Intents /\ S # Intents
  BY <1>3, <1>4, FS_CountingElements
<1>6. /\ Cardinality(S) <= Cardinality(Intents)
      /\ Cardinality(S) = Cardinality(Intents) => S = Intents
      /\ Cardinality(Intents) \in Nat
  BY <1>5, FS_Subset, FS_CardinalityType
<1>7. n < RecentIntents
  BY <1>3, <1>5, <1>6, WifiAssumption
<1>8. QED
  BY <1>7 DEF n

LEMMA RanKept ==
  ASSUME TypeInv, MCNext, ~WifiOn, ~ExecuteCommand
  PROVE  ran' = ran
<1>1. ~Forgotten /\ ~HandedOver
  BY OnlyExecuteHandsOver DEF Forgotten, MCNext
<1>2. QED
  BY <1>1 DEF MCNext, RanNext

\* What the session's operators do to the session that goes on.
LEMMA FieldsGoOn ==
  ASSUME TypeInv,
         \/ session' = session \/ session' = NoSession
         \/ session' = Refreshed(session) \/ session' = OutOfLease(session)
         \/ \E w \in {"off", "running", "late", "blind"} :
              session' = WithWatchdog(session, w)
         \/ \E id \in Nat : \/ session' = WithLastId(session, id)
                             \/ session' = Refreshed(WithLastId(session, id))
  PROVE  SessionGoesOn
<1>1. session \in Session
  BY DEF TypeInv, TypeOK
<1>2. CASE session' = NoSession
  BY <1>2, NoSessionFields, NoSessionType DEF SessionGoesOn
<1>3. CASE session' # NoSession
  <2>1. /\ session'.active = session.active /\ session'.gen = session.gen
        /\ session'.intents = session.intents
    <3>1. CASE session' = session
      BY <3>1
    <3>2. CASE session' = Refreshed(session)
      BY <1>1, <3>2, SameFields, RefreshedType DEF Same
    <3>3. CASE session' = OutOfLease(session)
      BY <1>1, <3>3, SameFields, OutOfLeaseType DEF Same
    <3>4. ASSUME NEW w \in {"off", "running", "late", "blind"},
                 session' = WithWatchdog(session, w)
          PROVE  /\ session'.active = session.active /\ session'.gen = session.gen
                 /\ session'.intents = session.intents
      BY <1>1, <3>4, SameFields, WithWatchdogType DEF Same
    <3>5. ASSUME NEW id \in Nat,
                 \/ session' = WithLastId(session, id)
                 \/ session' = Refreshed(WithLastId(session, id))
          PROVE  /\ session'.active = session.active /\ session'.gen = session.gen
                 /\ session'.intents = session.intents
      <4> DEFINE s == WithLastId(session, id)
      <4>1. /\ s.active = session.active /\ s.gen = session.gen
            /\ s.intents = session.intents /\ s \in Session
        BY <1>1, WithLastIdFields, WithLastIdType
      <4> HIDE DEF s
      <4>2. CASE session' = s
        BY <4>1, <4>2
      <4>3. CASE session' = Refreshed(s)
        BY <4>1, <4>3, SameFields, RefreshedType DEF Same
      <4>4. QED
        BY <3>5, <4>2, <4>3 DEF s
    <3>6. QED
      BY <1>3, <3>1, <3>2, <3>3, <3>4, <3>5
  <2>2. QED
    BY <2>1 DEF SessionGoesOn, SameIntents
<1>4. QED
  BY <1>2, <1>3

LEMMA IntentsCallback ==
  ASSUME TypeInv, IntentInv, ran' = ran,
         CallbackArrival \/ RevokeDisconnected \/ ShowNewCode \/ AcceptPing \/ Stamp
  PROVE  IntentInv'
<1> USE DEF wifiVars, routerVars, CallbackOnly
<1>1. cb \in [at: CallbackStep, command: Queued]
  BY DEF TypeInv, TypeOK
<1>2. lp' = lp
  BY DEF CallbackArrival, Connect, Disconnect, ReceivePair, ReceivePing, ReceiveControl,
         Receive, ReceiveStop, RevokeDisconnected, ShowNewCode, AcceptPing, Stamp
<1>3. queue' = queue \/ queue' = <<>>
  BY DEF CallbackArrival, Connect, Disconnect, ReceivePair, ReceivePing, ReceiveControl,
         Receive, ReceiveStop, RevokeDisconnected, RevokeController, ShowNewCode,
         AcceptPing, Stamp
<1>4. CASE CallbackArrival
  <2>1. cb.at = "idle" /\ cb'.at \in {"idle", "revoke", "pair", "ping", "accept"}
    BY <1>1, <1>4 DEF CallbackArrival, Connect, Disconnect, ReceivePair, ReceivePing,
       ReceiveControl, Receive, ReceiveStop, CallbackGoes
  <2>2. session' = session \/ session' = Refreshed(session)
    BY <1>4 DEF CallbackArrival, Connect, Disconnect, ReceivePair, ReceivePing,
       ReceiveControl, Receive, ReceiveStop
  <2>3. SessionGoesOn
    BY <2>2, FieldsGoOn
  <2>4. QuietFlight
    BY <1>2, <1>3, <2>1 DEF QuietFlight, Carrying, Accepted
  <2>5. QED
    BY <2>1, <2>3, <2>4, QuietKeepsIntents
<1>5. CASE RevokeDisconnected
  <2>1. cb.at = "revoke" /\ cb'.at \in {"idle", "newCode"}
    BY <1>1, <1>5 DEF RevokeDisconnected, CallbackDone, CallbackGoes
  <2>2. session' = session \/ session' = NoSession
    BY <1>5 DEF RevokeDisconnected, RevokeController
  <2>3. SessionGoesOn
    BY <2>2, FieldsGoOn
  <2>4. QuietFlight
    BY <1>2, <1>3, <2>1 DEF QuietFlight, Carrying, Accepted
  <2>5. QED
    BY <2>1, <2>3, <2>4, QuietKeepsIntents
<1>6. CASE AcceptPing
  <2>1. cb.at = "ping" /\ cb'.at = "idle"
    BY <1>6 DEF AcceptPing, CallbackDone
  <2>2. \/ session' = session
        \/ /\ session' = Refreshed(WithLastId(session, Continued(cb.command.id)))
           /\ Continued(cb.command.id) \in Nat
    BY <1>6, LastIdTakenUp DEF AcceptPing, WithLastId
  <2>3. SessionGoesOn
    BY <2>2, FieldsGoOn
  <2>4. QuietFlight
    BY <1>2, <1>3, <2>1 DEF QuietFlight, Carrying, Accepted
  <2>5. QED
    BY <2>1, <2>3, <2>4, QuietKeepsIntents
<1>7. CASE Stamp
  <2>1. cb.at = "stamp" /\ cb'.at = "enqueue" /\ session' = session
        /\ Label(cb'.command) = Label(cb.command)
    BY <1>1, <1>7 DEF Stamp, Label, Queued
  <2>2. SessionGoesOn
    BY <2>1, FieldsGoOn
  <2>3. QuietFlight
    BY <1>2, <1>3, <2>1 DEF QuietFlight, Carrying, Accepted
  <2>4. QED
    BY <2>1, <2>2, <2>3, QuietKeepsIntents
<1>8. CASE ShowNewCode
  <2>1. cb.at = "newCode" /\ cb'.at = "idle" /\ session' = session
    BY <1>8 DEF ShowNewCode, CallbackDone
  <2>2. SessionGoesOn
    BY <2>1, FieldsGoOn
  <2>3. QuietFlight
    BY <1>2, <1>3, <2>1 DEF QuietFlight, Carrying, Accepted
  <2>4. QED
    BY <2>1, <2>2, <2>3, QuietKeepsIntents
<1>9. QED
  BY <1>4, <1>5, <1>6, <1>7, <1>8

LEMMA IntentsPair ==
  ASSUME TypeInv, SafeInv, IntentInv, ran' = ran, Pair
  PROVE  IntentInv'
<1> DEFINE paired == Paired(cb.command.client, sessions + 1)
<1>1. /\ lp' = lp /\ cb.at = "pair" /\ cb'.at = "idle"
      /\ queue' = queue \/ queue' = <<>>
  BY DEF Pair, CallbackDone, CallbackOnly
<1>2. QuietFlight
  BY <1>1 DEF QuietFlight, Carrying, Accepted
<1>3. session' = paired \/ session' = session
  BY DEF Pair, Paired
<1>4. /\ paired.active = TRUE /\ paired.gen = sessions + 1 /\ paired.intents = <<>>
      /\ sessions \in Nat
  <2>1. sessions \in Nat
    BY WifiAssumption DEF TypeInv, TypeOK
  <2>2. paired.active = TRUE /\ paired.gen = sessions + 1 /\ paired.intents = <<>>
    BY DEF Paired, NoSession
  <2>3. QED
    BY <2>1, <2>2
<1> HIDE DEF paired
<1>5. CASE session' = session
  BY <1>1, <1>2, <1>5, FieldsGoOn, QuietKeepsIntents
<1>6. CASE session' = paired
  <2>1. Thinned
    BY <1>2, QuietThins
  <2>2. \A l \in Labels : Own(l)' => ~Known(l)'
    <3> SUFFICES ASSUME NEW l \in Labels, Own(l)', Known(l)' PROVE FALSE
      OBVIOUS
    <3>1. l[1] = sessions + 1
      BY <1>4, <1>6 DEF Own
    <3>2. l[1] <= sessions
      BY <2>1 DEF SafeInv, OrderInv, Thinned, Issued
    <3>3. QED
      BY <1>4, <3>1, <3>2
  <2>3. \A l \in Labels : Recalled(l)' => Known(l)'
    BY DEF Recalled, Known
  <2>4. \A l, m \in Labels : Ahead(l, m)' => Known(l)'
    BY DEF Ahead, Known, InOrder, InQueue
  <2>5. DOMAIN session'.intents = {}
    BY <1>4, <1>6
  <2>6. QED
    BY <2>2, <2>3, <2>4, <2>5 DEF IntentInv
<1>7. QED
  BY <1>3, <1>5, <1>6

\* The accepted command is on offer, and its intent is yet to be looked for.
LEMMA IntentsAccept ==
  ASSUME TypeInv, TypeInv', IntentInv, ran' = ran, Accept
  PROVE  IntentInv'
<1>1. /\ UNCHANGED <<lp, queue>> /\ cb.at = "accept"
      /\ cb \in [at: CallbackStep, command: Queued]
  BY DEF Accept, CallbackOnly, TypeInv, TypeOK
<1>2. CASE ~Acceptable(cb.command)
  <2>1. session' = session /\ cb'.at = "idle"
    BY <1>2 DEF Accept, CallbackDone
  <2>2. QuietFlight
    BY <1>1, <2>1 DEF QuietFlight, Carrying, Accepted
  <2>3. QED
    BY <1>1, <2>1, <2>2, FieldsGoOn, QuietKeepsIntents
<1>3. CASE Acceptable(cb.command)
  <2>1. /\ session' = WithLastId(session, Continued(cb.command.id))
        /\ Continued(cb.command.id) \in Nat
    BY <1>3, LastIdTakenUp DEF Accept, WithLastId
  <2>2. SessionGoesOn /\ session'.active
    <3>1. SessionGoesOn
      BY <2>1, FieldsGoOn
    <3>2. session'.active
      BY <1>3, <2>1, LastIdTakenUp
    <3>3. QED
      BY <3>1, <3>2
  <2>3. session'.gen = session.gen /\ session'.active = session.active /\ SameIntents
    BY <2>2 DEF SessionGoesOn
  <2>4. /\ cb'.command \in Queued /\ cb'.command.intent = cb.command.intent
        /\ cb'.at = IF cb.command.intent = NoIntent THEN "stamp" ELSE "remember"
    <3>1. AcceptedAs(Continued(cb.command.id))
      BY <1>3 DEF Accept, AcceptedAs
    <3>2. QED
      BY <1>1, <2>1, <3>1, AcceptedAsFields
  <2>00. PICK new : new = Label(cb'.command)
    OBVIOUS
  <2>5. /\ new = Label(cb'.command) /\ new[3] = cb.command.intent
    BY <2>00, <2>4, LabelType
  <2>6. \A l : Own(l)' => Own(l)
    BY <2>3 DEF Own
  <2>7. \A t : Remembered(t)' <=> Remembered(t)
    BY <2>3 DEF Remembered, SameIntents
  <2>8. \A l : /\ Carried(l)' <=> Carried(l)
               /\ InQueue(l)' <=> InQueue(l)
               /\ Offered(l)' => l = new
               /\ ~Offered(l) /\ ~Pondered(l)
    <3>1. \A l : (Carried(l)' <=> Carried(l)) /\ (InQueue(l)' <=> InQueue(l))
      BY <1>1 DEF Carried, InQueue
    <3>2. \A l : Offered(l)' => l = new
      BY <2>5 DEF Offered, Label
    <3>3. \A l : ~Offered(l) /\ ~Pondered(l)
      BY <1>1 DEF Offered, Pondered
    <3>4. QED
      BY <3>1, <3>2, <3>3
  <2>9. cb'.at = "remember" => Pondered(new)'
    BY <2>5 DEF Pondered, Label
  <2>10. cb'.at # "remember" => new[3] = NoIntent
    BY <2>4, <2>5
  <2>11. \A l, m : InOrder(l, m)' <=> InOrder(l, m)
    BY <1>1 DEF InOrder
  <2>12. ASSUME NEW l \in Labels, Own(l)', Recalled(l)'
         PROVE  Remembered(l[3])'
    <3>1. Recalled(l) \/ (l = new /\ cb'.at # "remember")
      BY <2>8, <2>12 DEF Recalled
    <3>2. CASE Recalled(l)
      BY <2>6, <2>7, <2>12, <3>2 DEF IntentInv
    <3>3. CASE l = new /\ cb'.at # "remember"
      BY <2>10, <2>12, <3>3 DEF Own
    <3>4. QED
      BY <3>1, <3>2, <3>3
  <2>13. ASSUME NEW l \in Labels, NEW m \in Labels,
                Own(l)', Own(m)', Ahead(l, m)', ~Pondered(m)'
         PROVE  l[3] # m[3]
    <3>1. Ahead(l, m) \/ Offered(m)'
      BY <2>8, <2>11, <2>13 DEF Ahead
    <3>2. CASE Ahead(l, m)
      BY <2>6, <2>8, <2>13, <3>2 DEF IntentInv
    <3>3. CASE Offered(m)'
      <4>1. m = new
        BY <2>8, <3>3
      <4>2. cb'.at # "remember"
        BY <2>5, <2>9, <2>13, <4>1 DEF Pondered, Offered
      <4>3. QED
        BY <2>10, <2>13, <4>1, <4>2 DEF Own
    <3>4. QED
      BY <3>1, <3>2, <3>3
  <2>14. \A i, j \in DOMAIN session'.intents :
           i # j => session'.intents[i].intent # session'.intents[j].intent
    BY <2>3 DEF SameIntents, IntentInv
  <2>15. QED
    BY <2>12, <2>13, <2>14 DEF IntentInv
<1>4. QED
  BY <1>2, <1>3

\* The intent is looked for, and remembered when it is new.
LEMMA IntentsRemember ==
  ASSUME TypeInv, TypeInv', SafeInv, IntentInv, ran' = ran, Remember,
         IsFiniteSet(Intents), Cardinality(Intents) <= RecentIntents
  PROVE  IntentInv'
<1> DEFINE new == Label(cb.command)
           t == cb.command.intent
<1>1. /\ UNCHANGED <<lp, queue>> /\ cb.at = "remember"
      /\ cb \in [at: CallbackStep, command: Queued]
      /\ session \in Session /\ session.intents \in Seq(IntentResult)
      /\ t \in Intents
  <2>1. /\ UNCHANGED <<lp, queue>> /\ cb.at = "remember"
    BY DEF Remember, CallbackOnly
  <2>2. /\ cb \in [at: CallbackStep, command: Queued]
        /\ session \in Session /\ session.intents \in Seq(IntentResult)
    BY DEF TypeInv, TypeOK, Session, IntentResult
  <2>3. t \in Intents
    BY <2>1, <2>2 DEF TypeInv, Queued
  <2>4. QED
    BY <2>1, <2>2, <2>3
<1>2. CASE CallbackDone /\ session' = session
  <2>1. \A l : Offered(l)' => Offered(l)
    BY <1>2 DEF CallbackDone, Offered
  <2>2. cb'.at = "idle"
    BY <1>2 DEF CallbackDone
  <2>3. \A l : /\ Carried(l)' <=> Carried(l)
               /\ InQueue(l)' <=> InQueue(l)
               /\ ~Offered(l)' /\ ~Pondered(l)'
    BY <1>1, <2>2 DEF Carried, InQueue, Offered, Pondered
  <2>4. \A l, m : InOrder(l, m)' <=> InOrder(l, m)
    BY <1>1 DEF InOrder
  <2>5. \A l, m : Ahead(l, m)' => /\ Ahead(l, m)
                                  /\ Carried(m) \/ InQueue(m)
    BY <2>3, <2>4 DEF Ahead, InOrder, InQueue
  <2>6. \A l : /\ Own(l)' <=> Own(l)
               /\ Recalled(l)' => Recalled(l)
               /\ Remembered(l[3])' <=> Remembered(l[3])
    BY <1>2, <2>3 DEF Own, Recalled, Remembered
  <2>7. ASSUME NEW l \in Labels, NEW m \in Labels, Own(l)', Own(m)', Ahead(l, m)'
        PROVE  l[3] # m[3]
    <3>1. Ahead(l, m) /\ (Carried(m) \/ InQueue(m)) /\ Own(l) /\ Own(m)
      BY <2>5, <2>6, <2>7
    <3>2. ~Pondered(m)
      <4>1. SUFFICES ASSUME Pondered(m) PROVE FALSE
        OBVIOUS
      <4>2. Offered(m)
        BY <4>1 DEF Pondered, Offered
      <4>3. Ahead(m, m)
        BY <3>1, <4>2 DEF Ahead
      <4>4. m[2] < m[2]
        BY <4>3 DEF SafeInv, OrderInv
      <4>5. QED
        BY <4>4, LabelsNat
    <3>3. QED
      BY <3>1, <3>2 DEF IntentInv
  <2>8. QED
    BY <1>2, <2>6, <2>7 DEF IntentInv
<1>3. CASE CallbackGoes("stamp")
  <2>1. cb'.at = "stamp" /\ cb'.command = cb.command
    BY <1>1, <1>3 DEF CallbackGoes
  <2>2. new' = new /\ new \in Labels /\ new[3] = t
    BY <1>1, <2>1, LabelType
  <2>3. CASE ~session.active
    <3>1. session' = session
      BY <2>3, <1>3, <2>1 DEF Remember, Owns, CallbackDone
    <3>2. \A l : ~Own(l)'
      BY <2>3, <3>1 DEF Own
    <3>3. QED
      BY <3>1, <3>2 DEF IntentInv
  <2>4. CASE session.active
    <3>1. SessionCurrent(cb.command) /\ Owns(cb.command)
      BY <1>1, <2>4 DEF SafeInv, SessionInv, SessionCurrent, Owns
    <3>2. ~Remembered(t)
      <4>1. SUFFICES ASSUME Remembered(t) PROVE FALSE
        OBVIOUS
      <4>2. cb'.at = "idle"
        BY <3>1, <4>1 DEF Remember, CallbackDone
      <4>3. QED
        BY <2>1, <4>2
    <3>3. session' = WithIntents(session, Recorded(session.intents, t))
      BY <3>1, <3>2 DEF Remember, WithIntents
    <3>4. Len(session.intents) < RecentIntents
      BY <1>1, <3>2, RoomForNew
    <3>5. Recorded(session.intents, t)
            = Append(session.intents, [intent |-> t, status |-> "PENDING"])
      BY <3>4 DEF Recorded
    <3> DEFINE n == Len(session.intents)
               entry == [intent |-> t, status |-> "PENDING"]
    <3>6. /\ session'.active = session.active /\ session'.gen = session.gen
          /\ session'.intents = Append(session.intents, entry)
      <4>1. Recorded(session.intents, t) \in Seq(IntentResult)
        <5>1. Len(session.intents) <= RecentIntents
          BY DEF TypeInv, TypeOK
        <5>2. QED
          BY <1>1, <5>1, RecordedType
      <4>2. QED
        BY <1>1, <3>3, <3>5, <4>1, SameFields, WithIntentsType DEF Same
    <3>7. entry \in IntentResult /\ entry.intent = t
      BY <1>1 DEF IntentResult, Status
    <3> HIDE DEF entry
    <3>8. /\ DOMAIN session.intents = 1 .. n /\ n \in Nat
          /\ DOMAIN session'.intents = 1 .. n + 1
          /\ \A i \in 1 .. n : session'.intents[i] = session.intents[i]
          /\ session'.intents[n + 1] = entry
      BY <1>1, <3>6, <3>7, Appended
    <3> HIDE DEF n
    <3>9. \A u : Remembered(u)' <=> Remembered(u) \/ u = t
      <4> SUFFICES ASSUME NEW u PROVE Remembered(u)' <=> Remembered(u) \/ u = t
        OBVIOUS
      <4>1. ASSUME Remembered(u) PROVE Remembered(u)'
        <5>1. PICK i \in 1 .. n : session.intents[i].intent = u
          BY <3>8, <4>1 DEF Remembered
        <5>2. i \in DOMAIN session'.intents /\ session'.intents[i].intent = u
          BY <3>8, <5>1
        <5>3. QED
          BY <5>2 DEF Remembered
      <4>2. ASSUME u = t PROVE Remembered(u)'
        <5>1. n + 1 \in DOMAIN session'.intents /\ session'.intents[n + 1].intent = u
          BY <3>7, <3>8, <4>2
        <5>2. QED
          BY <5>1 DEF Remembered
      <4>3. ASSUME Remembered(u)' PROVE Remembered(u) \/ u = t
        <5>1. PICK i \in 1 .. n + 1 : session'.intents[i].intent = u
          BY <3>8, <4>3 DEF Remembered
        <5>2. CASE i \in 1 .. n
          BY <3>8, <5>1, <5>2 DEF Remembered
        <5>3. CASE i = n + 1
          BY <3>7, <3>8, <5>1, <5>3
        <5>4. QED
          BY <3>8, <5>2, <5>3
      <4>4. QED
        BY <4>1, <4>2, <4>3
    <3>10. ASSUME NEW i \in DOMAIN session'.intents, NEW j \in DOMAIN session'.intents,
                  i # j
           PROVE  session'.intents[i].intent # session'.intents[j].intent
      <4>1. \A k \in 1 .. n : session.intents[k].intent # t
        BY <3>2, <3>8 DEF Remembered
      <4>2. CASE i \in 1 .. n /\ j \in 1 .. n
        BY <3>8, <3>10, <4>2 DEF IntentInv
      <4>3. CASE i = n + 1 /\ j \in 1 .. n
        BY <3>7, <3>8, <4>1, <4>3
      <4>4. CASE i \in 1 .. n /\ j = n + 1
        BY <3>7, <3>8, <4>1, <4>4
      <4>5. QED
        BY <3>8, <3>10, <4>2, <4>3, <4>4
    <3>11. \A l : /\ Carried(l)' <=> Carried(l)
                  /\ InQueue(l)' <=> InQueue(l)
                  /\ Offered(l)' <=> Offered(l)
                  /\ Offered(l) <=> l = new
                  /\ Pondered(l) <=> l = new
                  /\ Own(l)' <=> Own(l)
      <4>1. \A l : (Carried(l)' <=> Carried(l)) /\ (InQueue(l)' <=> InQueue(l))
        BY <1>1 DEF Carried, InQueue
      <4>2. \A l : (Offered(l) <=> l = new) /\ (Pondered(l) <=> l = new)
        BY <1>1 DEF Offered, Pondered
      <4>3. \A l : Offered(l)' <=> l = new
        BY <2>1, <2>2 DEF Offered
      <4>4. \A l : Own(l)' <=> Own(l)
        BY <3>6 DEF Own
      <4>5. QED
        BY <4>1, <4>2, <4>3, <4>4
    <3>12. \A l, m : InOrder(l, m)' <=> InOrder(l, m)
      BY <1>1 DEF InOrder
    <3> HIDE DEF new
    <3>13. \A l : Recalled(l)' => Recalled(l) \/ l = new
      BY <3>11 DEF Recalled
    <3>14. \A l \in Labels : Own(l)' /\ Recalled(l)' => Remembered(l[3])'
      BY <2>2, <3>9, <3>11, <3>13 DEF IntentInv
    <3>15. ASSUME NEW l \in Labels, NEW m \in Labels, Own(l)', Own(m)', Ahead(l, m)'
           PROVE  l[3] # m[3]
      <4>1. Ahead(l, m) /\ Own(l) /\ Own(m)
        BY <3>11, <3>12, <3>15 DEF Ahead
      <4>2. CASE ~Pondered(m)
        BY <4>1, <4>2 DEF IntentInv
      <4>3. CASE Pondered(m)
        <5>1. m[3] = t
          BY <2>2, <3>11, <4>3
        <5>2. Recalled(l)
          BY <4>1 DEF Ahead, Recalled, InOrder, InQueue
        <5>3. Remembered(l[3])
          BY <4>1, <5>2 DEF IntentInv
        <5>4. QED
          BY <3>2, <5>1, <5>3
      <4>4. QED
        BY <4>2, <4>3
    <3>16. QED
      BY <3>10, <3>14, <3>15 DEF IntentInv
  <2>5. QED
    BY <2>3, <2>4
<1>4. QED
  BY <1>2, <1>3 DEF Remember

LEMMA IntentsEnqueue ==
  ASSUME TypeInv, IntentInv, ran' = ran, Enqueue
  PROVE  IntentInv'
<1>1. lp' = lp /\ cb.at = "enqueue" /\ cb'.at = "idle"
  BY DEF Enqueue, CallbackDone, CallbackOnly
<1>2. SessionGoesOn
  <2>1. session' = session \/ session' = Refreshed(session)
    BY DEF Enqueue
  <2>2. QED
    BY <2>1, FieldsGoOn
<1>3. CASE queue' = queue
  <2>1. QuietFlight
    BY <1>1, <1>3 DEF QuietFlight, Carrying, Accepted
  <2>2. QED
    BY <1>1, <1>2, <2>1, QuietKeepsIntents
<1>4. CASE queue' = Append(queue, cb.command)
  <2>1. Thinned /\ \A l : InQueue(l)' => InQueue(l) \/ Offered(l)
    BY <1>1, <1>4, EnqueueThins
  <2>2. \A l : (Carried(l)' <=> Carried(l)) /\ ~Offered(l)' /\ ~Pondered(l)
    BY <1>1 DEF Carried, Offered, Pondered
  <2>3. \A l : Recalled(l)' => Recalled(l)
    BY <1>1, <2>1, <2>2 DEF Recalled
  <2>4. QED
    BY <1>2, <2>1, <2>2, <2>3, ThinnedKeepsIntents DEF Thinned
<1>5. QED
  BY <1>3, <1>4 DEF Enqueue

LEMMA SettledGoesOn ==
  ASSUME TypeInv, NEW t, NEW status \in Status,
         session' = WithIntents(session, Settled(session.intents, t, status))
  PROVE  SessionGoesOn
<1> DEFINE settled == Settled(session.intents, t, status)
<1>1. session \in Session /\ session.intents \in Seq(IntentResult)
  BY DEF TypeInv, TypeOK, Session, IntentResult
<1>2. settled \in Seq(IntentResult)
  BY <1>1, SettledType
<1>3. /\ DOMAIN settled = DOMAIN session.intents
      /\ \A i \in DOMAIN session.intents :
           settled[i].intent = session.intents[i].intent
  <2>1. ASSUME NEW i \in DOMAIN session.intents
        PROVE  settled[i].intent = session.intents[i].intent
    <3>1. session.intents[i] \in IntentResult
      BY <1>1
    <3>2. settled[i] = IF session.intents[i].intent = t
                       THEN [session.intents[i] EXCEPT !.status = status]
                       ELSE session.intents[i]
      BY DEF Settled
    <3>3. QED
      BY <3>1, <3>2 DEF IntentResult
  <2>2. DOMAIN settled = DOMAIN session.intents
    BY DEF Settled
  <2>3. QED
    BY <2>1, <2>2
<1>a. session' = WithIntents(session, settled)
  OBVIOUS
<1> HIDE DEF settled
<1>b. Same(session, WithIntents(session, settled))
  BY <1>1, <1>2, SameFields
<1>c. WithIntents(session, settled).intents = settled
  BY <1>1, <1>2, WithIntentsType
<1>4. /\ session'.active = session.active /\ session'.gen = session.gen
      /\ session'.intents = settled
  BY <1>a, <1>b, <1>c DEF Same
<1>5. QED
  BY <1>3, <1>4 DEF SessionGoesOn, SameIntents

LEMMA IntentsLoop ==
  ASSUME TypeInv, IntentInv, ran' = ran,
         \/ Update /\ ~ExecuteCommand
         \/ GeneratePairingCode \/ FinishWifiOff \/ (BetweenUpdates /\ ~WifiOn)
         \/ LeaseRunsOut \/ WatchdogRunsOut
  PROVE  IntentInv'
<1> USE DEF wifiVars, routerVars, LoopOnly
<1>1. lp \in LoopState
  BY DEF TypeInv, TypeOK, LoopState
<1>2. cb' = cb
  BY DEF Update, BeginUpdate, CheckTimers, LeaseExpired, WatchdogExpired,
     TakePendingStop, ExecutePendingStop, Dequeue, CheckPendingStop, LockDispatch,
     DropCommand, ReportCommand, GeneratePairingCode, FinishWifiOff, BetweenUpdates,
     LocalCommand, LocalEstop, SafetyFaultFound, RequestNewPairingCode,
     DriveTimesOut, BeginWifiOff, LeaseRunsOut, WatchdogRunsOut
<1>3. Accepted' => Accepted /\ Label(cb'.command) = Label(cb.command)
  BY <1>2 DEF Accepted
<1>4. CASE Dequeue
  <2>1. session' = session /\ lp.at = "dequeue"
    BY <1>4 DEF Dequeue
  <2>2. SessionGoesOn
    BY <2>1, FieldsGoOn
  <2>3. CASE pending = "no" /\ queue # <<>>
    <3>1. lp'.command = Head(queue) /\ queue' = Tail(queue)
      BY <1>1, <1>4, <2>3 DEF Dequeue, LoopState
    <3>2. /\ Thinned
          /\ \A l : InQueue(l)' \/ Carried(l)' => InQueue(l)
      BY <1>2, <2>1, <2>3, <3>1, DequeueThins DEF Carrying
    <3>3. \A l : (Offered(l)' <=> Offered(l)) /\ (Pondered(l) => Pondered(l)')
      BY <1>2 DEF Offered, Pondered
    <3>4. \A l : Recalled(l)' => Recalled(l)
      BY <1>2, <3>2, <3>3 DEF Recalled
    <3>5. QED
      BY <2>2, <3>2, <3>3, <3>4, ThinnedKeepsIntents DEF Thinned
  <2>4. CASE ~(pending = "no" /\ queue # <<>>)
    <3>1. lp'.at = "take" /\ queue' = queue
      BY <1>1, <1>4, <2>4 DEF Dequeue, LoopState
    <3>2. QuietFlight
      BY <1>3, <3>1 DEF QuietFlight, Carrying
    <3>3. QED
      BY <1>2, <2>2, <3>2, QuietKeepsIntents
  <2>5. QED
    BY <2>3, <2>4
<1>5. CASE ReportCommand
  <2>1. session' = WithIntents(session,
                     Settled(session.intents, lp.command.intent, lp.status))
    BY <1>5 DEF ReportCommand, WithIntents
  <2>2. SessionGoesOn
    BY <1>1, <2>1, SettledGoesOn DEF LoopState
  <2>3. lp'.at = "dequeue" /\ queue' = queue
    BY <1>1, <1>5 DEF ReportCommand, LoopState
  <2>4. QuietFlight
    BY <1>3, <2>3 DEF QuietFlight, Carrying
  <2>5. QED
    BY <1>2, <2>2, <2>4, QuietKeepsIntents
<1>6. CASE CheckPendingStop \/ LockDispatch \/ DropCommand
  <2>1. session' = session /\ queue' = queue
    BY <1>6 DEF CheckPendingStop, LockDispatch, DropCommand
  <2>2. Carrying /\ lp'.command = lp.command
    BY <1>1, <1>6 DEF CheckPendingStop, LockDispatch, DropCommand, Carrying, LoopState
  <2>3. SessionGoesOn
    BY <2>1, FieldsGoOn
  <2>4. QuietFlight
    BY <1>3, <2>1, <2>2 DEF QuietFlight
  <2>5. QED
    BY <1>2, <2>3, <2>4, QuietKeepsIntents
<1>7. CASE \/ \E expired \in BOOLEAN, evicted \in SUBSET Clients :
                BeginUpdate(expired, evicted)
           \/ CheckTimers \/ LeaseExpired \/ WatchdogExpired
           \/ TakePendingStop \/ ExecutePendingStop
  <2>1. \/ session' = session \/ session' = NoSession
        \/ session' = WithWatchdog(session, "off")
    BY <1>7 DEF BeginUpdate, CheckTimers, LeaseExpired, RevokeController,
       WatchdogExpired, TakePendingStop, ExecutePendingStop, WithWatchdog
  <2>2. queue' = queue \/ queue' = <<>>
    BY <1>7 DEF BeginUpdate, CheckTimers, LeaseExpired, RevokeController,
       WatchdogExpired, TakePendingStop, ExecutePendingStop
  <2>3. ~Carrying'
    <3>1. CASE \/ \E expired \in BOOLEAN, evicted \in SUBSET Clients :
                    BeginUpdate(expired, evicted)
               \/ CheckTimers
      BY <1>1, <3>1, LoopGoesType
      DEF BeginUpdate, CheckTimers, Carrying, LoopState, LoopStep
    <3>2. CASE LeaseExpired \/ WatchdogExpired
      BY <1>1, <3>2 DEF LeaseExpired, WatchdogExpired, Carrying, LoopState
    <3>3. CASE TakePendingStop
      <4>1. AfterStop \/ lp' = [lp EXCEPT !.at = "stop", !.fault = pending]
        BY <3>3 DEF TakePendingStop
      <4>2. CASE AfterStop
        BY <1>1, <4>2, AfterStopType DEF Carrying
      <4>3. CASE lp' = [lp EXCEPT !.at = "stop", !.fault = pending]
        BY <1>1, <4>3 DEF Carrying, LoopState
      <4>4. QED
        BY <4>1, <4>2, <4>3
    <3>4. CASE ExecutePendingStop
      BY <1>1, <3>4, AfterStopType DEF ExecutePendingStop, Carrying
    <3>5. QED
      BY <1>7, <3>1, <3>2, <3>3, <3>4
  <2>4. SessionGoesOn
    BY <2>1, FieldsGoOn
  <2>5. QuietFlight
    BY <1>3, <2>2, <2>3 DEF QuietFlight
  <2>6. QED
    BY <1>2, <2>4, <2>5, QuietKeepsIntents
<1>8. CASE GeneratePairingCode \/ FinishWifiOff \/ (BetweenUpdates /\ ~WifiOn)
  <2>1. session' = session \/ session' = NoSession
    BY <1>8 DEF GeneratePairingCode, FinishWifiOff, BetweenUpdates, LocalCommand,
       LocalEstop, SafetyFaultFound, RequestNewPairingCode, DriveTimesOut, BeginWifiOff
  <2>2. queue' = queue \/ queue' = <<>>
    BY <1>8 DEF GeneratePairingCode, FinishWifiOff, BetweenUpdates, LocalCommand,
       LocalEstop, SafetyFaultFound, RequestNewPairingCode, DriveTimesOut, BeginWifiOff
  <2>3. ~Carrying'
    <3>0. CASE GeneratePairingCode \/ FinishWifiOff
      <4>1. LoopGoes("idle") \/ LoopGoes("take")
        BY <3>0 DEF GeneratePairingCode, FinishWifiOff
      <4>2. QED
        BY <1>1, <4>1, LoopGoesType DEF Carrying, LoopStep
    <3>1. CASE RequestNewPairingCode
      BY <1>1, <3>1 DEF RequestNewPairingCode, Carrying, LoopState
    <3>2. CASE BeginWifiOff
      BY <1>1, <3>2 DEF BeginWifiOff, Carrying, LoopState
    <3>3. CASE \/ \E kind \in LocalKinds : LocalCommand(kind)
               \/ LocalEstop \/ SafetyFaultFound \/ DriveTimesOut
      BY <3>3 DEF LocalCommand, LocalEstop, SafetyFaultFound, DriveTimesOut, AtRest,
         Carrying
    <3>4. QED
      BY <1>8, <3>0, <3>1, <3>2, <3>3 DEF BetweenUpdates
  <2>4. SessionGoesOn
    BY <2>1, FieldsGoOn
  <2>5. QuietFlight
    BY <1>3, <2>2, <2>3 DEF QuietFlight
  <2>6. QED
    BY <1>2, <2>4, <2>5, QuietKeepsIntents
<1>9. CASE LeaseRunsOut \/ WatchdogRunsOut
  <2>1. session' = OutOfLease(session) \/ session' = WithWatchdog(session, "late")
    BY <1>9 DEF LeaseRunsOut, WatchdogRunsOut, OutOfLease, WithWatchdog
  <2>2. SessionGoesOn
    BY <2>1, FieldsGoOn
  <2>3. lp' = lp /\ queue' = queue
    BY <1>9 DEF LeaseRunsOut, WatchdogRunsOut
  <2>4. QuietFlight
    BY <1>3, <2>3 DEF QuietFlight, Carrying
  <2>5. QED
    BY <1>2, <2>2, <2>4, QuietKeepsIntents
<1>10. QED
  BY <1>4, <1>5, <1>6, <1>7, <1>8, <1>9 DEF Update

LEMMA IntentsExecute ==
  ASSUME TypeInv, IntentInv, MCNext, ~WifiOn, ExecuteCommand
  PROVE  IntentInv'
<1>1. /\ queue' = queue /\ cb' = cb /\ lp.at = "execute" /\ lp'.at = "report"
      /\ Executes
  <2>1. queue' = queue /\ cb' = cb /\ Executes
    BY DEF ExecuteCommand, LoopOnly
  <2>2. lp'.at = "report"
    BY DEF ExecuteCommand, TypeInv, TypeOK
  <2>3. QED
    BY <2>1, <2>2 DEF Executes
<1>2. ran' = ran \cup {Label(lp.command)}
  BY <1>1 DEF MCNext, RanNext, Forgotten, HandedOver, Label
<1>3. \/ session' = session
      \/ \E w \in {"off", "running", "late", "blind"} : session' = WithWatchdog(session, w)
  BY DEF ExecuteCommand, WithWatchdog
<1>4. SessionGoesOn
  BY <1>3, FieldsGoOn
<1>5. \A l : /\ InQueue(l)' <=> InQueue(l)
             /\ Offered(l)' <=> Offered(l)
             /\ Pondered(l)' <=> Pondered(l)
             /\ ~Carried(l)'
             /\ l \in ran' <=> l \in ran \/ Carried(l)
  <2>1. \A l : l \in ran' <=> l \in ran \/ Carried(l)
    BY <1>1, <1>2 DEF Carried
  <2>2. \A l : ~Carried(l)'
    BY <1>1 DEF Carried
  <2>3. \A l : /\ InQueue(l)' <=> InQueue(l)
               /\ Offered(l)' <=> Offered(l)
               /\ Pondered(l)' <=> Pondered(l)
    BY <1>1 DEF InQueue, Offered, Pondered
  <2>4. QED
    BY <2>1, <2>2, <2>3
<1>6. \A l, m : InOrder(l, m)' <=> InOrder(l, m)
  BY <1>1 DEF InOrder
<1>7. \A l : Recalled(l)' => Recalled(l)
  BY <1>1, <1>5 DEF Recalled
<1>8. \A l, m : Ahead(l, m)' => Ahead(l, m)
  BY <1>5, <1>6 DEF Ahead
<1>9. QED
  BY <1>4, <1>5, <1>7, <1>8, ThinnedKeepsIntents

LEMMA IntentsWifiOn ==
  ASSUME WifiOn
  PROVE  IntentInv'
<1>1. session' = NoSession
  BY DEF WifiOn
<1>2. ~session'.active /\ DOMAIN session'.intents = {}
  BY <1>1, NoSessionFields, NoSessionType
<1>3. QED
  BY <1>2 DEF IntentInv, Own

LEMMA IntentsUnchanged ==
  ASSUME IntentInv, UNCHANGED mcVars
  PROVE  IntentInv'
<1>1. UNCHANGED <<session, queue, cb, lp, ran>>
  BY DEF mcVars, vars, wifiVars, routerVars, history
<1>a. \A l : Own(l)' <=> Own(l)
  BY <1>1 DEF Own
<1>b. \A l : Recalled(l)' <=> Recalled(l)
  BY <1>1 DEF Recalled, Carried, InQueue, Offered
<1>c. \A l : Pondered(l)' <=> Pondered(l)
  BY <1>1 DEF Pondered
<1>d. \A l : Remembered(l[3])' <=> Remembered(l[3])
  BY <1>1 DEF Remembered
<1>3. \A l, m : Ahead(l, m)' <=> Ahead(l, m)
  BY <1>1 DEF Ahead, Carried, InQueue, Offered, InOrder
<1>4. QED
  BY <1>1, <1>a, <1>b, <1>c, <1>d, <1>3 DEF IntentInv

LEMMA IntentsStep ==
  ASSUME TypeInv, TypeInv', SafeInv, IntentInv, [MCNext]_mcVars,
         IsFiniteSet(Intents), Cardinality(Intents) <= RecentIntents
  PROVE  IntentInv'
<1>1. CASE UNCHANGED mcVars
  BY <1>1, IntentsUnchanged
<1>2. CASE MCNext /\ WifiOn
  BY <1>2, IntentsWifiOn
<1>3. CASE MCNext /\ ~WifiOn /\ ExecuteCommand
  BY <1>3, IntentsExecute
<1>4. CASE MCNext /\ ~WifiOn /\ ~ExecuteCommand
  <2>1. ran' = ran
    BY <1>4, RanKept
  <2>2. CASE CallbackArrival \/ CallbackHandler
    BY <2>1, <2>2, IntentsCallback, IntentsPair, IntentsAccept, IntentsRemember,
       IntentsEnqueue
    DEF CallbackHandler
  <2>3. CASE \/ Update \/ GeneratePairingCode \/ FinishWifiOff \/ BetweenUpdates
             \/ LeaseRunsOut \/ WatchdogRunsOut
    BY <1>4, <2>1, <2>3, IntentsLoop
  <2>4. QED
    BY <1>4, <2>2, <2>3 DEF MCNext, Next
<1>5. QED
  BY <1>1, <1>2, <1>3, <1>4

\* While the ring has room for all intents, a session executes an intent once,
\* however often it is sent and whatever has become of it (recentIntents,
\* "already_executed").
THEOREM IntentsExecuteOnce ==
  ASSUME IsFiniteSet(Intents)
  PROVE  MCSpec => []IntentOnce
<1>1. CASE Cardinality(Intents) <= RecentIntents
  <2>1. MCInit => IntentInv
    <3> SUFFICES ASSUME MCInit PROVE IntentInv
      OBVIOUS
    <3>1. ~session.active /\ DOMAIN session.intents = {}
      BY NoSessionFields, NoSessionType DEF MCInit, Init
    <3>2. QED
      BY <3>1 DEF IntentInv, Own
  <2>2. /\ TypeInv /\ SafeInv /\ TypeInv' /\ SafeInv'
        /\ IntentInv /\ [MCNext]_mcVars
        => IntentInv'
    BY <1>1, IntentsStep
  <2>3. TypeInv /\ SafeInv /\ IntentInv => IntentOnce
    <3> SUFFICES ASSUME TypeInv, SafeInv, IntentInv, Executes,
                        lp.command.intent # NoIntent, NEW r \in ran,
                        <<r[1], r[3]>> = <<lp.command.gen, lp.command.intent>>
                 PROVE  FALSE
      BY DEF IntentOnce
    <3> DEFINE m == Label(lp.command)
    <3>1. lp.command \in Queued /\ r \in Labels
      BY DEF TypeInv, TypeOK, SafeInv, HistoryOK
    <3>2. m \in Labels /\ m[1] = lp.command.gen /\ m[3] = lp.command.intent
      BY <3>1, LabelType
    <3>3. r[1] = m[1] /\ r[3] = m[3]
      BY <3>2
    <3>4. SessionCurrent(lp.command)
      BY DEF SafeInv, SessionInv, Executes
    <3>5. Carried(m) /\ Ahead(r, m) /\ Own(r) /\ Own(m)
      BY <3>2, <3>3, <3>4 DEF Ahead, Carried, Own, Executes, SessionCurrent, Owns
    <3>6. ~Pondered(m)
      <4>1. SUFFICES ASSUME Pondered(m) PROVE FALSE
        OBVIOUS
      <4>2. Ahead(m, m)
        BY <3>5, <4>1 DEF Ahead, Pondered, Offered
      <4>3. m[2] < m[2]
        BY <3>2, <4>2 DEF SafeInv, OrderInv
      <4>4. QED
        BY <3>2, <4>3, LabelsNat
    <3>7. QED
      BY <3>1, <3>2, <3>3, <3>5, <3>6 DEF IntentInv
  <2>4. QED
    BY <2>1, <2>2, <2>3, SafeInvariant, PTL DEF MCSpec
<1>2. CASE ~(Cardinality(Intents) <= RecentIntents)
  <2>1. IntentOnce
    BY <1>2 DEF IntentOnce
  <2>2. QED
    BY <2>1, PTL
<1>3. QED
  BY <1>1, <1>2

=============================================================================

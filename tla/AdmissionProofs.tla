-------------------------- MODULE AdmissionProofs --------------------------
(***************************************************************************)
(* TLAPS proofs about Admission and its history in MCAdmission, for any    *)
(* number of clients, whatever they send, and all limits and times.        *)
(***************************************************************************)
EXTENDS MCAdmission, FiniteSetTheorems, TLAPS

-----------------------------------------------------------------------------
(* Types. *)

LEMMA Limits ==
  /\ MaxClients \in Nat /\ SecondMs \in Nat /\ MaxMessages \in Nat
  /\ MaxAttempts \in Nat /\ LockoutMs \in Nat /\ CounterModulus \in Nat
  /\ MaxMessages < CounterModulus /\ MaxAttempts + 1 < CounterModulus
  /\ MaxAttempts > 0 /\ SecondMs > 0 /\ LockoutMs > 0
  /\ ClockModulus \in Nat /\ SecondMs < ClockModulus
  /\ 2 * LockoutMs <= ClockModulus
  /\ NoClient \notin Clients /\ NoCode \notin Codes
BY AdmissionAssumption

Count == 0 .. CounterModulus - 1

Slot ==
  [connected: BOOLEAN, window: 0 .. SecondMs, count: Count,
   pairWindow: 0 .. LockoutMs, attempts: Count]

Guesses == [failed: 0 .. MaxAttempts, window: Times, lockedUntil: Times]

Connected == {c \in Clients : clients[c].connected}

\* TypeOK, and what it needs: there are finitely many connected clients.
TypeInv ==
  /\ now \in Times
  /\ clients \in [Clients -> Slot]
  /\ IsFiniteSet(Connected) /\ Cardinality(Connected) <= MaxClients
  /\ session \in Clients \cup {NoClient}
  /\ code \in Codes \cup {NoCode}
  /\ display \in Codes \cup {NoCode}
  /\ guesses \in Guesses
  /\ cb \in [at: CallbackStep, client: Clients \cup {NoClient},
             shown: Codes \cup {NoCode}]
  /\ lp \in [at: LoopStep, shown: Codes \cup {NoCode}]

LEMMA TypesGiveTypeOK ==
  TypeInv => TypeOK
BY DEF TypeInv, TypeOK, Slot, Count, Guesses, Connected

LEMMA CountTypes ==
  ASSUME NEW n \in Count
  PROVE  (n + 1) % CounterModulus \in Count /\ 0 \in Count
<1>1. n \in Nat /\ CounterModulus \in Nat /\ CounterModulus > 0
  BY Limits DEF Count
<1>2. (n + 1) % CounterModulus \in 0 .. CounterModulus - 1
  BY <1>1
<1>3. 0 \in 0 .. CounterModulus - 1
  BY <1>1
<1>4. QED
  BY <1>2, <1>3 DEF Count

\* Adding to a time wraps once at most.
LEMMA LaterWraps ==
  ASSUME NEW t \in Times, NEW ms \in Times
  PROVE  /\ Later(t, ms) \in Times
         /\ Later(t, ms) = IF t + ms < ClockModulus THEN t + ms
                           ELSE t + ms - ClockModulus
<1>0. /\ ClockModulus \in Nat /\ ClockModulus > 0
      /\ t \in Nat /\ ms \in Nat /\ t < ClockModulus /\ ms < ClockModulus
  BY Limits DEF Times
<1>1. CASE t + ms < ClockModulus
  BY <1>0, <1>1 DEF Later, Times
<1>2. CASE ~(t + ms < ClockModulus)
  BY <1>0, <1>2 DEF Later, Times
<1>3. QED
  BY <1>1, <1>2

LEMMA KnownTimes ==
  0 \in Times /\ 1 \in Times /\ LockoutMs \in Times
BY Limits DEF Times

LEMMA NoGuessesType ==
  /\ NoGuesses \in Guesses
  /\ \A t \in Times : [NoGuesses EXCEPT !.lockedUntil = t] \in Guesses
BY KnownTimes, Limits DEF NoGuesses, Guesses

LEMMA OlderTypes ==
  ASSUME NEW cap \in Nat, NEW age \in 0 .. cap
  PROVE  Older(age, cap) \in 0 .. cap
BY DEF Older

LEMMA NoSlotType ==
  NoSlot \in Slot /\ NewClient \in Slot /\ ~NoSlot.connected
<1>1. 0 \in Count /\ 0 \in 0 .. SecondMs /\ 0 \in 0 .. LockoutMs
  BY Limits DEF Count
<1>2. QED
  BY <1>1 DEF NoSlot, NewClient, Slot

LEMMA AgedType ==
  ASSUME NEW slot \in Slot
  PROVE  Aged(slot) \in Slot /\ Aged(slot).connected = slot.connected
<1> DEFINE w == Older(slot.window, SecondMs)
           p == Older(slot.pairWindow, LockoutMs)
<1>1. w \in 0 .. SecondMs /\ p \in 0 .. LockoutMs
  BY OlderTypes, Limits DEF Slot
<1>2. Aged(slot) = IF ~slot.connected THEN slot
                   ELSE [slot EXCEPT !.window = w, !.pairWindow = p]
  BY DEF Aged
<1> HIDE DEF w, p
<1>3. QED
  BY <1>1, <1>2 DEF Slot

LEMMA CountedType ==
  ASSUME NEW slot \in Slot, NEW message
  PROVE  /\ Counted(slot, message) \in Slot
         /\ Counted(slot, message).connected = slot.connected
<1> DEFINE fresh == IF slot.window >= SecondMs
                    THEN [slot EXCEPT !.window = 0, !.count = 0] ELSE slot
           n == (fresh.count + 1) % CounterModulus
<1>1. 0 \in 0 .. SecondMs /\ 0 \in Count
  BY Limits DEF Count
<1>2. fresh \in Slot /\ fresh.connected = slot.connected
  BY <1>1 DEF Slot
<1>3. fresh.count \in Count
  BY <1>2 DEF Slot
<1>4. n \in Count
  BY <1>3, CountTypes
<1>5. Counted(slot, message) = IF message.type = "stop" THEN slot
                               ELSE [fresh EXCEPT !.count = n]
  BY DEF Counted
<1> HIDE DEF fresh, n
<1>6. QED
  BY <1>2, <1>4, <1>5 DEF Slot

LEMMA AttemptedType ==
  ASSUME NEW slot \in Slot
  PROVE  /\ Attempted(slot) \in Slot
         /\ Attempted(slot).connected = slot.connected
<1> DEFINE fresh == IF slot.pairWindow >= LockoutMs
                    THEN [slot EXCEPT !.pairWindow = 0, !.attempts = 0]
                    ELSE slot
           n == (fresh.attempts + 1) % CounterModulus
<1>1. 0 \in 0 .. LockoutMs /\ 0 \in Count
  BY Limits DEF Count
<1>2. fresh \in Slot /\ fresh.connected = slot.connected
  BY <1>1 DEF Slot
<1>3. fresh.attempts \in Count
  BY <1>2 DEF Slot
<1>4. n \in Count
  BY <1>3, CountTypes
<1>5. Attempted(slot) = [fresh EXCEPT !.attempts = n]
  BY DEF Attempted
<1> HIDE DEF fresh, n
<1>6. QED
  BY <1>2, <1>4, <1>5 DEF Slot

\* Clients that are connected stay what they were, or some of them go.
LEMMA FewerConnected ==
  ASSUME TypeInv, clients' \in [Clients -> Slot],
         \A c \in Clients : clients'[c].connected => clients[c].connected
  PROVE  IsFiniteSet(Connected') /\ Cardinality(Connected') <= MaxClients
<1>1. Connected' \subseteq Connected
  BY DEF Connected
<1>2. IsFiniteSet(Connected) /\ Cardinality(Connected) <= MaxClients
  BY DEF TypeInv
<1>3. IsFiniteSet(Connected') /\ Cardinality(Connected') <= Cardinality(Connected)
  BY <1>1, <1>2, FS_Subset
<1>4. Cardinality(Connected') \in Nat /\ Cardinality(Connected) \in Nat
  BY <1>2, <1>3, FS_CardinalityType
<1>5. QED
  BY <1>2, <1>3, <1>4, Limits
\* One client's slot changes.
LEMMA OneSlot ==
  ASSUME TypeInv, NEW c \in Clients, NEW slot \in Slot,
         clients' = [clients EXCEPT ![c] = slot],
         slot.connected => clients[c].connected
  PROVE  /\ clients' \in [Clients -> Slot]
         /\ IsFiniteSet(Connected') /\ Cardinality(Connected') <= MaxClients
<1>1. clients' \in [Clients -> Slot]
  BY DEF TypeInv
<1>2. \A d \in Clients : clients'[d] = IF d = c THEN slot ELSE clients[d]
  BY DEF TypeInv
<1>3. \A d \in Clients : clients'[d].connected => clients[d].connected
  BY <1>2
<1>4. QED
  BY <1>1, <1>3, FewerConnected

\* A client that connects takes a free slot.
LEMMA ConnectType ==
  ASSUME TypeInv, NEW c \in Clients, Connect(c)
  PROVE  /\ clients' \in [Clients -> Slot]
         /\ IsFiniteSet(Connected') /\ Cardinality(Connected') <= MaxClients
<1>1. /\ clients' = [clients EXCEPT ![c] = NewClient]
      /\ Cardinality(Connected) < MaxClients /\ c \notin Connected
  BY DEF Connect, Connected
<1>2. clients' \in [Clients -> Slot]
  BY <1>1, NoSlotType DEF TypeInv
<1>3. \A d \in Clients : clients'[d] = IF d = c THEN NewClient ELSE clients[d]
  BY <1>1 DEF TypeInv
<1>4. NewClient.connected = TRUE
  BY DEF NewClient, NoSlot
<1>5. Connected' = Connected \cup {c}
  BY <1>3, <1>4 DEF Connected
<1>6. /\ IsFiniteSet(Connected \cup {c})
      /\ Cardinality(Connected \cup {c}) = Cardinality(Connected) + 1
  BY <1>1, FS_AddElement DEF TypeInv
<1>7. Cardinality(Connected) \in Nat
  BY FS_CardinalityType DEF TypeInv
<1>8. QED
  BY <1>1, <1>2, <1>5, <1>6, <1>7, Limits

LEMMA GuessTypes ==
  ASSUME guesses \in Guesses, now \in Times
  PROVE  Failed \in Guesses
<1> DEFINE fresh == IF guesses.window >= LockoutMs
                    THEN [guesses EXCEPT !.window = 0, !.failed = 0]
                    ELSE guesses
<1>1. 0 \in Times /\ 0 \in 0 .. MaxAttempts
  BY Limits, KnownTimes
<1>2. fresh \in Guesses
  BY <1>1 DEF Guesses
<1>3. fresh.failed \in 0 .. MaxAttempts
  BY <1>2 DEF Guesses
<1>4. CASE fresh.failed + 1 <= MaxAttempts
  <2>1. Failed = [fresh EXCEPT !.failed = fresh.failed + 1]
    BY <1>4 DEF Failed, FailedWithin
  <2>2. fresh.failed + 1 \in 0 .. MaxAttempts
    BY <1>3, <1>4, Limits
  <2>3. PICK n \in 0 .. MaxAttempts : n = fresh.failed + 1
    BY <2>2
  <2> HIDE DEF fresh
  <2>4. [fresh EXCEPT !.failed = n] \in Guesses
    BY <1>2, <2>3 DEF Guesses
  <2>5. QED
    BY <2>1, <2>3, <2>4
<1>5. CASE ~(fresh.failed + 1 <= MaxAttempts)
  <2>1. Failed = [NoGuesses EXCEPT !.lockedUntil = Later(now, LockoutMs)]
    BY <1>5 DEF Failed, FailedWithin
  <2>2. QED
    BY <2>1, NoGuessesType, KnownTimes, LaterWraps
<1>6. QED
  BY <1>4, <1>5

LEMMA TickType ==
  ASSUME TypeInv, Tick
  PROVE  TypeInv'
<1>1. clients' \in [Clients -> Slot]
  BY AgedType DEF Tick, TypeInv
<1>2. \A c \in Clients : clients'[c].connected => clients[c].connected
  BY AgedType DEF Tick, TypeInv
<1>3. guesses' \in Guesses
  <2> DEFINE w == Later(guesses.window, 1)
  <2>1. w \in Times
    BY LaterWraps, KnownTimes DEF TypeInv, Guesses
  <2>2. guesses' = [guesses EXCEPT !.window = w]
    BY DEF Tick
  <2> HIDE DEF w
  <2>3. QED
    BY <2>1, <2>2 DEF TypeInv, Guesses
<1>4. IsFiniteSet(Connected') /\ Cardinality(Connected') <= MaxClients
  BY <1>1, <1>2, FewerConnected
<1>5. now' \in Times
  BY LaterWraps, KnownTimes DEF Tick, TypeInv
<1>6. QED
  BY <1>1, <1>3, <1>4, <1>5 DEF Tick, TypeInv

LEMMA ReceiveType ==
  ASSUME TypeInv, NEW c \in Clients, NEW frame, Receive(c, frame)
  PROVE  TypeInv'
<1>1. PICK message \in Parsed[frame] :
        LET counted == Counted(clients[c], message)
            pairing == message.type = "pair" /\ ~PairingRateLimited
                         /\ ~RateLimited(counted, message)
        IN /\ clients' = [clients EXCEPT ![c] =
                            IF pairing THEN Attempted(counted) ELSE counted]
           /\ guesses' = IF WrongGuess(c, message) THEN Failed ELSE guesses
           /\ IF Judged(c, message) /\ ~WrongGuess(c, message)
              THEN CallbackGoes("grant", c) ELSE UNCHANGED cb
  BY DEF Receive
<1> DEFINE counted == Counted(clients[c], message)
           pairing == message.type = "pair" /\ ~PairingRateLimited
                        /\ ~RateLimited(counted, message)
           slot == IF pairing THEN Attempted(counted) ELSE counted
<1>2. clients[c] \in Slot
  BY DEF TypeInv
<1>3. counted \in Slot /\ counted.connected = clients[c].connected
  BY <1>2, CountedType
<1> HIDE DEF counted
<1>4. slot \in Slot /\ slot.connected = clients[c].connected
  BY <1>3, AttemptedType
<1>5. clients' = [clients EXCEPT ![c] = slot]
  BY <1>1 DEF counted
<1> HIDE DEF pairing, slot
<1>6. /\ clients' \in [Clients -> Slot]
      /\ IsFiniteSet(Connected') /\ Cardinality(Connected') <= MaxClients
  BY <1>4, <1>5, OneSlot
<1>7. guesses' \in Guesses
  BY <1>1, GuessTypes DEF TypeInv
<1>8. cb' \in [at: CallbackStep, client: Clients \cup {NoClient},
               shown: Codes \cup {NoCode}]
  BY <1>1 DEF TypeInv, CallbackGoes, CallbackStep
<1>9. QED
  BY <1>6, <1>7, <1>8 DEF Receive, TypeInv

LEMMA DisconnectType ==
  ASSUME TypeInv, NEW c \in Clients, Disconnect(c)
  PROVE  TypeInv'
<1>1. clients' = [clients EXCEPT ![c] = NoSlot]
  BY DEF Disconnect
<1>2. /\ clients' \in [Clients -> Slot]
      /\ IsFiniteSet(Connected') /\ Cardinality(Connected') <= MaxClients
  BY <1>1, NoSlotType, OneSlot
<1>3. cb' \in [at: CallbackStep, client: Clients \cup {NoClient},
               shown: Codes \cup {NoCode}]
  BY DEF Disconnect, CallbackGoes, CallbackStep, TypeInv
<1>4. QED
  BY <1>2, <1>3 DEF Disconnect, TypeInv

\* The steps that leave the table of clients alone.
LEMMA QuietSteps ==
  ASSUME TypeInv, now' = now, clients' = clients,
         session' \in Clients \cup {NoClient}, code' \in Codes \cup {NoCode},
         display' \in Codes \cup {NoCode}, guesses' = guesses,
         cb' \in [at: CallbackStep, client: Clients \cup {NoClient},
                  shown: Codes \cup {NoCode}],
         lp' \in [at: LoopStep, shown: Codes \cup {NoCode}]
  PROVE  TypeInv'
BY DEF TypeInv, Connected

LEMMA CallbackMoves ==
  ASSUME TypeInv, NEW step \in CallbackStep, NEW c \in Clients \cup {NoClient},
         CallbackGoes(step, c) \/ CallbackDone
  PROVE  cb' \in [at: CallbackStep, client: Clients \cup {NoClient},
                  shown: Codes \cup {NoCode}]
<1>1. CASE CallbackGoes(step, c)
  BY <1>1 DEF CallbackGoes, TypeInv
<1>2. CASE CallbackDone
  BY <1>2 DEF CallbackDone, CallbackStep
<1>3. QED
  BY <1>1, <1>2

LEMMA GrantType ==
  ASSUME TypeInv, Grant
  PROVE  TypeInv'
<1>1. /\ cb.client \in Clients \cup {NoClient}
      /\ cb' \in [at: CallbackStep, client: Clients \cup {NoClient},
                  shown: Codes \cup {NoCode}]
  <2>1. CallbackGoes("clear", NoClient) \/ CallbackDone
    BY DEF Grant
  <2>2. "clear" \in CallbackStep
    BY DEF CallbackStep
  <2>3. QED
    BY <2>1, <2>2, CallbackMoves DEF TypeInv
<1>2. CASE session \in {NoClient, cb.client}
  <2> DEFINE c == cb.client
  <2>1. /\ session' = c /\ code' = NoCode
        /\ clients' = [clients EXCEPT ![c].attempts = 0]
        /\ guesses' = NoGuesses
    BY <1>2 DEF Grant
  <2> HIDE DEF c
  <2>2. guesses' \in Guesses
    BY <2>1, NoGuessesType
  <2>3. /\ clients' \in [Clients -> Slot]
        /\ IsFiniteSet(Connected') /\ Cardinality(Connected') <= MaxClients
    <3>1. CASE c \in Clients
      <4> DEFINE slot == [clients[c] EXCEPT !.attempts = 0]
      <4>1. clients[c] \in Slot /\ 0 \in Count
        BY <3>1, Limits DEF TypeInv, Count
      <4>2. slot \in Slot /\ slot.connected = clients[c].connected
        BY <4>1 DEF Slot
      <4>3. clients' = [clients EXCEPT ![c] = slot]
        BY <2>1
      <4> HIDE DEF slot
      <4>4. QED
        BY <3>1, <4>2, <4>3, OneSlot
    <3>2. CASE c \notin Clients
      <4>1. clients' = clients
        BY <2>1, <3>2 DEF TypeInv
      <4>2. QED
        BY <4>1 DEF TypeInv, Connected
    <3>3. QED
      BY <3>1, <3>2
  <2>4. session' \in Clients \cup {NoClient}
    BY <1>1, <2>1 DEF c
  <2>5. QED
    BY <1>1, <2>1, <2>2, <2>3, <2>4 DEF Grant, TypeInv
<1>3. CASE session \notin {NoClient, cb.client}
  BY <1>1, <1>3, QuietSteps DEF Grant, TypeInv
<1>4. QED
  BY <1>2, <1>3

LEMMA CallbackType ==
  ASSUME TypeInv, Callback
  PROVE  TypeInv'
<1>1. ASSUME NEW c \in Clients, Connect(c)
      PROVE  TypeInv'
  BY <1>1, ConnectType DEF Connect, TypeInv
<1>2. ASSUME NEW c \in Clients, Disconnect(c)
      PROVE  TypeInv'
  BY <1>2, DisconnectType
<1>3. CASE Revoke
  <2>1. CallbackGoes("generate", NoClient) \/ CallbackDone
    BY <1>3 DEF Revoke
  <2>2. "generate" \in CallbackStep
    BY DEF CallbackStep
  <2>3. cb' \in [at: CallbackStep, client: Clients \cup {NoClient},
                shown: Codes \cup {NoCode}]
    BY <2>1, <2>2, CallbackMoves
  <2>4. QED
    BY <1>3, <2>3, QuietSteps DEF Revoke, TypeInv
<1>4. CASE Show
  BY <1>4, QuietSteps DEF Show, CallbackDone, CallbackStep, TypeInv
<1>5. CASE Grant
  BY <1>5, GrantType
<1>6. CASE ClearGranted
  BY <1>6, QuietSteps DEF ClearGranted, CallbackDone, CallbackStep, TypeInv
<1>7. ASSUME NEW digits \in Codes, Generate(digits)
      PROVE  TypeInv'
  BY <1>7, QuietSteps DEF Generate, CallbackStep, TypeInv
<1>8. QED
  BY <1>1, <1>2, <1>3, <1>4, <1>5, <1>6, <1>7 DEF Callback

LEMMA LoopType ==
  ASSUME TypeInv, Loop
  PROVE  TypeInv'
<1>1. CASE BeginUpdate
  BY <1>1, QuietSteps DEF BeginUpdate, LoopGoes, LoopStep, TypeInv
<1>2. CASE ExpireCode
  BY <1>2, QuietSteps DEF ExpireCode, LoopGoes, LoopStep, TypeInv
<1>3. CASE ClearExpired
  BY <1>3, QuietSteps DEF ClearExpired, LoopGoes, LoopStep, TypeInv
<1>4. CASE Evict
  <2>1. PICK idle \in SUBSET {c \in Clients : clients[c].connected /\ session # c} :
          clients' = [c \in Clients |-> IF c \in idle THEN NoSlot ELSE clients[c]]
    BY <1>4 DEF Evict
  <2>2. /\ clients' \in [Clients -> Slot]
        /\ \A c \in Clients : clients'[c].connected => clients[c].connected
    BY <2>1, NoSlotType DEF TypeInv
  <2>3. IsFiniteSet(Connected') /\ Cardinality(Connected') <= MaxClients
    BY <2>2, FewerConnected
  <2>4. lp' \in [at: LoopStep, shown: Codes \cup {NoCode}]
    BY <1>4 DEF Evict, LoopGoes, LoopStep, TypeInv
  <2>5. QED
    BY <1>4, <2>2, <2>3, <2>4 DEF Evict, TypeInv
<1>5. CASE EndUpdate
  BY <1>5, QuietSteps DEF EndUpdate, LoopGoes, LoopDone, LoopStep, TypeInv
<1>6. CASE RequestNewPairingCode
  BY <1>6, QuietSteps DEF RequestNewPairingCode, LoopGoes, LoopStep, TypeInv
<1>7. CASE LoopShow
  BY <1>7, QuietSteps DEF LoopShow, LoopDone, LoopStep, TypeInv
<1>8. ASSUME NEW digits \in Codes, LoopGenerate(digits)
      PROVE  TypeInv'
  BY <1>8, QuietSteps DEF LoopGenerate, LoopStep, TypeInv
<1>9. QED
  BY <1>1, <1>2, <1>3, <1>4, <1>5, <1>6, <1>7, <1>8 DEF Loop

LEMMA InitTypes ==
  Init => TypeInv
<1> SUFFICES ASSUME Init
             PROVE  TypeInv
  OBVIOUS
<1>1. clients \in [Clients -> Slot]
  BY NoSlotType DEF Init
<1>2. Connected = {}
  BY NoSlotType DEF Init, Connected
<1>3. IsFiniteSet(Connected) /\ Cardinality(Connected) <= MaxClients
  BY <1>2, FS_EmptySet, Limits
<1>4. guesses \in Guesses
  BY NoGuessesType DEF Init
<1>5. QED
  BY <1>1, <1>3, <1>4 DEF Init, TypeInv, CallbackStep, LoopStep

LEMMA NextTypes ==
  TypeInv /\ [Next]_vars => TypeInv'
<1> SUFFICES ASSUME TypeInv, [Next]_vars
             PROVE  TypeInv'
  OBVIOUS
<1>1. CASE Tick
  BY <1>1, TickType
<1>2. ASSUME NEW c \in Clients, NEW frame \in Frames, Receive(c, frame)
      PROVE  TypeInv'
  BY <1>2, ReceiveType
<1>3. CASE Callback
  BY <1>3, CallbackType
<1>4. CASE Loop
  BY <1>4, LoopType
<1>5. CASE UNCHANGED vars
  BY <1>5 DEF vars, TypeInv, Connected
<1>6. QED
  BY <1>1, <1>2, <1>3, <1>4, <1>5 DEF Next

\* The table never holds more clients than it has slots, and no counter leaves
\* its range (WifiControl.cpp), whoever connects and whatever is sent.
THEOREM AdmissionTypeCorrect == Spec => []TypeOK
BY InitTypes, NextTypes, TypesGiveTypeOK, PTL DEF Spec

-----------------------------------------------------------------------------
(* The limits on guessing.  An observer who has seen wrong guesses has seen  *)
(* them all in the present window; or in the one before and in the present   *)
(* one, which is younger than the observation; or the pairing is locked for  *)
(* longer than the observation still lasts.  Each lockout that is lost lets  *)
(* in a window more.                                                         *)

\* Guesses that the lost lockouts let in.
LetIn(lost) == lost * (MaxAttempts + 1)

InWindow == watch.wrong <= guesses.failed + LetIn(watch.lost)

InTwoWindows ==
  /\ watch.wrong <= MaxAttempts + guesses.failed + LetIn(watch.lost)
  /\ guesses.window <= watch.age

LockedOut ==
  /\ watch.wrong <= 2 * MaxAttempts + 1 + LetIn(watch.lost)
  /\ guesses.lockedUntil # 0
  /\ \E left \in 1 .. LockoutMs :
       /\ Later(now, left) = guesses.lockedUntil
       /\ LockoutMs <= left + watch.age

Watches == [on: BOOLEAN, age: Nat, wrong: Nat, lost: Nat]

GuessInv ==
  /\ watch \in Watches
  /\ ~watch.on => watch = NoWatch
  /\ watch.on => /\ watch.age < LockoutMs
                 /\ InWindow \/ InTwoWindows \/ LockedOut

LEMMA LetInMore ==
  ASSUME NEW lost \in Nat
  PROVE  /\ LetIn(lost) \in Nat /\ LetIn(0) = 0
         /\ LetIn(lost + 1) = LetIn(lost) + MaxAttempts + 1
<1>1. PICK a \in Nat : a = MaxAttempts + 1
  BY Limits
<1>2. lost * a \in Nat /\ 0 * a = 0 /\ (lost + 1) * a = lost * a + a
  BY <1>1
<1>3. QED
  BY <1>1, <1>2, Limits DEF LetIn

\* While an end of a lockout is to come, nothing is judged.
LEMMA LockedOutIsLimited ==
  ASSUME now \in Times, guesses.lockedUntil \in Times,
         guesses.lockedUntil # 0, NEW left \in 1 .. LockoutMs,
         Later(now, left) = guesses.lockedUntil
  PROVE  PairingRateLimited
<1> DEFINE M == ClockModulus
<1>0. /\ M \in Nat /\ M > 0 /\ left \in Nat /\ left > 0 /\ 2 * left <= M
      /\ left < M /\ left \in Times /\ now \in Nat /\ now < M
  BY Limits DEF Times
<1>1. PICK t \in Nat, u \in Int : t = now /\ u = guesses.lockedUntil
  BY <1>0 DEF Times
<1>2. u = IF t + left < M THEN t + left ELSE t + left - M
  BY <1>0, <1>1, LaterWraps
<1>3. t - u = 0 - left \/ t - u = M - left
  BY <1>0, <1>1, <1>2
<1>4. (t - u) % M = M - left
  <2>1. CASE t - u = M - left
    <3>1. M - left \in 0 .. M - 1
      BY <1>0
    <3>2. QED
      BY <1>0, <2>1, <3>1
  <2>2. CASE t - u = 0 - left
    <3>1. (0 - left) % M = M - left
      BY <1>0
    <3>2. QED
      BY <2>2, <3>1
  <2>3. QED
    BY <1>3, <2>1, <2>2
<1>5. 2 * (M - left) >= M
  BY <1>0
<1>6. QED
  BY <1>1, <1>4, <1>5 DEF PairingRateLimited

\* A frame stands for one message, as far as guesses go.
LEMMA OneMessage ==
  ASSUME NEW frame, NEW c, NEW m \in ParseCommand(frame),
         NEW n \in ParseCommand(frame)
  PROVE  WrongGuess(c, m) <=> WrongGuess(c, n)
<1>1. m.type = n.type /\ m.code = n.code
  BY DEF ParseCommand
<1>2. Counted(clients[c], m) = Counted(clients[c], n)
  BY <1>1 DEF Counted
<1>3. QED
  BY <1>1, <1>2 DEF WrongGuess, Judged, RateLimited

\* recordPairFailure()
LEMMA FailedCases ==
  ASSUME guesses \in Guesses
  PROVE  \/ /\ guesses.window < LockoutMs /\ guesses.failed < MaxAttempts
            /\ Failed.failed = guesses.failed + 1
            /\ Failed.window = guesses.window
         \/ /\ guesses.window >= LockoutMs
            /\ Failed.failed = 1 /\ Failed.window = 0
         \/ /\ guesses.window < LockoutMs /\ guesses.failed = MaxAttempts
            /\ Failed.failed = 0 /\ Failed.window = 0
            /\ Failed.lockedUntil = Later(now, LockoutMs)
<1>0. /\ guesses.failed \in Nat /\ guesses.window \in Nat
      /\ guesses.failed <= MaxAttempts
      /\ MaxAttempts \in Nat /\ MaxAttempts > 0 /\ LockoutMs \in Nat
  BY Limits DEF Guesses, Times
<1>1. CASE guesses.window >= LockoutMs
  <2> DEFINE fresh == [guesses EXCEPT !.window = 0, !.failed = 0]
  <2>1. /\ fresh.failed = 0 /\ fresh.window = 0
        /\ fresh \in [failed: {0}, window: {0}, lockedUntil: Times]
    BY DEF Guesses
  <2>2. fresh.failed + 1 <= MaxAttempts
    BY <1>0, <2>1
  <2>3. Failed = [fresh EXCEPT !.failed = fresh.failed + 1]
    BY <1>1, <2>2 DEF Failed, FailedWithin
  <2> HIDE DEF fresh
  <2>4. PICK one : one = fresh.failed + 1
    OBVIOUS
  <2>5. one = 1
    BY <2>1, <2>4
  <2>6. Failed = [fresh EXCEPT !.failed = one]
    BY <2>3, <2>4
  <2>7. Failed.failed = one /\ Failed.window = 0
    BY <2>1, <2>6
  <2>8. QED
    BY <1>1, <2>5, <2>7
<1>2. CASE ~(guesses.window >= LockoutMs)
  <2>0. guesses.window < LockoutMs
    BY <1>0, <1>2
  <2>1. CASE guesses.failed + 1 <= MaxAttempts
    <3>1. PICK more : more = guesses.failed + 1
      OBVIOUS
    <3>2. Failed = [guesses EXCEPT !.failed = more]
      BY <1>2, <2>1, <3>1 DEF Failed, FailedWithin
    <3>3. Failed.failed = more /\ Failed.window = guesses.window
      BY <3>2 DEF Guesses
    <3>4. guesses.failed < MaxAttempts
      BY <1>0, <2>1
    <3>5. QED
      BY <2>0, <3>1, <3>3, <3>4
  <2>2. CASE ~(guesses.failed + 1 <= MaxAttempts)
    <3>1. guesses.failed = MaxAttempts
      BY <1>0, <2>2
    <3>2. PICK until : until = Later(now, LockoutMs)
      OBVIOUS
    <3>3. Failed = [NoGuesses EXCEPT !.lockedUntil = until]
      BY <1>2, <2>2, <3>2 DEF Failed, FailedWithin
    <3>4. Failed.failed = 0 /\ Failed.window = 0 /\ Failed.lockedUntil = until
      BY <3>3 DEF NoGuesses
    <3>5. QED
      BY <2>0, <3>1, <3>2, <3>4
  <2>3. QED
    BY <2>1, <2>2
<1>3. QED
  BY <1>1, <1>2

LEMMA WrongGuessKeeps ==
  ASSUME TypeInv, GuessInv, ~PairingRateLimited, now' = now, guesses' = Failed,
         watch' = Noticed \/ (~watch.on /\ watch' = watch)
  PROVE  GuessInv'
<1>0. guesses \in Guesses /\ guesses' \in Guesses /\ now \in Times
  BY GuessTypes DEF TypeInv
<1>1. CASE ~watch.on /\ watch' = watch
  BY <1>1 DEF GuessInv, NoWatch
<1>2. CASE watch' = NoWatch
  BY <1>2 DEF GuessInv, NoWatch, Watches
<1>3. CASE watch' = [watch EXCEPT !.on = TRUE, !.wrong = @ + 1,
                       !.lost = IF LosesLockout THEN @ + 1 ELSE @]
  <2>1. PICK wrong \in Nat, age \in Nat, lost \in Nat :
          wrong = watch.wrong /\ age = watch.age /\ lost = watch.lost
    BY DEF GuessInv, Watches
  <2>2. PICK next \in Nat, gone \in Nat :
          next = wrong + 1 /\ gone = IF LosesLockout THEN lost + 1 ELSE lost
    BY <2>1
  <2>3. watch' = [watch EXCEPT !.on = TRUE, !.wrong = next, !.lost = gone]
    BY <1>3, <2>1, <2>2
  <2>4. /\ watch' \in Watches /\ watch'.on /\ watch'.age = age
        /\ watch'.wrong = next /\ watch'.lost = gone
    BY <2>1, <2>3 DEF GuessInv, Watches
  <2>5. PICK failed \in Nat, window \in Nat :
          /\ failed = guesses.failed /\ window = guesses.window
          /\ failed <= MaxAttempts
    BY <1>0, Limits DEF Guesses, Times
  <2>6. PICK more \in Nat, opened \in Nat, until \in Times :
          /\ more = guesses'.failed /\ opened = guesses'.window
          /\ until = guesses'.lockedUntil
    BY <1>0, Limits DEF Guesses, Times
  <2>7. PICK in \in Nat : in = LetIn(lost)
    BY LetInMore
  <2>8. /\ age < LockoutMs
        /\ \/ wrong <= failed + in
           \/ wrong <= MaxAttempts + failed + in /\ window <= age
    <3>1. CASE watch.on
      <4>1. watch.age < LockoutMs /\ (InWindow \/ InTwoWindows \/ LockedOut)
        BY <3>1 DEF GuessInv
      <4>2. ~LockedOut
        BY <1>0, LockedOutIsLimited DEF LockedOut, Guesses
      <4>3. QED
        BY <2>1, <2>5, <2>7, <4>1, <4>2 DEF InWindow, InTwoWindows
    <3>2. CASE ~watch.on
      <4>1. wrong = 0 /\ age = 0
        BY <2>1, <3>2 DEF GuessInv, NoWatch
      <4>2. QED
        BY <2>5, <2>7, <4>1, Limits
    <3>3. QED
      BY <3>1, <3>2
  <2> DEFINE locks == guesses.failed = MaxAttempts /\ guesses.window < LockoutMs
  <2>9. /\ \/ ~locks /\ window < LockoutMs /\ more = failed + 1 /\ opened = window
           \/ ~locks /\ window >= LockoutMs /\ more = 1 /\ opened = 0
           \/ locks /\ more = 0 /\ opened = 0
        /\ locks => until = Later(now, LockoutMs)
    BY <1>0, <2>5, <2>6, FailedCases, Limits
  <2>10. LosesLockout <=> locks /\ until = 0
    BY <2>9 DEF LosesLockout
  <2> HIDE DEF locks
  <2>12. \/ ~locks /\ wrong + 1 <= more + in
         \/ ~locks /\ wrong + 1 <= MaxAttempts + more + in /\ opened <= age
         \/ locks /\ /\ wrong + 1 <= 2 * MaxAttempts + 1 + in
                     /\ wrong + 1 <= MaxAttempts + more + (in + MaxAttempts + 1)
                     /\ opened <= age
    BY <2>5, <2>8, <2>9, Limits
  <2>13. CASE ~locks
    <3>1. gone = lost
      BY <2>2, <2>10, <2>13
    <3>2. InWindow' \/ InTwoWindows'
      BY <2>2, <2>4, <2>6, <2>7, <2>12, <2>13, <3>1 DEF InWindow, InTwoWindows, LetIn
    <3>3. QED
      BY <2>4, <2>8, <3>2 DEF GuessInv
  <2>14. CASE locks /\ until = 0
    <3>1. LetIn(gone) = in + MaxAttempts + 1
      BY <2>2, <2>7, <2>10, <2>14, LetInMore
    <3>2. LetIn(watch.lost)' = in + MaxAttempts + 1
      BY <2>4, <3>1 DEF LetIn
    <3>3. InTwoWindows'
      BY <2>2, <2>4, <2>6, <2>12, <2>14, <3>2 DEF InTwoWindows
    <3>4. QED
      BY <2>4, <2>8, <3>3 DEF GuessInv
  <2>15. CASE locks /\ until # 0
    <3>1. gone = lost
      BY <2>2, <2>10, <2>15
    <3>2. LetIn(watch.lost)' = in
      BY <2>4, <2>7, <3>1 DEF LetIn
    <3>3. until = Later(now', LockoutMs) /\ LockoutMs \in 1 .. LockoutMs
      BY <2>9, <2>15, Limits
    <3>4. LockoutMs <= LockoutMs + watch'.age
      BY <2>1, <2>4, Limits
    <3>5. watch'.wrong <= 2 * MaxAttempts + 1 + LetIn(watch.lost)'
      BY <2>2, <2>4, <2>12, <2>15, <3>2
    <3>6. LockedOut'
      BY <2>6, <2>15, <3>3, <3>4, <3>5 DEF LockedOut, Later
    <3>7. QED
      BY <2>4, <2>8, <3>6 DEF GuessInv
  <2>16. QED
    BY <2>13, <2>14, <2>15
<1>4. QED
  BY <1>1, <1>2, <1>3 DEF Noticed

\* An end of a lockout comes nearer.
LEMMA LockoutRunsDown ==
  ASSUME NEW t \in Times, NEW left \in 2 .. LockoutMs
  PROVE  Later(Later(t, 1), left - 1) = Later(t, left)
<1>0. /\ ClockModulus \in Nat /\ t \in Nat /\ t < ClockModulus
      /\ left \in Times /\ left - 1 \in Times /\ 1 \in Times /\ left \in Nat
      /\ left > 1
  BY Limits DEF Times
<1>1. PICK next \in Times : next = Later(t, 1)
  BY <1>0, LaterWraps
<1>2. next = IF t + 1 < ClockModulus THEN t + 1 ELSE t + 1 - ClockModulus
  BY <1>0, <1>1, LaterWraps
<1>3. Later(t, left) = IF t + left < ClockModulus THEN t + left
                       ELSE t + left - ClockModulus
  BY <1>0, LaterWraps
<1>4. PICK less \in Times : less = left - 1
  BY <1>0
<1>5. Later(next, less) = IF next + less < ClockModulus THEN next + less
                          ELSE next + less - ClockModulus
  BY <1>1, <1>4, LaterWraps
<1>6. next + less = IF t + 1 < ClockModulus THEN t + left
                    ELSE t + left - ClockModulus
  BY <1>0, <1>2, <1>4
<1>7. left < ClockModulus
  BY <1>0 DEF Times
<1>8. Later(next, less) = Later(t, left)
  BY <1>0, <1>2, <1>3, <1>5, <1>6, <1>7
<1>9. QED
  BY <1>1, <1>4, <1>8

LEMMA TickKeepsGuess ==
  ASSUME TypeInv, GuessInv, Tick, TimePassed
  PROVE  GuessInv'
<1>0. guesses \in Guesses /\ now \in Times
  BY DEF TypeInv
<1>1. CASE watch' = NoWatch
  BY <1>1 DEF GuessInv, NoWatch, Watches
<1>2. CASE /\ watch.on /\ watch.age + 1 # LockoutMs
           /\ watch' = [watch EXCEPT !.age = @ + 1]
  <2>1. PICK wrong \in Nat, age \in Nat, lost \in Nat :
          wrong = watch.wrong /\ age = watch.age /\ lost = watch.lost
    BY DEF GuessInv, Watches
  <2>2. PICK older \in Nat : older = age + 1
    BY <2>1
  <2>3. watch' = [watch EXCEPT !.age = older]
    BY <1>2, <2>1, <2>2
  <2>4. /\ watch' \in Watches /\ watch'.on /\ watch'.age = older
        /\ watch'.wrong = wrong /\ watch'.lost = lost
    BY <1>2, <2>1, <2>3 DEF GuessInv, Watches
  <2>5. PICK window \in Times, until \in Times :
          window = guesses.window /\ until = guesses.lockedUntil
    BY <1>0 DEF Guesses
  <2>6. PICK opened \in Times :
          /\ opened = Later(window, 1)
          /\ opened = IF window + 1 < ClockModulus THEN window + 1
                      ELSE window + 1 - ClockModulus
    BY <2>5, LaterWraps, KnownTimes
  <2>7. guesses' = [guesses EXCEPT !.window = opened]
    BY <2>5, <2>6 DEF Tick
  <2>8. /\ guesses'.failed = guesses.failed /\ guesses'.window = opened
        /\ guesses'.lockedUntil = until
    BY <1>0, <2>5, <2>7 DEF Guesses
  <2>9. /\ age < LockoutMs /\ older # LockoutMs
        /\ InWindow \/ InTwoWindows \/ LockedOut
    BY <1>2, <2>1, <2>2 DEF GuessInv
  <2>10. older < LockoutMs
    BY <2>1, <2>2, <2>9, Limits
  <2>11. InWindow => InWindow'
    BY <2>1, <2>4, <2>8 DEF InWindow, LetIn
  <2>12. ASSUME InTwoWindows
         PROVE  InTwoWindows'
    <3>1. window <= age /\ window \in Nat
      BY <2>1, <2>5, <2>12 DEF InTwoWindows, Times
    <3>2. opened <= older
      BY <2>2, <2>6, <2>9, <3>1, Limits
    <3>3. watch'.wrong <= MaxAttempts + guesses'.failed + LetIn(watch.lost)'
      BY <2>1, <2>4, <2>8, <2>12 DEF InTwoWindows, LetIn
    <3>4. QED
      BY <2>4, <2>8, <3>2, <3>3 DEF InTwoWindows
  <2>13. ASSUME LockedOut
         PROVE  LockedOut'
    <3>1. PICK left \in 1 .. LockoutMs :
            Later(now, left) = until /\ LockoutMs <= left + age
      BY <2>1, <2>5, <2>13 DEF LockedOut
    <3>2. left \in 2 .. LockoutMs
      BY <2>2, <2>10, <3>1, Limits
    <3>3. Later(now', left - 1) = until
      BY <1>0, <3>1, <3>2, LockoutRunsDown DEF Tick
    <3>4. left - 1 \in 1 .. LockoutMs /\ LockoutMs <= (left - 1) + older
      BY <2>2, <3>1, <3>2, Limits
    <3>5. /\ watch'.wrong <= 2 * MaxAttempts + 1 + LetIn(watch.lost)'
          /\ until # 0
      BY <2>1, <2>4, <2>5, <2>13 DEF LockedOut, LetIn
    <3>6. QED
      BY <2>4, <2>8, <3>3, <3>4, <3>5 DEF LockedOut, Later
  <2>14. QED
    BY <2>4, <2>9, <2>10, <2>11, <2>12, <2>13 DEF GuessInv
<1>3. CASE ~watch.on /\ watch' = watch
  BY <1>3 DEF GuessInv, NoWatch
<1>4. QED
  BY <1>1, <1>2, <1>3 DEF TimePassed

LEMMA SameGuesses ==
  ASSUME GuessInv, now' = now, guesses' = guesses, watch' = watch
  PROVE  GuessInv'
BY DEF GuessInv, InWindow, InTwoWindows, LockedOut, LetIn, Later

LEMMA NoWatchKeeps ==
  ASSUME watch' = NoWatch
  PROVE  GuessInv'
BY DEF GuessInv, NoWatch, Watches

LEMMA ReceiveKeepsGuess ==
  ASSUME TypeInv, GuessInv, NEW c, NEW frame \in Frames, Receive(c, frame),
         Counting(\E message \in Parsed[frame] : WrongGuess(c, message))
  PROVE  GuessInv'
<1> DEFINE wrong == \E message \in Parsed[frame] : WrongGuess(c, message)
<1>1. PICK message \in Parsed[frame] :
        guesses' = IF WrongGuess(c, message) THEN Failed ELSE guesses
  BY DEF Receive
<1>2. CASE WrongGuess(c, message)
  <2>1. wrong
    BY <1>2
  <2>2. watch' = Noticed \/ (~watch.on /\ watch' = watch)
    BY <2>1 DEF Counting
  <2>3. ~PairingRateLimited /\ guesses' = Failed /\ now' = now
    BY <1>1, <1>2 DEF WrongGuess, Judged, Receive
  <2>4. QED
    BY <2>2, <2>3, WrongGuessKeeps
<1>3. CASE ~WrongGuess(c, message)
  <2>1. ~wrong
    BY <1>3, OneMessage DEF Parsed
  <2>2. guesses' = guesses /\ watch' = watch /\ now' = now
    BY <1>1, <1>3, <2>1 DEF Counting, Receive
  <2>3. QED
    BY <2>2, SameGuesses
<1>4. QED
  BY <1>2, <1>3

LEMMA CallbackKeepsGuess ==
  ASSUME GuessInv, Callback,
         watch' = IF cb.at = "grant" THEN NoWatch ELSE watch
  PROVE  GuessInv'
<1>1. CASE cb.at = "grant"
  BY <1>1, NoWatchKeeps
<1>2. CASE cb.at # "grant"
  <2>1. guesses' = guesses /\ now' = now
    BY <1>2 DEF Callback, Connect, Disconnect, Revoke, Show, Grant,
                ClearGranted, Generate
  <2>2. QED
    BY <1>2, <2>1, SameGuesses
<1>3. QED
  BY <1>1, <1>2

LEMMA LoopLeavesGuesses ==
  ASSUME Loop
  PROVE  guesses' = guesses /\ now' = now
BY DEF Loop, BeginUpdate, ExpireCode, ClearExpired, Evict, EndUpdate,
       RequestNewPairingCode, LoopShow, LoopGenerate

LEMMA MCStepIsStep ==
  ASSUME MCNext
  PROVE  Next
BY DEF MCNext, Next

LEMMA GuessStep ==
  TypeInv /\ GuessInv /\ [MCNext]_mcVars => TypeInv' /\ GuessInv'
<1> SUFFICES ASSUME TypeInv, GuessInv, [MCNext]_mcVars
             PROVE  TypeInv' /\ GuessInv'
  OBVIOUS
<1>1. TypeInv'
  BY MCStepIsStep, NextTypes DEF mcVars
<1> SUFFICES GuessInv'
  BY <1>1
<1>2. CASE Tick /\ TimePassed
  BY <1>2, TickKeepsGuess
<1>3. ASSUME NEW c \in Clients, NEW frame \in Frames, Receive(c, frame),
             Counting(\E message \in Parsed[frame] : WrongGuess(c, message))
      PROVE  GuessInv'
  BY <1>3, ReceiveKeepsGuess
<1>4. CASE Callback /\ watch' = IF cb.at = "grant" THEN NoWatch ELSE watch
  BY <1>4, CallbackKeepsGuess
<1>5. CASE Loop /\ UNCHANGED watch
  BY <1>5, LoopLeavesGuesses, SameGuesses
<1>6. CASE UNCHANGED mcVars
  BY <1>6, SameGuesses DEF mcVars, vars
<1>7. QED
  BY <1>2, <1>3, <1>4, <1>5, <1>6 DEF MCNext

\* Whoever guesses, alone or together, reconnecting or not, has no more than
\* 2 * MaxAttempts + 1 wrong guesses judged in less than the time of a lockout,
\* and MaxAttempts + 1 more for every lockout whose end would be zero (PAIR,
\* recordPairFailure).
THEOREM GuessingIsBounded == MCSpec => []GuessesBounded
<1>1. MCInit => TypeInv /\ GuessInv
  <2>1. MCInit => TypeInv
    BY InitTypes DEF MCInit
  <2>2. MCInit => GuessInv
    BY DEF MCInit, GuessInv, NoWatch, Watches
  <2>3. QED
    BY <2>1, <2>2
<1>2. TypeInv /\ GuessInv => GuessesBounded
  <2>1. SUFFICES ASSUME TypeInv, GuessInv
                 PROVE  watch.wrong <= 2 * MaxAttempts + 1 + LetIn(watch.lost)
    BY DEF GuessesBounded, LetIn
  <2>2. PICK failed \in Nat : failed = guesses.failed /\ failed <= MaxAttempts
    BY <2>1, Limits DEF TypeInv, Guesses
  <2>3. watch.wrong \in Nat /\ watch.lost \in Nat
    BY <2>1 DEF GuessInv, Watches
  <2>4. PICK in \in Nat : in = LetIn(watch.lost)
    BY <2>3, LetInMore
  <2>5. \/ watch.wrong <= MaxAttempts + failed + in
        \/ watch.wrong <= 2 * MaxAttempts + 1 + in
    <3>1. CASE ~watch.on
      BY <2>1, <2>4, <3>1, Limits DEF GuessInv, NoWatch
    <3>2. CASE watch.on
      BY <2>1, <2>2, <2>3, <2>4, <3>2, Limits
         DEF GuessInv, InWindow, InTwoWindows, LockedOut
    <3>3. QED
      BY <3>1, <3>2
  <2>6. QED
    BY <2>2, <2>3, <2>4, <2>5, Limits
<1>3. QED
  BY <1>1, <1>2, GuessStep, PTL DEF MCSpec

-----------------------------------------------------------------------------
(* The display.  A task that has changed the code has the change in hand,    *)
(* unless the other has changed it since.                                    *)

InHand(task) == IF task.at = "show" THEN task.shown ELSE NoCode

DisplayInv ==
  /\ Writing(cb) /\ Writing(lp) => raced
  /\ ~raced /\ Writing(cb) => code = InHand(cb)
  /\ ~raced /\ Writing(lp) => code = InHand(lp)
  /\ ~raced /\ ~Writing(cb) /\ ~Writing(lp) => display = code

\* A task that is not writing, and begins to write or does not.
LEMMA CallbackDisplay ==
  ASSUME TypeInv, DisplayInv, RacedNext, lp' = lp,
         \/ /\ ~Writing(cb) /\ ~Writing(cb')
            /\ code' = code /\ display' = display
         \/ /\ ~Writing(cb) /\ Writing(cb') /\ code' = InHand(cb')
         \/ /\ Writing(cb) /\ ~Writing(cb')
            /\ code' = code /\ display' = InHand(cb)
  PROVE  DisplayInv'
<1>1. CASE /\ ~Writing(cb) /\ ~Writing(cb')
           /\ code' = code /\ display' = display
  BY <1>1 DEF DisplayInv, RacedNext
<1>2. CASE ~Writing(cb) /\ Writing(cb') /\ code' = InHand(cb')
  <2>1. raced' = Writing(lp)
    BY <1>2 DEF RacedNext
  <2>2. QED
    BY <1>2, <2>1 DEF DisplayInv
<1>3. CASE /\ Writing(cb) /\ ~Writing(cb')
           /\ code' = code /\ display' = InHand(cb)
  <2>1. raced' = raced
    BY <1>3 DEF RacedNext
  <2>2. QED
    BY <1>3, <2>1 DEF DisplayInv
<1>4. QED
  BY <1>1, <1>2, <1>3

LEMMA LoopDisplay ==
  ASSUME TypeInv, DisplayInv, RacedNext, cb' = cb,
         \/ /\ ~Writing(lp) /\ ~Writing(lp')
            /\ code' = code /\ display' = display
         \/ /\ ~Writing(lp) /\ Writing(lp') /\ code' = InHand(lp')
         \/ /\ Writing(lp) /\ ~Writing(lp')
            /\ code' = code /\ display' = InHand(lp)
  PROVE  DisplayInv'
<1>1. CASE /\ ~Writing(lp) /\ ~Writing(lp')
           /\ code' = code /\ display' = display
  BY <1>1 DEF DisplayInv, RacedNext
<1>2. CASE ~Writing(lp) /\ Writing(lp') /\ code' = InHand(lp')
  <2>1. raced' = Writing(cb)
    BY <1>2 DEF RacedNext
  <2>2. QED
    BY <1>2, <2>1 DEF DisplayInv
<1>3. CASE /\ Writing(lp) /\ ~Writing(lp')
           /\ code' = code /\ display' = InHand(lp)
  <2>1. raced' = raced
    BY <1>3 DEF RacedNext
  <2>2. QED
    BY <1>3, <2>1 DEF DisplayInv
<1>4. QED
  BY <1>1, <1>2, <1>3

CallbackWrites ==
  \/ ~Writing(cb) /\ ~Writing(cb') /\ code' = code /\ display' = display
  \/ ~Writing(cb) /\ Writing(cb') /\ code' = InHand(cb')
  \/ Writing(cb) /\ ~Writing(cb') /\ code' = code /\ display' = InHand(cb)

LEMMA CallbackIsOne ==
  ASSUME TypeInv, Callback \/ \E c \in Clients, frame \in Frames : Receive(c, frame)
  PROVE  CallbackWrites /\ lp' = lp
<1>1. lp' = lp
  BY DEF Callback, Connect, Disconnect, Revoke, Show, Grant, ClearGranted,
         Generate, Receive
<1> SUFFICES CallbackWrites
  BY <1>1
<1>2. ASSUME NEW c \in Clients, NEW frame \in Frames, Receive(c, frame)
      PROVE  CallbackWrites
  <2>1. cb.at = "idle" /\ code' = code /\ display' = display
    BY <1>2 DEF Receive
  <2>2. cb' = cb \/ CallbackGoes("grant", c)
    BY <1>2 DEF Receive
  <2>3. cb'.at \in {"idle", "grant"}
    BY <2>1, <2>2 DEF CallbackGoes, TypeInv
  <2>4. QED
    BY <2>1, <2>3 DEF CallbackWrites, Writing
<1>3. ASSUME NEW c \in Clients, Connect(c) \/ Disconnect(c)
      PROVE  CallbackWrites
  <2>1. cb.at = "idle" /\ code' = code /\ display' = display
    BY <1>3 DEF Connect, Disconnect
  <2>2. cb' = cb \/ CallbackGoes("revoke", c)
    BY <1>3 DEF Connect, Disconnect
  <2>3. cb'.at \in {"idle", "revoke"}
    BY <2>1, <2>2 DEF CallbackGoes, TypeInv
  <2>4. QED
    BY <2>1, <2>3 DEF CallbackWrites, Writing
<1>4. CASE Revoke
  <2>1. cb.at = "revoke" /\ code' = code /\ display' = display
    BY <1>4 DEF Revoke
  <2>2. CallbackGoes("generate", NoClient) \/ CallbackDone
    BY <1>4 DEF Revoke
  <2>3. cb'.at \in {"idle", "generate"}
    <3>1. CASE CallbackGoes("generate", NoClient)
      BY <3>1 DEF CallbackGoes, TypeInv
    <3>2. CASE CallbackDone
      BY <3>2 DEF CallbackDone
    <3>3. QED
      BY <2>2, <3>1, <3>2
  <2>4. QED
    BY <2>1, <2>3 DEF CallbackWrites, Writing
<1>5. CASE Show
  BY <1>5 DEF Show, CallbackDone, CallbackWrites, Writing, InHand
<1>6. CASE Grant
  <2>1. CASE session \in {NoClient, cb.client}
    <3>1. cb.at = "grant" /\ code' = NoCode /\ CallbackGoes("clear", NoClient)
      BY <1>6, <2>1 DEF Grant
    <3>2. cb'.at = "clear"
      BY <3>1 DEF CallbackGoes, TypeInv
    <3>3. QED
      BY <3>1, <3>2 DEF CallbackWrites, Writing, InHand
  <2>2. CASE session \notin {NoClient, cb.client}
    <3>1. /\ cb.at = "grant" /\ code' = code /\ display' = display
          /\ CallbackDone
      BY <1>6, <2>2 DEF Grant
    <3>2. QED
      BY <3>1 DEF CallbackDone, CallbackWrites, Writing
  <2>3. QED
    BY <2>1, <2>2
<1>7. CASE ClearGranted
  BY <1>7 DEF ClearGranted, CallbackDone, CallbackWrites, Writing, InHand
<1>8. ASSUME NEW digits \in Codes, Generate(digits)
      PROVE  CallbackWrites
  <2>1. cb'.at = "show" /\ cb'.shown = digits
    BY <1>8 DEF Generate, TypeInv
  <2>2. cb.at = "generate" /\ code' = digits
    BY <1>8 DEF Generate
  <2>3. QED
    BY <2>1, <2>2 DEF CallbackWrites, Writing, InHand
<1>9. QED
  BY <1>1, <1>2, <1>3, <1>4, <1>5, <1>6, <1>7, <1>8 DEF Callback

LoopWrites ==
  \/ ~Writing(lp) /\ ~Writing(lp') /\ code' = code /\ display' = display
  \/ ~Writing(lp) /\ Writing(lp') /\ code' = InHand(lp')
  \/ Writing(lp) /\ ~Writing(lp') /\ code' = code /\ display' = InHand(lp)

LEMMA LoopIsOne ==
  ASSUME TypeInv, Loop
  PROVE  LoopWrites /\ cb' = cb
<1>0. \A step : LoopGoes(step) => lp'.at = step
  BY DEF LoopGoes, TypeInv
<1>1. cb' = cb
  BY DEF Loop, BeginUpdate, ExpireCode, ClearExpired, Evict, EndUpdate,
         RequestNewPairingCode, LoopShow, LoopGenerate
<1> SUFFICES LoopWrites
  BY <1>1
<1>2. CASE BeginUpdate \/ Evict \/ RequestNewPairingCode
  <2>1. lp'.at \in {"expire", "session", "generate"}
    BY <1>0, <1>2 DEF BeginUpdate, Evict, RequestNewPairingCode
  <2>2. QED
    BY <1>2, <2>1 DEF BeginUpdate, Evict, RequestNewPairingCode, LoopWrites, Writing
<1>3. CASE ExpireCode
  <2>1. CASE LoopGoes("evict") /\ code' = code
    BY <1>0, <1>3, <2>1 DEF ExpireCode, LoopWrites, Writing
  <2>2. CASE LoopGoes("clear") /\ code' = NoCode
    BY <1>0, <1>3, <2>2 DEF ExpireCode, LoopWrites, Writing, InHand
  <2>3. QED
    BY <1>3, <2>1, <2>2 DEF ExpireCode
<1>4. CASE ClearExpired
  BY <1>0, <1>4 DEF ClearExpired, LoopWrites, Writing, InHand
<1>5. CASE EndUpdate
  <2>1. lp'.at \in {"idle", "generate"}
    BY <1>0, <1>5 DEF EndUpdate, LoopDone
  <2>2. QED
    BY <1>5, <2>1 DEF EndUpdate, LoopWrites, Writing
<1>6. CASE LoopShow
  BY <1>6 DEF LoopShow, LoopDone, LoopWrites, Writing, InHand
<1>7. ASSUME NEW digits \in Codes, LoopGenerate(digits)
      PROVE  LoopWrites
  <2>1. lp'.at = "show" /\ lp'.shown = digits
    BY <1>7 DEF LoopGenerate, TypeInv
  <2>2. lp.at = "generate" /\ code' = digits
    BY <1>7 DEF LoopGenerate
  <2>3. QED
    BY <2>1, <2>2 DEF LoopWrites, Writing, InHand
<1>8. QED
  BY <1>1, <1>2, <1>3, <1>4, <1>5, <1>6, <1>7 DEF Loop

LEMMA DisplayStep ==
  TypeInv /\ DisplayInv /\ [MCNext]_mcVars => TypeInv' /\ DisplayInv'
<1> SUFFICES ASSUME TypeInv, DisplayInv, [MCNext]_mcVars
             PROVE  TypeInv' /\ DisplayInv'
  OBVIOUS
<1>1. TypeInv'
  BY MCStepIsStep, NextTypes DEF mcVars
<1> SUFFICES DisplayInv'
  BY <1>1
<1>2. CASE Tick /\ RacedNext
  BY <1>2 DEF Tick, RacedNext, DisplayInv
<1>3. CASE /\ RacedNext
           /\ \/ Callback
              \/ \E c \in Clients, frame \in Frames : Receive(c, frame)
  BY <1>3, CallbackIsOne, CallbackDisplay DEF CallbackWrites
<1>4. CASE Loop /\ RacedNext
  BY <1>4, LoopIsOne, LoopDisplay DEF LoopWrites
<1>5. CASE UNCHANGED mcVars
  BY <1>5 DEF mcVars, vars, DisplayInv
<1>6. QED
  BY <1>2, <1>3, <1>4, <1>5 DEF MCNext

\* What is shown when both tasks are done with the display is the code that is
\* accepted, unless they were in each other's way (generatePairingCode, PAIR
\* and update).
THEOREM DisplayIsTheCode == MCSpec => []DisplayShowsCode
<1>1. MCInit => TypeInv /\ DisplayInv
  <2>1. MCInit => TypeInv
    BY InitTypes DEF MCInit
  <2>2. MCInit => DisplayInv
    BY DEF MCInit, Init, DisplayInv, Writing
  <2>3. QED
    BY <2>1, <2>2
<1>2. DisplayInv => DisplayShowsCode
  BY DEF DisplayInv, DisplayShowsCode
<1>3. QED
  BY <1>1, <1>2, DisplayStep, PTL DEF MCSpec

=============================================================================

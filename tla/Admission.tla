------------------------------ MODULE Admission ------------------------------
(***************************************************************************)
(* Who may talk to the robot, and how often: the client table, the limit   *)
(* on messages, the pairing code with its display, and the limits on       *)
(* guessing it (WifiControl.cpp), from start() to the next stop().  What   *)
(* an admitted command then does is the subject of module WifiControl.     *)
(*                                                                         *)
(* Instead of the time a window began the model keeps its age, what the    *)
(* code computes from it: modulo the range of the clock for the window of  *)
(* all clients.  A window of one client that is over stays so: in the code *)
(* it seems young again when the clock has gone round, and only refuses    *)
(* more.  The end of a lockout is kept as it is, for it is compared with   *)
(* zero.  The callback task is not delayed between reading the clock and   *)
(* testing the limits.  The age of a code and of a client are left out:    *)
(* update() may find any code expired and any unpaired client idle, as it  *)
(* does when they are younger than the clock it has read.                  *)
(***************************************************************************)
EXTENDS WebControlProtocol, FiniteSets

CONSTANTS
  Clients,          \* ids of WebSocket clients
  MaxClients,       \* WIFI_MAX_CLIENTS
  Frames,           \* what clients send
  SecondMs,         \* the window of the message limit
  MaxMessages,      \* WIFI_MAX_COMMANDS_PER_SECOND
  MaxAttempts,      \* WIFI_MAX_PAIR_ATTEMPTS_PER_MINUTE
  LockoutMs,        \* WIFI_PAIRING_LOCKOUT_MS
  CounterModulus,   \* the counters are uint8_t: 256 on the device
  ClockModulus,     \* millis() is uint32_t: 2^32 on the device
  NoClient, NoCode

ASSUME AdmissionAssumption ==
  /\ {MaxClients, SecondMs, MaxMessages, MaxAttempts, LockoutMs,
      CounterModulus, ClockModulus} \subseteq Nat
  /\ MaxMessages < CounterModulus /\ MaxAttempts + 1 < CounterModulus
  /\ MaxAttempts > 0 /\ SecondMs > 0 /\ LockoutMs > 0
  /\ SecondMs < ClockModulus /\ 2 * LockoutMs <= ClockModulus
  /\ NoClient \notin Clients /\ NoCode \notin Codes

VARIABLES
  now,       \* millis()
  clients,   \* _clients, by client id
  session,   \* the client that is the controller
  code,      \* _pairingCode
  display,   \* the code that SystemStatus shows
  guesses,   \* _globalFailedPairAttempts, its window, and _pairingLockedUntilMs
  cb,        \* where the callback task is, and its locals
  lp         \* where the loop task is, and its locals

vars == <<now, clients, session, code, display, guesses, cb, lp>>

Times == 0 .. ClockModulus - 1

NoSlot ==
  [connected |-> FALSE, window |-> 0, count |-> 0, pairWindow |-> 0,
   attempts |-> 0]

NewClient == [NoSlot EXCEPT !.connected = TRUE]

NoGuesses == [failed |-> 0, window |-> 0, lockedUntil |-> 0]

\* Both tasks make codes, and each shows its code or clears the display after.
CallbackStep == {"idle", "revoke", "generate", "show", "grant", "clear"}
LoopStep == {"idle", "expire", "clear", "evict", "session", "generate", "show"}

TypeOK ==
  /\ now \in Times
  /\ clients \in [Clients ->
       [connected: BOOLEAN, window: 0 .. SecondMs,
        count: 0 .. CounterModulus - 1, pairWindow: 0 .. LockoutMs,
        attempts: 0 .. CounterModulus - 1]]
  /\ Cardinality({c \in Clients : clients[c].connected}) <= MaxClients
  /\ session \in Clients \cup {NoClient}
  /\ code \in Codes \cup {NoCode}
  /\ display \in Codes \cup {NoCode}
  /\ guesses \in [failed: 0 .. MaxAttempts, window: Times, lockedUntil: Times]
  /\ cb \in [at: CallbackStep, client: Clients \cup {NoClient},
             shown: Codes \cup {NoCode}]
  /\ lp \in [at: LoopStep, shown: Codes \cup {NoCode}]

\* The end of start().
Init ==
  /\ now \in Times
  /\ clients = [c \in Clients |-> NoSlot]
  /\ session = NoClient
  /\ code \in Codes /\ display = code
  /\ guesses = NoGuesses
  /\ cb = [at |-> "idle", client |-> NoClient, shown |-> NoCode]
  /\ lp = [at |-> "idle", shown |-> NoCode]

-----------------------------------------------------------------------------
(* Time. *)

Later(time, ms) == (time + ms) % ClockModulus

Older(age, cap) == IF age < cap THEN age + 1 ELSE cap

Aged(slot) ==
  IF ~slot.connected THEN slot
  ELSE [slot EXCEPT !.window = Older(@, SecondMs),
                    !.pairWindow = Older(@, LockoutMs)]

Tick ==
  /\ now' = Later(now, 1)
  /\ clients' = [c \in Clients |-> Aged(clients[c])]
  /\ guesses' = [guesses EXCEPT !.window = Later(@, 1)]
  /\ UNCHANGED <<session, code, display, cb, lp>>

-----------------------------------------------------------------------------
(* The callback task. *)

CallbackDone == cb' = [at |-> "idle", client |-> NoClient, shown |-> NoCode]

CallbackGoes(step, c) == cb' = [cb EXCEPT !.at = step, !.client = c]

\* WS_EVT_CONNECT: without a free slot the client is closed at once.
Connect(c) ==
  /\ cb.at = "idle" /\ ~clients[c].connected /\ session # c
  /\ Cardinality({d \in Clients : clients[d].connected}) < MaxClients
  /\ clients' = [clients EXCEPT ![c] = NewClient]
  /\ UNCHANGED <<now, session, code, display, guesses, cb, lp>>

\* WS_EVT_DISCONNECT; a client that was evicted gets one too.
Disconnect(c) ==
  /\ cb.at = "idle" /\ (clients[c].connected \/ session = c)
  /\ clients' = [clients EXCEPT ![c] = NoSlot]
  /\ IF session = c THEN CallbackGoes("revoke", c) ELSE UNCHANGED cb
  /\ UNCHANGED <<now, session, code, display, guesses, lp>>

\* revokeController(): the code is made after the mutex is released.
Revoke ==
  /\ cb.at = "revoke"
  /\ session' = NoClient
  /\ IF session # NoClient THEN CallbackGoes("generate", NoClient)
     ELSE CallbackDone
  /\ UNCHANGED <<now, clients, code, display, guesses, lp>>

Generate(digits) ==
  /\ cb.at = "generate" /\ digits # code
  /\ code' = digits
  /\ cb' = [cb EXCEPT !.at = "show", !.shown = digits]
  /\ UNCHANGED <<now, clients, session, display, guesses, lp>>

Show ==
  /\ cb.at = "show"
  /\ display' = cb.shown
  /\ CallbackDone
  /\ UNCHANGED <<now, clients, session, code, guesses, lp>>

\* The first critical section of handleWebSocketMessage(): stops are not
\* counted, refused messages are.
Counted(slot, message) ==
  LET fresh == IF slot.window >= SecondMs
               THEN [slot EXCEPT !.window = 0, !.count = 0] ELSE slot
  IN IF message.type = "stop" THEN slot
     ELSE [fresh EXCEPT !.count = (@ + 1) % CounterModulus]

RateLimited(slot, message) ==
  message.type # "stop" /\ slot.count > MaxMessages

\* PAIR counts attempts, right and wrong, by the client ...
Attempted(slot) ==
  LET fresh == IF slot.pairWindow >= LockoutMs
               THEN [slot EXCEPT !.pairWindow = 0, !.attempts = 0] ELSE slot
  IN [fresh EXCEPT !.attempts = (@ + 1) % CounterModulus]

\* pairingRateLimited(): no end of a lockout is zero, and one is to come while
\* the clock has less than half its range to go to it.
PairingRateLimited ==
  /\ guesses.lockedUntil # 0
  /\ 2 * ((now - guesses.lockedUntil) % ClockModulus) >= ClockModulus

FailedWithin(limit, until) ==
  LET fresh == IF guesses.window >= LockoutMs
               THEN [guesses EXCEPT !.window = 0, !.failed = 0] ELSE guesses
  IN IF fresh.failed + 1 <= limit
     THEN [fresh EXCEPT !.failed = @ + 1]
     ELSE [NoGuesses EXCEPT !.lockedUntil = until]

\* Mutants: nothing is locked; one failure too many.
FailedUnlocked == FailedWithin(MaxAttempts, 0)
FailedOnceMore == FailedWithin(MaxAttempts + 1, Later(now, LockoutMs))

\* ... and failures of all clients: recordPairFailure().
Failed == FailedWithin(MaxAttempts, Later(now, LockoutMs))

\* A pairing message that passes the limits of its client is judged.
Judged(c, message) ==
  /\ message.type = "pair" /\ ~PairingRateLimited
  /\ ~RateLimited(Counted(clients[c], message), message)
  /\ Attempted(Counted(clients[c], message)).attempts <= MaxAttempts
  /\ session \in {NoClient, c}
  /\ code # NoCode

WrongGuess(c, message) == Judged(c, message) /\ code \notin message.code

\* A frame as the parser reads it: one message, or none when it is refused.
Parsed == [frame \in Frames |-> ParseCommand(frame)]

\* What the handler does with a message that it can read, up to the moment a
\* guess is found right; commands and queries change nothing more here.
Receive(c, frame) ==
  /\ cb.at = "idle" /\ clients[c].connected
  /\ \E message \in Parsed[frame] :
       LET counted == Counted(clients[c], message)
           pairing == message.type = "pair" /\ ~PairingRateLimited
                        /\ ~RateLimited(counted, message)
       IN /\ clients' = [clients EXCEPT ![c] =
                           IF pairing THEN Attempted(counted) ELSE counted]
          /\ guesses' = IF WrongGuess(c, message) THEN Failed ELSE guesses
          /\ IF Judged(c, message) /\ ~WrongGuess(c, message)
             THEN CallbackGoes("grant", c) ELSE UNCHANGED cb
  /\ UNCHANGED <<now, session, code, display, lp>>

\* The session is looked at again, the code is not: whichever there is now is
\* used up.  An evicted client may still become the controller.
Grant ==
  /\ cb.at = "grant"
  /\ IF session \in {NoClient, cb.client}
     THEN /\ session' = cb.client
          /\ code' = NoCode
          /\ clients' = [clients EXCEPT ![cb.client].attempts = 0]
          /\ guesses' = NoGuesses
          /\ CallbackGoes("clear", NoClient)
     ELSE CallbackDone /\ UNCHANGED <<clients, session, code, guesses>>
  /\ UNCHANGED <<now, display, lp>>

ClearGranted ==
  /\ cb.at = "clear"
  /\ display' = NoCode
  /\ CallbackDone
  /\ UNCHANGED <<now, clients, session, code, guesses, lp>>

-----------------------------------------------------------------------------
(* The loop task: update(), and between two updates WIFI PAIR or the grip on *)
(* both buttons.                                                             *)

LoopGoes(step) == lp' = [lp EXCEPT !.at = step]

LoopDone == lp' = [at |-> "idle", shown |-> NoCode]

BeginUpdate ==
  /\ lp.at = "idle" /\ LoopGoes("expire")
  /\ UNCHANGED <<now, clients, session, code, display, guesses, cb>>

\* The code may have expired.
ExpireCode ==
  /\ lp.at = "expire"
  /\ \/ LoopGoes("evict") /\ UNCHANGED code
     \/ code # NoCode /\ code' = NoCode /\ LoopGoes("clear")
  /\ UNCHANGED <<now, clients, session, display, guesses, cb>>

\* Mutant: the display keeps a code that has expired.
ClearExpiredInside ==
  /\ lp.at = "clear" /\ LoopGoes("evict")
  /\ UNCHANGED <<now, clients, session, code, display, guesses, cb>>

ClearExpired ==
  /\ lp.at = "clear" /\ LoopGoes("evict")
  /\ display' = NoCode
  /\ UNCHANGED <<now, clients, session, code, guesses, cb>>

\* evictIdleUnpairedClients()
Evict ==
  /\ lp.at = "evict" /\ LoopGoes("session")
  /\ \E idle \in SUBSET {c \in Clients : clients[c].connected /\ session # c} :
       clients' = [c \in Clients |-> IF c \in idle THEN NoSlot ELSE clients[c]]
  /\ UNCHANGED <<now, session, code, display, guesses, cb>>

\* The lease of the controller may have run out.
EndUpdate ==
  /\ lp.at = "session"
  /\ \/ LoopDone /\ UNCHANGED session
     \/ session # NoClient /\ session' = NoClient /\ LoopGoes("generate")
  /\ UNCHANGED <<now, clients, code, display, guesses, cb>>

\* requestNewPairingCode()
RequestNewPairingCode ==
  /\ lp.at = "idle" /\ session = NoClient /\ LoopGoes("generate")
  /\ UNCHANGED <<now, clients, session, code, display, guesses, cb>>

LoopGenerate(digits) ==
  /\ lp.at = "generate" /\ digits # code
  /\ code' = digits
  /\ lp' = [lp EXCEPT !.at = "show", !.shown = digits]
  /\ UNCHANGED <<now, clients, session, display, guesses, cb>>

LoopShow ==
  /\ lp.at = "show"
  /\ display' = lp.shown
  /\ LoopDone
  /\ UNCHANGED <<now, clients, session, code, guesses, cb>>

Callback ==
  \/ \E c \in Clients : Connect(c) \/ Disconnect(c)
  \/ Revoke \/ Show \/ Grant \/ ClearGranted
  \/ \E digits \in Codes : Generate(digits)

Loop ==
  \/ BeginUpdate \/ ExpireCode \/ ClearExpired \/ Evict \/ EndUpdate
  \/ RequestNewPairingCode \/ LoopShow
  \/ \E digits \in Codes : LoopGenerate(digits)

Next ==
  \/ Tick
  \/ \E c \in Clients, frame \in Frames : Receive(c, frame)
  \/ Callback \/ Loop

Spec == Init /\ [][Next]_vars

=============================================================================

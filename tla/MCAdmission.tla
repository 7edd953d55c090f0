----------------------------- MODULE MCAdmission -----------------------------
(***************************************************************************)
(* Admission for TLC: the frames that clients send, an observer of the     *)
(* wrong guesses, and a memory of which task was in the other's way.       *)
(***************************************************************************)
EXTENDS Admission, TLC

CONSTANT MaxLost  \* bound: lockouts that an observer sees lost

ASSUME MaxLostAssumption == MaxLost \in Nat

MCCodeOf == [text \in {"1234 5678", "12345678", "8765 4321"} |->
               IF text = "8765 4321" THEN "second" ELSE "first"]

Frame(type) == [v |-> Number(1), id |-> Number(1), type |-> Text(type)]

Pair(text) == Frame("pair") @@ [code |-> Text(text)]

Symmetry == Permutations(Clients)

MCFrames == {Frame("stop"), Pair("1234 5678"), Pair("8765 4321")}

\* The examples of docs/WIFI_PROTOCOL.md, with v, id and token where it leaves
\* them out, stand for what it says; without them all are refused.
Identified(type) == Frame(type) @@ [token |-> Text("hex")]

Examples ==
  {<<Identified("arm"), "ARM">>,
   <<Identified("move") @@ [mode |-> Text("forward"), durationMs |-> Number(250)],
     "MOVE">>,
   <<Identified("stop"), "STOP">>,
   <<Identified("action") @@ [action |-> Text("wave")], "ACTION">>,
   <<Identified("mood") @@ [mood |-> Text("happy")], "SET_MOOD">>}

Without(frame, fields) == [f \in (DOMAIN frame) \ fields |-> frame[f]]

ExamplesParse ==
  /\ \A example \in Examples :
       /\ {m.command.kind : m \in ParseCommand(example[1])} = {example[2]}
       /\ ParseCommand(Without(example[1], {"v"})) = {}
       /\ ParseCommand(Without(example[1], {"id"})) # {} <=> example[2] = "STOP"
  /\ {m.code : m \in ParseCommand(Pair("1234 5678"))} = {{"first"}}
  /\ ParseCommand([Pair("1234 5678") EXCEPT !.id = Number(IdModulus)]) = {}
  /\ ParseCommand(Frame("move") @@ [mode |-> Text("forward")]) = {}
  /\ ParseCommand(Frame("hello") @@ [intentId |-> Text("intent")]) = {}

ASSUME ExamplesParse

-----------------------------------------------------------------------------
(* History. *)

VARIABLES
  watch,  \* an observer who counts wrong guesses from one of them on
  raced   \* one task changed the code before the other had shown its change

mcVars == <<vars, watch, raced>>

NoWatch == [on |-> FALSE, age |-> 0, wrong |-> 0, lost |-> 0]

\* A failure that should lock, LockoutMs before the clock is zero, locks nothing:
\* the end of the lockout is stored as "not locked" (recordPairFailure,
\* pairingRateLimited).
LosesLockout ==
  /\ Later(now, LockoutMs) = 0
  /\ guesses.failed = MaxAttempts /\ guesses.window < LockoutMs

\* The observer looks for less than LockoutMs, and gives up when somebody pairs
\* or when more than MaxLost lockouts are lost.
Noticed ==
  LET seen == [watch EXCEPT !.on = TRUE, !.wrong = @ + 1,
                            !.lost = IF LosesLockout THEN @ + 1 ELSE @]
  IN IF seen.lost <= MaxLost THEN seen ELSE NoWatch

Counting(wrong) ==
  IF wrong
  THEN watch' \in {Noticed} \cup {w \in {watch} : ~watch.on}
  ELSE UNCHANGED watch

TimePassed ==
  watch' = IF ~watch.on THEN watch
           ELSE IF watch.age + 1 = LockoutMs THEN NoWatch
           ELSE [watch EXCEPT !.age = @ + 1]

Writing(task) == task.at \in {"show", "clear"}

RacedNext ==
  raced' = IF Writing(cb') /\ ~Writing(cb) THEN Writing(lp)
           ELSE IF Writing(lp') /\ ~Writing(lp) THEN Writing(cb)
           ELSE raced

MCInit == Init /\ watch = NoWatch /\ raced = FALSE

MCNext ==
  /\ \/ Tick /\ TimePassed
     \/ \E c \in Clients, frame \in Frames :
          /\ Receive(c, frame)
          /\ Counting(\E message \in Parsed[frame] : WrongGuess(c, message))
     \/ Callback /\ watch' = IF cb.at = "grant" THEN NoWatch ELSE watch
     \/ Loop /\ UNCHANGED watch
  /\ RacedNext

MCSpec == MCInit /\ [][MCNext]_mcVars

-----------------------------------------------------------------------------
(* Correctness. *)

\* In less than the time of a lockout no more than 2 * MaxAttempts + 1 wrong
\* guesses are judged: an old window may be used up, then a new one and the
\* guess that locks; and for every lockout that is lost to the one millisecond
\* whose end of a lockout is zero as many again as a window has, and the next
\* that locks.  Reconnecting does not help, nor does sending so much that a
\* client's own counter wraps (PAIR, recordPairFailure,
\* docs/WIFI_PROTOCOL.md:78).
GuessesBounded ==
  watch.wrong <= 2 * MaxAttempts + 1 + watch.lost * (MaxAttempts + 1)

\* The display shows the code that is accepted, or nothing when there is none,
\* whenever both tasks are done with it; unless one of them changed the code
\* between the change of the other and its way to the display
\* (generatePairingCode, PAIR and update against each other).
DisplayShowsCode ==
  ~Writing(cb) /\ ~Writing(lp) /\ ~raced => display = code

=============================================================================

----------------------- MODULE SafetySupervisorProofs -----------------------
(***************************************************************************)
(* TLAPS proofs about SafetySupervisor, for every clock width, override    *)
(* time, set of readings and set of reported faults.                       *)
(***************************************************************************)
EXTENDS MCSafetySupervisor, SafetyPolicyProofs

-----------------------------------------------------------------------------
(* Type correctness. *)

\* A reading of the environment, stamped, is a supervisor input.
LEMMA StampedType ==
  ASSUME TypeOK, NEW in \in Readings
  PROVE  Stamped(in) \in SafetyInputs
BY SupervisorAssumption DEF Stamped, TypeOK, SafetyInputs

\* What an access to one key leaves behind: the other key and the types.
LEMMA StoreState ==
  ASSUME nvs \in NvsRecord, lost \subseteq NvsKey,
         NEW value \in {"absent"} \cup LatchedStates, Store("state", value)
  PROVE  /\ nvs' \in NvsRecord /\ lost' \subseteq NvsKey
         /\ nvs'.fault = nvs.fault
         /\ "state" \notin lost' => nvs'.state = value
BY DEF Store, NvsRecord, NvsKey

LEMMA StoreFault ==
  ASSUME nvs \in NvsRecord, lost \subseteq NvsKey,
         NEW value \in {"absent"} \cup SafetyFault, Store("fault", value)
  PROVE  /\ nvs' \in NvsRecord /\ lost' \subseteq NvsKey
         /\ nvs'.state = nvs.state
         /\ "state" \in lost' <=> "state" \in lost
         /\ "fault" \notin lost' => nvs'.fault = value
         /\ nvs'.fault \in {nvs.fault, value}
BY DEF Store, NvsRecord, NvsKey

\* What a restart reads is a flash record again.
LEMMA ReadType ==
  ASSUME nvs \in NvsRecord, NEW unread \in SUBSET NvsKey
  PROVE  /\ Read(unread) \in NvsRecord
         /\ Read(unread).state = IF "state" \in unread THEN "absent" ELSE nvs.state
         /\ Read(unread).fault = IF "fault" \in unread THEN "absent" ELSE nvs.fault
BY DEF Read, NvsRecord, NvsKey

\* The type invariant is inductive together with what a pending write writes:
\* persistLatchedState only ever runs in a latched state.
TypeInv ==
  /\ TypeOK
  /\ nvsOp = "putState" => sup.state \in LatchedStates

\* Becomes moves between well-typed states.
LEMMA BecomesType ==
  ASSUME TypeInv, booted' = booted, NEW t \in Supervisor, Becomes(t)
  PROVE  TypeInv'
BY DEF Becomes, TypeInv, TypeOK, NvsStep, LatchesAnew

\* The type invariant is established by every start.
LEMMA TypeInit == Init => TypeInv
<1>1. Blank \in NvsRecord
  BY DEF Blank, NvsRecord
<1>2. 0 \in Clock
  BY PolicyAssumption DEF Clock
<1>3. QED
  BY <1>1, <1>2, BeginWithType DEF Init, TypeInv, TypeOK, NvsStep, NvsRecord

\* And by every step.
LEMMA TypeStep == TypeInv /\ [Next]_vars => TypeInv'
<1> SUFFICES ASSUME TypeInv, [Next]_vars PROVE TypeInv'
  OBVIOUS
<1>1. TypeOK /\ sup \in Supervisor /\ now \in Clock
  BY DEF TypeInv, TypeOK
<1>2. CASE PutState
  <2>1. sup.state \in {"absent"} \cup LatchedStates
    BY <1>2 DEF PutState, TypeInv
  <2>2. nvs' \in NvsRecord /\ lost' \subseteq NvsKey
    BY <1>1, <1>2, <2>1, StoreState DEF PutState, TypeOK
  <2>3. QED
    BY <1>2, <2>2 DEF PutState, TypeInv, TypeOK, NvsStep
<1>3. CASE PutFault
  <2>1. sup.fault \in {"absent"} \cup SafetyFault
    BY <1>1 DEF Supervisor
  <2>2. nvs' \in NvsRecord /\ lost' \subseteq NvsKey
    BY <1>1, <1>3, <2>1, StoreFault DEF PutFault, TypeOK
  <2>3. QED
    BY <1>3, <2>2 DEF PutFault, TypeInv, TypeOK, NvsStep
<1>4. CASE RemoveState
  <2>1. nvs' \in NvsRecord /\ lost' \subseteq NvsKey
    BY <1>1, <1>4, StoreState DEF RemoveState, TypeOK
  <2>2. QED
    BY <1>4, <2>1 DEF RemoveState, TypeInv, TypeOK, NvsStep
<1>5. CASE RemoveFault
  <2>1. nvs' \in NvsRecord /\ lost' \subseteq NvsKey
    BY <1>1, <1>5, StoreFault DEF RemoveFault, TypeOK
  <2>2. QED
    BY <1>5, <2>1 DEF RemoveFault, TypeInv, TypeOK, NvsStep
<1>5a. CASE FlashClosed
  BY <1>5a DEF FlashClosed, TypeInv, TypeOK, NvsStep
<1>6. ASSUME NEW in \in Readings, CompleteBoot(in) PROVE TypeInv'
  <2>1. BootCompleted(sup, in) \in Supervisor
    BY <1>1, SupervisorAssumption, BootCompletedType
  <2>2. QED
    BY <1>6, <2>1 DEF CompleteBoot, TypeInv, TypeOK, NvsStep, LatchesAnew
<1>7. ASSUME NEW in \in Readings, Update(in) PROVE TypeInv'
  BY <1>1, <1>7, StampedType, UpdatedType, BecomesType DEF Update
<1>8. ASSUME NEW in \in Readings, RequestArm(in) PROVE TypeInv'
  <2>1. ArmRequested(sup, Stamped(in)) \in Supervisor
    BY <1>1, StampedType, ArmRequestedType
  <2>2. QED
    BY <1>8, <2>1 DEF RequestArm, TypeInv, TypeOK, NvsStep
<1>9. ASSUME NEW in \in Readings, RefuseArm(in) PROVE TypeInv'
  BY <1>1, <1>9, StampedType, ArmRequestedType, BecomesType DEF RefuseArm
<1>10. ASSUME NEW in \in Readings, ClearPhysicalEstop(in) PROVE TypeInv'
  <2>1. EstopCleared(sup, Stamped(in)) \in Supervisor
    BY <1>1, StampedType, EstopClearedType
  <2>2. QED
    BY <1>10, <2>1 DEF ClearPhysicalEstop, TypeInv, TypeOK, NvsStep
<1>11. CASE NotifyArmFailed
  <2>1. LatchFault(sup, "DRIVE_UNAVAILABLE") \in Supervisor
    BY <1>1, LatchFaultType DEF SafetyFault
  <2>2. QED
    BY <1>11, <2>1, BecomesType DEF NotifyArmFailed
<1>12. CASE RequestDisarm
  BY <1>1, <1>12, DisarmRequestedType, BecomesType DEF RequestDisarm
<1>13. ASSUME NEW forward \in BOOLEAN, NEW autonomous \in BOOLEAN,
              RequestDrive(forward, autonomous)
       PROVE  TypeInv'
  BY <1>1, <1>13, DriveRequestedType, BecomesType DEF RequestDrive
<1>14. ASSUME NEW enabled \in BOOLEAN, RequestAutonomy(enabled) PROVE TypeInv'
  BY <1>1, <1>14, AutonomyRequestedType, BecomesType DEF RequestAutonomy
<1>15. ASSUME NEW fault \in StopFaults, EmergencyStop(fault) PROVE TypeInv'
  <2>1. EmergencyStopped(sup, fault) \in Supervisor
    BY <1>1, SupervisorAssumption, StoppedType
  <2>2. QED
    BY <1>15, <2>1, BecomesType DEF EmergencyStop
<1>16. CASE PhysicalEstop
  <2>1. PhysicallyStopped(sup) \in Supervisor
    BY <1>1, StoppedType DEF SafetyFault
  <2>2. QED
    BY <1>16, <2>1, BecomesType DEF PhysicalEstop
<1>17. CASE ConsumeDisarmRequest
  BY <1>17 DEF ConsumeDisarmRequest, TypeInv, TypeOK, Supervisor
<1>18. CASE Tick
  <2>1. (now + 1) % ClockModulus \in Clock
    BY <1>1, ClockSum
  <2>2. QED
    BY <1>18, <2>1 DEF Tick, TypeInv, TypeOK
<1>19. ASSUME NEW unread \in SUBSET NvsKey, Restart(unread) PROVE TypeInv'
  <2>1. 0 \in Clock
    BY PolicyAssumption DEF Clock
  <2>2. Read(unread) \in NvsRecord
    BY <1>1, ReadType DEF TypeOK
  <2>3. BeginWith(Read(unread)) \in Supervisor
    BY <2>2, BeginWithType DEF NvsRecord
  <2>4. QED
    BY <1>19, <2>1, <2>3 DEF Restart, TypeInv, TypeOK, NvsStep
<1>20. CASE UNCHANGED vars
  BY <1>20 DEF vars, TypeInv, TypeOK
<1>21. QED
  BY <1>2, <1>3, <1>4, <1>5, <1>6, <1>7, <1>8, <1>9, <1>10, <1>11, <1>12, <1>13,
     <1>14, <1>15, <1>16, <1>17, <1>18, <1>19, <1>20, <1>5a DEF Next

\* Every variable keeps its type in every behaviour of the supervisor.
THEOREM TypeCorrect == Spec => []TypeOK
<1>1. TypeInv => TypeOK
  BY DEF TypeInv
<1>2. QED
  BY <1>1, TypeInit, TypeStep, PTL DEF Spec

-----------------------------------------------------------------------------
(* The inductive invariant.  What happens during a call is the point: with a *)
(* flash write pending, memory is ahead of the record, and each stage says   *)
(* how far, unless the flash did not answer.  Before boot completes, memory  *)
(* is exactly what begin() could read.                                       *)

PendingWrite ==
  /\ nvsOp \in {"putState", "putFault"} => sup.state \in LatchedStates
  /\ nvsOp = "putFault" /\ "state" \notin lost => nvs.state = sup.state
  /\ nvsOp \in {"removeState", "removeFault"} => sup.state \in {"DISARMED", "ARMED"}
  /\ nvsOp = "removeFault" /\ "state" \notin lost => nvs.state = "absent"

BootState ==
  /\ ~booted => nvsOp = "none" /\ sup = BeginWith(Read(lost))
  /\ booted => sup.state # "BOOT"

SafeInv ==
  /\ TypeInv
  /\ FaultNamed
  /\ AuthorityWithdrawn
  /\ IncidentRecorded
  /\ PendingWrite
  /\ BootState
  /\ nvs.fault # "NONE"

\* Hence a call that conserves keeps the invariant, flash included.
LEMMA BecomesSafe ==
  ASSUME SafeInv, booted, booted' = booted, NEW t \in Supervisor,
         Conserves(sup, t), Becomes(t)
  PROVE  SafeInv'
<1>1. TypeInv'
  BY BecomesType DEF SafeInv
<1>2. FaultNamed' /\ AuthorityWithdrawn' /\ BootState' /\ (nvs.fault # "NONE")'
  BY DEF Becomes, Conserves, WellFormed, FaultNamed, AuthorityWithdrawn,
         BootState, SafeInv
<1>3. IncidentRecorded'
  <2>1. CASE LatchesAnew(sup, t)
    BY <2>1 DEF Becomes, IncidentRecorded
  <2>2. CASE ~LatchesAnew(sup, t)
    BY <2>2 DEF Becomes, Conserves, LatchesAnew, IncidentRecorded, SafeInv,
                TornName, BootState, LatchedStates, TypeInv, TypeOK, Supervisor,
                SafetyState
  <2>3. QED
    BY <2>1, <2>2
<1>4. PendingWrite'
  BY DEF Becomes, Conserves, LatchesAnew, PendingWrite, IncidentRecorded, SafeInv,
         BootState, LatchedStates, TypeInv, TypeOK, Supervisor, SafetyState
<1>5. QED
  BY <1>1, <1>2, <1>3, <1>4 DEF SafeInv

\* The invariant holds at a cold start.
LEMMA SafeInit == Init => SafeInv
<1> SUFFICES ASSUME Init PROVE SafeInv
  OBVIOUS
<1>1. TypeInv
  BY TypeInit
<1>2. QED
  BY <1>1 DEF Init, SafeInv, BeginWith, Blank, Read, NvsKey, FaultNamed,
              AuthorityWithdrawn, IncidentRecorded, PendingWrite, BootState,
              LatchedStates

\* What completeBoot makes of the record n that begin() has read: a recorded
\* incident is taken up again, and without one the robot is free or faulted.
BootOutcome(n, t) ==
  /\ WellFormed(t) /\ t.state # "BOOT" /\ ~t.autonomyEnabled
  /\ n.state \in LatchedStates => t.state = n.state
  /\ n.state = "FAULT" => t.fault = IF n.fault = "absent"
                                    THEN "HARDWARE_UNAVAILABLE" ELSE n.fault
  /\ n.state = "absent" => t.state \in {"FAULT", "DISARMED"}

LEMMA BootOutcomes ==
  ASSUME sup \in Supervisor, NEW in \in Readings, NEW n \in NvsRecord,
         n.fault # "NONE", sup = BeginWith(n)
  PROVE  BootOutcome(n, BootCompleted(sup, in))
<1> DEFINE u == [sup EXCEPT !.inputs = [in EXCEPT !.bootComplete = TRUE]]
           t == BootCompleted(sup, in)
<1>1. /\ u \in Supervisor /\ u.state = "BOOT" /\ u.fault = "NONE"
      /\ u.restoredState = sup.restoredState /\ u.restoredFault = sup.restoredFault
      /\ ~u.autonomyEnabled /\ ~u.disarmRequested
  <2>1. [in EXCEPT !.bootComplete = TRUE] \in SafetyInputs
    BY SupervisorAssumption DEF SafetyInputs
  <2>2. u \in Supervisor
    BY <2>1, InputsType
  <2>3. QED
    BY <2>2 DEF BeginWith, Supervisor
<1>2. CASE n.state = "ESTOP"
  <2>1. sup.restoredState = "ESTOP"
    BY <1>2 DEF BeginWith, LatchedStates
  <2>2. t = [u EXCEPT !.state = "ESTOP", !.fault = "PHYSICAL_ESTOP",
                      !.disarmRequested = TRUE]
    BY <1>1, <2>1 DEF BootCompleted
  <2>3. t.state = "ESTOP" /\ t.fault = "PHYSICAL_ESTOP" /\ ~t.autonomyEnabled
    BY <1>1, <2>2 DEF Supervisor
  <2>4. QED
    BY <1>2, <2>3 DEF BootOutcome, WellFormed, LatchedStates
<1>3. CASE n.state = "FAULT"
  <2> DEFINE name == IF n.fault = "absent" THEN "HARDWARE_UNAVAILABLE" ELSE n.fault
  <2>1. /\ sup.restoredState = "FAULT"
        /\ sup.restoredFault = IF n.fault = "absent" THEN "NONE" ELSE n.fault
    BY <1>3 DEF BeginWith, LatchedStates
  <2>2. t = [u EXCEPT !.state = "FAULT", !.fault = name, !.disarmRequested = TRUE]
    BY <1>1, <2>1 DEF BootCompleted
  <2>3. t.state = "FAULT" /\ t.fault = name /\ ~t.autonomyEnabled
    BY <1>1, <2>2 DEF Supervisor
  <2>4. QED
    BY <1>3, <2>3 DEF BootOutcome, WellFormed, LatchedStates
<1>4. CASE n.state = "absent"
  <2>1. sup.restoredState = "BOOT"
    BY <1>4 DEF BeginWith, LatchedStates
  <2>2. CASE FaultForArm(u) # "NONE"
    <3>1. t = LatchFault(u, FaultForArm(u))
      BY <1>1, <2>1, <2>2 DEF BootCompleted
    <3>2. t.state = "FAULT" /\ t.fault = FaultForArm(u) /\ ~t.autonomyEnabled
      BY <1>1, <3>1 DEF LatchFault, Supervisor
    <3>3. QED
      BY <1>4, <2>2, <3>2 DEF BootOutcome, WellFormed, LatchedStates
  <2>3. CASE FaultForArm(u) = "NONE"
    <3>1. t = [u EXCEPT !.state = "DISARMED", !.fault = "NONE"]
      BY <1>1, <2>1, <2>3 DEF BootCompleted
    <3>2. /\ t.state = "DISARMED" /\ t.fault = "NONE" /\ ~t.autonomyEnabled
          /\ ~t.disarmRequested
      BY <1>1, <3>1 DEF Supervisor
    <3>3. QED
      BY <1>4, <3>2 DEF BootOutcome, WellFormed, LatchedStates
  <2>4. QED
    BY <2>2, <2>3
<1>5. QED
  BY <1>2, <1>3, <1>4 DEF NvsRecord, LatchedStates

\* And is kept by every step, if no boot lasts as long as the E-stop hold.
LEMMA SafeStep ==
  ASSUME ~HoldFitsInBoot, SafeInv, [Next]_vars
  PROVE  SafeInv'
<1>1. TypeInv' /\ sup \in Supervisor /\ WellFormed(sup) /\ TypeOK
  BY TypeStep DEF SafeInv, TypeInv, TypeOK, WellFormed, FaultNamed,
                  AuthorityWithdrawn
<1>2. booted => sup.state # "BOOT"
  BY DEF SafeInv, BootState
<1>3. CASE PutState
  <2>1. sup.state \in {"absent"} \cup LatchedStates
    BY <1>3 DEF PutState, SafeInv, TypeInv
  <2>2. nvs'.fault = nvs.fault /\ ("state" \notin lost' => nvs'.state = sup.state)
    BY <1>1, <1>3, <2>1, StoreState DEF PutState, TypeOK
  <2>3. QED
    BY <1>1, <1>3, <2>2 DEF PutState, SafeInv, FaultNamed, AuthorityWithdrawn,
       IncidentRecorded, PendingWrite, BootState
<1>4. CASE PutFault
  <2>1. sup.fault \in {"absent"} \cup SafetyFault
    BY <1>1 DEF Supervisor
  <2>2. /\ nvs'.state = nvs.state /\ ("state" \in lost' <=> "state" \in lost)
        /\ "fault" \notin lost' => nvs'.fault = sup.fault
        /\ nvs'.fault \in {nvs.fault, sup.fault}
    BY <1>1, <1>4, <2>1, StoreFault DEF PutFault, TypeOK
  <2>3. sup.state \in LatchedStates /\ sup.fault # "NONE"
    BY <1>4 DEF PutFault, SafeInv, PendingWrite, FaultNamed, LatchedStates
  <2>4. QED
    BY <1>1, <1>4, <2>2, <2>3 DEF PutFault, SafeInv, FaultNamed,
       AuthorityWithdrawn, IncidentRecorded, PendingWrite, BootState
<1>5. CASE RemoveState
  <2>1. nvs'.fault = nvs.fault /\ ("state" \notin lost' => nvs'.state = "absent")
    BY <1>1, <1>5, StoreState DEF RemoveState, TypeOK
  <2>2. QED
    BY <1>1, <1>5, <2>1 DEF RemoveState, SafeInv, FaultNamed, AuthorityWithdrawn,
       IncidentRecorded, PendingWrite, BootState
<1>6. CASE RemoveFault
  <2>1. /\ nvs'.state = nvs.state /\ ("state" \in lost' <=> "state" \in lost)
        /\ nvs'.fault \in {nvs.fault, "absent"}
    BY <1>1, <1>6, StoreFault DEF RemoveFault, TypeOK
  <2>2. sup.state \in {"DISARMED", "ARMED"}
    BY <1>6 DEF RemoveFault, SafeInv, PendingWrite
  <2>3. QED
    BY <1>1, <1>6, <2>1, <2>2 DEF RemoveFault, SafeInv, FaultNamed,
       AuthorityWithdrawn, IncidentRecorded, PendingWrite, BootState,
       LatchedStates
<1>6a. CASE FlashClosed
  BY <1>1, <1>6a DEF FlashClosed, SafeInv, FaultNamed, AuthorityWithdrawn,
     IncidentRecorded, PendingWrite, BootState, NvsKey
<1>7. ASSUME NEW in \in Readings, CompleteBoot(in) PROVE SafeInv'
  <2> DEFINE n == Read(lost)
             t == BootCompleted(sup, in)
  <2>1. /\ sup = BeginWith(n) /\ ~booted /\ booted' /\ sup' = t
        /\ nvs' = nvs /\ lost' = lost
    BY <1>7 DEF CompleteBoot, SafeInv, BootState
  <2>2. /\ n \in NvsRecord
        /\ "state" \notin lost => n.state = nvs.state
        /\ lost = {} => n.fault = nvs.fault
        /\ n.fault # "NONE"
    BY <1>1, ReadType DEF TypeOK, SafeInv
  <2>3. BootOutcome(n, t)
    BY <1>1, <2>1, <2>2, BootOutcomes
  <2>4. nvsOp' = IF n.state = "absent" /\ t.state = "FAULT" THEN "putState"
                 ELSE "none"
    BY <1>7, <2>1, <2>2, <2>3
    DEF CompleteBoot, BeginWith, NvsRecord, LatchesAnew, LatchedStates, BootOutcome
  <2> HIDE DEF n, t
  <2>5. FaultNamed' /\ AuthorityWithdrawn' /\ BootState' /\ (nvs.fault # "NONE")'
    BY <2>1, <2>2, <2>3, <2>4 DEF SafeInv, BootOutcome, WellFormed, FaultNamed,
       AuthorityWithdrawn, BootState
  <2>6. IncidentRecorded' /\ PendingWrite'
    BY <2>1, <2>2, <2>3, <2>4 DEF BootOutcome, IncidentRecorded, PendingWrite,
       TornName, LatchedStates, NvsRecord
  <2>7. QED
    BY <1>1, <2>5, <2>6 DEF SafeInv
<1>8. ASSUME NEW in \in Readings, Update(in) PROVE SafeInv'
  BY <1>1, <1>2, <1>8, StampedType, UpdatedType, UpdatedConserves, BecomesSafe
  DEF Update
<1>9. ASSUME NEW in \in Readings, RequestArm(in) PROVE SafeInv'
  <2> DEFINE u == [sup EXCEPT !.inputs = Stamped(in)]
  <2>1. /\ sup.state \notin {"BOOT", "ESTOP"} /\ FaultForArm(u) = "NONE"
        /\ nvsOp = "none" /\ booted /\ booted'
    BY <1>9 DEF RequestArm, ArmGranted
  <2>2. u \in Supervisor /\ u.state = sup.state
    BY <1>1, StampedType, InputsType DEF Supervisor
  <2>3. sup' = [u EXCEPT !.state = "ARMED", !.fault = "NONE",
                         !.autonomyEnabled = FALSE, !.disarmRequested = FALSE]
    BY <1>9, <2>1, <2>2 DEF RequestArm, ArmRequested
  <2>4. /\ sup'.state = "ARMED" /\ sup'.fault = "NONE" /\ ~sup'.autonomyEnabled
        /\ ~sup'.disarmRequested
    BY <2>2, <2>3 DEF Supervisor
  <2>5. nvs' = nvs /\ lost' = lost /\ nvsOp' = "removeState"
    BY <1>9 DEF RequestArm
  <2>6. QED
    BY <1>1, <2>1, <2>4, <2>5 DEF SafeInv, FaultNamed, AuthorityWithdrawn,
       IncidentRecorded, PendingWrite, BootState
<1>10. ASSUME NEW in \in Readings, RefuseArm(in) PROVE SafeInv'
  BY <1>1, <1>2, <1>10, StampedType, ArmRequestedType, RefusedArmConserves,
     BecomesSafe
  DEF RefuseArm
<1>11. ASSUME NEW in \in Readings, ClearPhysicalEstop(in) PROVE SafeInv'
  <2> DEFINE u == [sup EXCEPT !.inputs = Stamped(in)]
  <2>1. sup.state = "ESTOP" /\ nvsOp = "none" /\ booted /\ booted' = booted
        /\ nvs' = nvs /\ lost' = lost
    BY <1>11 DEF ClearPhysicalEstop, SafeInv, BootState, BeginWith
  <2>3. u \in Supervisor
    BY <1>1, StampedType, InputsType
  <2>4. CASE EstopClearable(sup, Stamped(in))
    <3>1. sup' = [u EXCEPT !.state = "DISARMED", !.fault = "NONE",
                           !.disarmRequested = FALSE]
      BY <1>11, <2>4 DEF ClearPhysicalEstop, EstopCleared, EstopClearable
    <3>2. /\ sup'.state = "DISARMED" /\ sup'.fault = "NONE"
          /\ sup'.autonomyEnabled = sup.autonomyEnabled /\ ~sup'.disarmRequested
      BY <1>1, <2>3, <3>1 DEF Supervisor
    <3>3. nvsOp' = "removeState"
      BY <1>11, <2>4 DEF ClearPhysicalEstop
    <3>4. QED
      BY <1>1, <2>1, <3>2, <3>3 DEF SafeInv, FaultNamed, AuthorityWithdrawn,
         IncidentRecorded, PendingWrite, BootState
  <2>5. CASE ~EstopClearable(sup, Stamped(in))
    <3>1. sup' = u /\ nvsOp' = "none"
      BY <1>11, <2>5 DEF ClearPhysicalEstop, EstopCleared, EstopClearable
    <3>2. /\ sup'.state = sup.state /\ sup'.fault = sup.fault
          /\ sup'.autonomyEnabled = sup.autonomyEnabled
          /\ sup'.disarmRequested = sup.disarmRequested
      BY <1>1, <3>1 DEF Supervisor
    <3>3. QED
      BY <1>1, <2>1, <3>1, <3>2 DEF SafeInv, FaultNamed, AuthorityWithdrawn,
         IncidentRecorded, PendingWrite, BootState, LatchedStates
  <2>6. QED
    BY <2>4, <2>5
<1>12. CASE NotifyArmFailed
  <2>1. "DRIVE_UNAVAILABLE" \in SafetyFault \ {"NONE"}
    BY DEF SafetyFault
  <2>2. QED
    BY <1>1, <1>2, <1>12, <2>1, LatchFaultType, LatchFaultConserves, BecomesSafe
    DEF NotifyArmFailed
<1>13. CASE RequestDisarm
  BY <1>1, <1>2, <1>13, DisarmRequestedType, DisarmConserves, BecomesSafe
  DEF RequestDisarm
<1>14. ASSUME NEW forward \in BOOLEAN, NEW autonomous \in BOOLEAN,
              RequestDrive(forward, autonomous)
       PROVE  SafeInv'
  BY <1>1, <1>2, <1>14, DriveRequestedType, DriveConserves, BecomesSafe
  DEF RequestDrive, TypeOK
<1>15. ASSUME NEW enabled \in BOOLEAN, RequestAutonomy(enabled) PROVE SafeInv'
  BY <1>1, <1>2, <1>15, AutonomyRequestedType, AutonomyConserves, BecomesSafe
  DEF RequestAutonomy
<1>16. ASSUME NEW fault \in StopFaults, EmergencyStop(fault) PROVE SafeInv'
  <2>1. fault \in SafetyFault
    BY SupervisorAssumption
  <2>2. QED
    BY <1>1, <1>2, <1>16, <2>1, StoppedType, StopsConserve, BecomesSafe
    DEF EmergencyStop
<1>17. CASE PhysicalEstop
  <2>1. "PHYSICAL_ESTOP" \in SafetyFault
    BY DEF SafetyFault
  <2>2. QED
    BY <1>1, <1>2, <1>17, <2>1, StoppedType, StopsConserve, BecomesSafe
    DEF PhysicalEstop
<1>18. CASE ConsumeDisarmRequest
  BY <1>1, <1>18 DEF ConsumeDisarmRequest, SafeInv, FaultNamed, AuthorityWithdrawn,
     IncidentRecorded, PendingWrite, BootState, TornName, Supervisor
<1>19. CASE Tick
  <2>1. Read(lost)' = Read(lost)
    BY <1>19 DEF Tick, Read
  <2>2. QED
    BY <1>1, <1>19, <2>1 DEF Tick, SafeInv, FaultNamed, AuthorityWithdrawn,
       IncidentRecorded, PendingWrite, BootState, TornName
<1>20. ASSUME NEW unread \in SUBSET NvsKey, Restart(unread) PROVE SafeInv'
  <2>1. sup' = BeginWith(Read(lost))'
    BY <1>20 DEF Restart, Read, BeginWith
  <2>2. BootState'
    BY <1>20, <2>1 DEF Restart, BootState
  <2>3. /\ sup'.state = "BOOT" /\ ~sup'.autonomyEnabled /\ ~sup'.disarmRequested
        /\ nvs' = nvs /\ nvsOp' = "none" /\ ~booted'
    BY <1>20 DEF Restart, BeginWith
  <2>4. QED
    BY <1>1, <2>2, <2>3 DEF SafeInv, FaultNamed, AuthorityWithdrawn,
       IncidentRecorded, PendingWrite
<1>21. CASE UNCHANGED vars
  <2>1. Read(lost)' = Read(lost)
    BY <1>21 DEF vars, Read
  <2>2. QED
    BY <1>1, <1>21, <2>1 DEF vars, SafeInv, FaultNamed, AuthorityWithdrawn,
       IncidentRecorded, PendingWrite, BootState, TornName
<1>22. QED
  BY <1>3, <1>4, <1>5, <1>6, <1>7, <1>8, <1>9, <1>10, <1>11, <1>12, <1>13, <1>14,
     <1>15, <1>16, <1>17, <1>18, <1>19, <1>20, <1>21, <1>6a DEF Next

\* Flash and memory agree between calls wherever the flash answered, and always
\* every fault is named and authority is given up with the armed state, in every behaviour in which no boot lasts as
\* long as the E-stop hold.
THEOREM IncidentsRecorded ==
  ASSUME ~HoldFitsInBoot
  PROVE  Spec => []IncidentSafe
<1>1. SafeInv /\ [Next]_vars => SafeInv'
  BY SafeStep
<1>2. SafeInv => IncidentSafe
  BY DEF SafeInv, IncidentSafe
<1>3. QED
  BY <1>1, <1>2, SafeInit, PTL DEF Spec

-----------------------------------------------------------------------------
(* The supervisor implements SafetyLatch. *)

LatchStep == [Latch!Next]_(Latch!latchVars)

\* A step that touches neither incident nor record and grants no authority
\* withdraws or stutters.
LEMMA QuietStep ==
  ASSUME incidentBar' = incidentBar, recordBar' = recordBar,
         settledBar' = settledBar, armedBar' => armedBar
  PROVE  LatchStep
<1>1. armedBar \in BOOLEAN /\ armedBar' \in BOOLEAN
  BY DEF armedBar
<1>2. CASE armedBar' = armedBar
  BY <1>2 DEF LatchStep, Latch!latchVars
<1>3. CASE armedBar' # armedBar
  BY <1>1, <1>3 DEF LatchStep, Latch!Next, Latch!Withdraw
<1>4. QED
  BY <1>2, <1>3

\* A call that conserves reports an incident or is quiet.
LEMMA BecomesReports ==
  ASSUME booted, booted' = booted, NEW t, Conserves(sup, t), Becomes(t)
  PROVE  LatchStep
<1>1. nvsOp = "none" /\ nvs' = nvs /\ lost' = lost /\ sup' = t
  BY DEF Becomes
<1>2. recordBar' = recordBar
  BY <1>1 DEF recordBar
<1>3. CASE LatchesAnew(sup, t)
  <2>1. t.state \in LatchedStates /\ nvsOp' = "putState"
    BY <1>3 DEF Becomes, LatchesAnew
  <2>2. /\ armedBar' = FALSE /\ incidentBar' = t.state /\ settledBar' = FALSE
        /\ incidentBar = "ESTOP" => t.state = "ESTOP"
    BY <1>1, <2>1
    DEF armedBar, incidentBar, settledBar, Conserves, LatchedStates
  <2>3. Latch!Report(t.state)
    BY <1>2, <2>2 DEF Latch!Report
  <2>4. QED
    BY <2>1, <2>3 DEF LatchStep, Latch!Next, LatchedStates
<1>4. CASE ~LatchesAnew(sup, t)
  <2>1. nvsOp' = "none"
    BY <1>4 DEF Becomes
  <2>2. incidentBar' = incidentBar /\ (armedBar' => armedBar)
    BY <1>1, <1>4
    DEF incidentBar, armedBar, Conserves, LatchesAnew, LatchedStates
  <2>3. settledBar' = settledBar
    BY <1>1, <2>1 DEF settledBar
  <2>4. QED
    BY <1>2, <2>2, <2>3, QuietStep
<1>5. QED
  BY <1>3, <1>4

\* A flash access that leaves the state key alone is quiet.
LEMMA FaultKeyQuiet ==
  ASSUME sup' = sup, booted' = booted, nvs'.state = nvs.state,
         "state" \in lost' <=> "state" \in lost,
         nvsOp \notin {"putState", "removeState"},
         nvsOp' \notin {"putState", "removeState"}
  PROVE  LatchStep
<1>1. incidentBar' = incidentBar /\ armedBar' = armedBar /\ recordBar' = recordBar
  BY DEF incidentBar, armedBar, recordBar
<1>2. settledBar' = settledBar
  BY DEF settledBar
<1>3. QED
  BY <1>1, <1>2, QuietStep

\* An access to the state key writes what stands, or fails and changes nothing.
LEMMA StateKeyWrites ==
  ASSUME SafeInv, sup' = sup, booted' = booted, NEW value,
         value = IF sup.state \in LatchedStates THEN sup.state ELSE "absent",
         Store("state", value), nvsOp \in {"putState", "removeState"},
         nvsOp' \in {"putFault", "removeFault"}
  PROVE  LatchStep
<1>1. booted /\ incidentBar' = incidentBar /\ armedBar' = armedBar /\ ~settledBar
  BY DEF SafeInv, BootState, incidentBar, armedBar, settledBar
<1>2. CASE /\ nvs' = [nvs EXCEPT !["state"] = value]
           /\ lost' = lost \ {"state"}
  <2>1. nvs'.state = value
    BY <1>2 DEF SafeInv, TypeInv, TypeOK, NvsRecord
  <2>2. recordBar' = incidentBar /\ settledBar' = TRUE
    BY <1>1, <1>2, <2>1 DEF recordBar, incidentBar, settledBar, LatchedStates
  <2>3. QED
    BY <1>1, <2>2 DEF LatchStep, Latch!Next, Latch!Write
<1>3. CASE nvs' = nvs /\ lost' = lost \cup {"state"}
  <2>1. recordBar' = recordBar /\ settledBar' = settledBar
    BY <1>1, <1>3 DEF recordBar, settledBar
  <2>2. QED
    BY <1>1, <2>1, QuietStep
<1>4. QED
  BY <1>2, <1>3 DEF Store

\* A cold start is an initial state of the latch.
LEMMA LatchInit == Init => Latch!Init
BY DEF Init, BeginWith, Blank, LatchedStates, Latch!Init, armedBar, incidentBar,
       recordBar, settledBar

\* Every step of the supervisor is a step of the latch or leaves it alone.
LEMMA LatchNext ==
  ASSUME ~HoldFitsInBoot, SafeInv, [Next]_vars
  PROVE  LatchStep
<1>1. sup \in Supervisor /\ WellFormed(sup) /\ TypeOK
  BY DEF SafeInv, TypeInv, TypeOK, WellFormed, FaultNamed, AuthorityWithdrawn
<1>2. booted => sup.state # "BOOT"
  BY DEF SafeInv, BootState
<1>3. CASE PutState
  <2>1. sup.state \in LatchedStates
    BY <1>3 DEF PutState, SafeInv, PendingWrite
  <2>2. QED
    BY <1>3, <2>1, StateKeyWrites DEF PutState
<1>4. CASE PutFault
  <2>1. sup.fault \in {"absent"} \cup SafetyFault
    BY <1>1 DEF Supervisor
  <2>2. nvs'.state = nvs.state /\ ("state" \in lost' <=> "state" \in lost)
    BY <1>1, <1>4, <2>1, StoreFault DEF PutFault, TypeOK
  <2>3. QED
    BY <1>4, <2>2, FaultKeyQuiet DEF PutFault
<1>5. CASE RemoveState
  <2>1. sup.state \notin LatchedStates
    BY <1>5 DEF RemoveState, SafeInv, PendingWrite, LatchedStates
  <2>2. QED
    BY <1>5, <2>1, StateKeyWrites DEF RemoveState
<1>6. CASE RemoveFault
  <2>1. nvs'.state = nvs.state /\ ("state" \in lost' <=> "state" \in lost)
    BY <1>1, <1>6, StoreFault DEF RemoveFault, TypeOK
  <2>2. QED
    BY <1>6, <2>1, FaultKeyQuiet DEF RemoveFault
<1>6a. CASE FlashClosed
  <2>1. incidentBar' = incidentBar /\ armedBar' = armedBar /\ recordBar' = recordBar
    BY <1>6a DEF FlashClosed, incidentBar, armedBar, recordBar
  <2>2. settledBar' = settledBar
    BY <1>6a DEF FlashClosed, settledBar, NvsKey
  <2>3. QED
    BY <2>1, <2>2, QuietStep
<1>7. ASSUME NEW in \in Readings, CompleteBoot(in) PROVE LatchStep
  <2> DEFINE n == Read(lost)
             t == BootCompleted(sup, in)
  <2>1. /\ sup = BeginWith(n) /\ ~booted /\ booted' /\ sup' = t
        /\ nvs' = nvs /\ lost' = lost /\ nvsOp = "none"
    BY <1>7 DEF CompleteBoot, SafeInv, BootState
  <2>2. n \in NvsRecord /\ n.fault # "NONE"
    BY <1>1, ReadType DEF TypeOK, SafeInv
  <2>3. BootOutcome(n, t)
    BY <1>1, <2>1, <2>2, BootOutcomes
  <2>4. nvsOp' = IF n.state = "absent" /\ t.state = "FAULT" THEN "putState"
                 ELSE "none"
    BY <1>7, <2>1, <2>2, <2>3
    DEF CompleteBoot, BeginWith, NvsRecord, LatchesAnew, LatchedStates, BootOutcome
  <2>5. incidentBar = IF n.state = "absent" THEN "none" ELSE n.state
    BY <2>1, <2>2 DEF incidentBar, BeginWith, NvsRecord, LatchedStates
  <2> HIDE DEF n, t
  <2>6. recordBar' = recordBar
    BY <2>1 DEF recordBar
  <2>7. ~armedBar'
    BY <2>1, <2>2, <2>3 DEF armedBar, BootOutcome, NvsRecord, LatchedStates
  <2>8. CASE n.state = "absent" /\ t.state = "FAULT"
    <3>1. incidentBar' = "FAULT" /\ settledBar' = FALSE /\ incidentBar = "none"
      BY <2>1, <2>4, <2>5, <2>8 DEF incidentBar, settledBar, LatchedStates
    <3>2. Latch!Report("FAULT")
      BY <2>6, <2>7, <3>1 DEF Latch!Report, armedBar
    <3>3. QED
      BY <3>2 DEF LatchStep, Latch!Next
  <2>9. CASE ~(n.state = "absent" /\ t.state = "FAULT")
    <3>1. incidentBar' = incidentBar
      BY <2>1, <2>2, <2>3, <2>5, <2>9
      DEF incidentBar, BootOutcome, NvsRecord, LatchedStates
    <3>2. settledBar' = settledBar
      BY <2>1, <2>4, <2>9 DEF settledBar
    <3>3. QED
      BY <2>6, <2>7, <3>1, <3>2, QuietStep
  <2>10. QED
    BY <2>8, <2>9
<1>8. ASSUME NEW in \in Readings, Update(in) PROVE LatchStep
  BY <1>1, <1>2, <1>8, StampedType, UpdatedConserves, BecomesReports DEF Update
<1>9. ASSUME NEW in \in Readings, RequestArm(in) PROVE LatchStep
  <2> DEFINE u == [sup EXCEPT !.inputs = Stamped(in)]
  <2>1. /\ sup.state \notin {"BOOT", "ESTOP"} /\ FaultForArm(u) = "NONE"
        /\ booted /\ booted'
    BY <1>9 DEF RequestArm, ArmGranted
  <2>2. u \in Supervisor /\ u.state = sup.state
    BY <1>1, StampedType, InputsType DEF Supervisor
  <2>3. sup' = [u EXCEPT !.state = "ARMED", !.fault = "NONE",
                         !.autonomyEnabled = FALSE, !.disarmRequested = FALSE]
    BY <1>9, <2>1, <2>2 DEF RequestArm, ArmRequested
  <2>4. sup'.state = "ARMED"
    BY <2>2, <2>3 DEF Supervisor
  <2>5. incidentBar # "ESTOP" /\ incidentBar' = "none" /\ armedBar' = TRUE
    BY <2>1, <2>4 DEF incidentBar, armedBar, LatchedStates
  <2>6. recordBar' = recordBar /\ settledBar' = FALSE
    BY <1>9 DEF RequestArm, recordBar, settledBar
  <2>7. QED
    BY <2>5, <2>6 DEF LatchStep, Latch!Next, Latch!Arm
<1>10. ASSUME NEW in \in Readings, RefuseArm(in) PROVE LatchStep
  BY <1>1, <1>2, <1>10, StampedType, RefusedArmConserves, BecomesReports
  DEF RefuseArm
<1>11. ASSUME NEW in \in Readings, ClearPhysicalEstop(in) PROVE LatchStep
  <2> DEFINE u == [sup EXCEPT !.inputs = Stamped(in)]
  <2>1. /\ sup.state = "ESTOP" /\ nvsOp = "none" /\ booted /\ booted' = booted
        /\ nvs' = nvs /\ lost' = lost
    BY <1>11 DEF ClearPhysicalEstop, SafeInv, BootState, BeginWith
  <2>2. u \in Supervisor
    BY <1>1, StampedType, InputsType
  <2>3. recordBar' = recordBar /\ incidentBar = "ESTOP"
    BY <2>1 DEF recordBar, incidentBar, LatchedStates
  <2>4. CASE EstopClearable(sup, Stamped(in))
    <3>1. sup' = [u EXCEPT !.state = "DISARMED", !.fault = "NONE",
                           !.disarmRequested = FALSE]
      BY <1>11, <2>4 DEF ClearPhysicalEstop, EstopCleared, EstopClearable
    <3>2. sup'.state = "DISARMED"
      BY <2>2, <3>1 DEF Supervisor
    <3>3. incidentBar' = "none" /\ armedBar' = armedBar /\ settledBar' = FALSE
      BY <1>11, <2>1, <2>4, <3>2
      DEF ClearPhysicalEstop, incidentBar, armedBar, settledBar, LatchedStates
    <3>4. QED
      BY <2>3, <3>3 DEF LatchStep, Latch!Next, Latch!Reset
  <2>5. CASE ~EstopClearable(sup, Stamped(in))
    <3>1. sup' = u /\ nvsOp' = "none"
      BY <1>11, <2>5 DEF ClearPhysicalEstop, EstopCleared, EstopClearable
    <3>2. sup'.state = sup.state
      BY <1>1, <3>1 DEF Supervisor
    <3>3. /\ incidentBar' = incidentBar /\ armedBar' = armedBar
          /\ settledBar' = settledBar
      BY <2>1, <3>1, <3>2 DEF incidentBar, armedBar, settledBar, LatchedStates
    <3>4. QED
      BY <2>3, <3>3, QuietStep
  <2>6. QED
    BY <2>4, <2>5
<1>12. CASE NotifyArmFailed
  <2>1. "DRIVE_UNAVAILABLE" \in SafetyFault \ {"NONE"}
    BY DEF SafetyFault
  <2>2. QED
    BY <1>1, <1>2, <1>12, <2>1, LatchFaultConserves, BecomesReports
    DEF NotifyArmFailed
<1>13. CASE RequestDisarm
  BY <1>1, <1>2, <1>13, DisarmConserves, BecomesReports DEF RequestDisarm
<1>14. ASSUME NEW forward \in BOOLEAN, NEW autonomous \in BOOLEAN,
              RequestDrive(forward, autonomous)
       PROVE  LatchStep
  BY <1>1, <1>2, <1>14, DriveConserves, BecomesReports DEF RequestDrive
<1>15. ASSUME NEW enabled \in BOOLEAN, RequestAutonomy(enabled) PROVE LatchStep
  BY <1>1, <1>2, <1>15, AutonomyConserves, BecomesReports DEF RequestAutonomy
<1>16. ASSUME NEW fault \in StopFaults, EmergencyStop(fault) PROVE LatchStep
  <2>1. fault \in SafetyFault
    BY SupervisorAssumption
  <2>2. QED
    BY <1>1, <1>2, <1>16, <2>1, StopsConserve, BecomesReports DEF EmergencyStop
<1>17. CASE PhysicalEstop
  <2>1. "PHYSICAL_ESTOP" \in SafetyFault
    BY DEF SafetyFault
  <2>2. QED
    BY <1>1, <1>2, <1>17, <2>1, StopsConserve, BecomesReports DEF PhysicalEstop
<1>18. CASE ConsumeDisarmRequest
  <2>1. sup'.state = sup.state /\ sup'.restoredState = sup.restoredState
    BY <1>1, <1>18 DEF ConsumeDisarmRequest, Supervisor
  <2>2. /\ incidentBar' = incidentBar /\ armedBar' = armedBar
        /\ recordBar' = recordBar /\ settledBar' = settledBar
    BY <1>18, <2>1
    DEF ConsumeDisarmRequest, incidentBar, armedBar, recordBar, settledBar
  <2>3. QED
    BY <2>2, QuietStep
<1>19. CASE Tick
  <2>1. /\ incidentBar' = incidentBar /\ armedBar' = armedBar
        /\ recordBar' = recordBar /\ settledBar' = settledBar
    BY <1>19 DEF Tick, incidentBar, armedBar, recordBar, settledBar
  <2>2. QED
    BY <2>1, QuietStep
<1>20. ASSUME NEW unread \in SUBSET NvsKey, Restart(unread) PROVE LatchStep
  <2>1. /\ sup' = BeginWith(Read(unread)) /\ ~booted' /\ nvs' = nvs
        /\ lost' = unread /\ nvsOp' = "none"
    BY <1>20 DEF Restart
  <2>2. /\ Read(unread) \in NvsRecord
        /\ Read(unread).state = IF "state" \in unread THEN "absent" ELSE nvs.state
    BY <1>1, ReadType DEF TypeOK
  <2>3. recordBar' = recordBar /\ armedBar' = FALSE
    BY <2>1 DEF recordBar, armedBar, BeginWith
  <2>4. incidentBar' = IF "state" \in unread THEN "none" ELSE recordBar
    BY <1>1, <2>1, <2>2
    DEF incidentBar, recordBar, BeginWith, LatchedStates, TypeOK, NvsRecord
  <2>5. settledBar' = ("state" \notin unread)
    BY <2>1 DEF settledBar
  <2>6. Latch!Restart
    BY <2>3, <2>4, <2>5 DEF Latch!Restart
  <2>7. QED
    BY <2>6 DEF LatchStep, Latch!Next
<1>21. CASE UNCHANGED vars
  <2>1. /\ incidentBar' = incidentBar /\ armedBar' = armedBar
        /\ recordBar' = recordBar /\ settledBar' = settledBar
    BY <1>21 DEF vars, incidentBar, armedBar, recordBar, settledBar
  <2>2. QED
    BY <2>1, QuietStep
<1>22. QED
  BY <1>3, <1>4, <1>5, <1>6, <1>6a, <1>7, <1>8, <1>9, <1>10, <1>11, <1>12, <1>13,
     <1>14, <1>15, <1>16, <1>17, <1>18, <1>19, <1>20, <1>21 DEF Next

\* The supervisor with its flash record and restarts implements the abstract
\* latch, with a flash that may fail at every access: no reboot that can read the
\* record loses an incident that reached it, only an explicit arm settles a fault
\* and only the reset chord an emergency stop, if no boot lasts as long as the
\* hold.
THEOREM ImplementsLatch ==
  ASSUME ~HoldFitsInBoot
  PROVE  Spec => LatchSpec
<1>1. SafeInv /\ [Next]_vars => SafeInv'
  BY SafeStep
<1>2. SafeInv /\ [Next]_vars => [Latch!Next]_(Latch!latchVars)
  BY LatchNext DEF LatchStep
<1>3. QED
  BY <1>1, <1>2, SafeInit, LatchInit, PTL DEF Spec, LatchSpec, Latch!Spec
-----------------------------------------------------------------------------
(* Manual precedence.  The history variable and the deadline agree about how *)
(* much of an override is left: the deadline lies as far ahead of the clock, *)
(* or has wrapped with it.                                                   *)

OverrideLeft == ManualOverrideMs - sinceManual

OverrideInv ==
  /\ sinceManual \in 0 .. ManualOverrideMs
  /\ sup.state # "ARMED" => sinceManual = ManualOverrideMs
  /\ sup.state = "ARMED" /\ sinceManual < ManualOverrideMs =>
       sup.manualOverrideUntilMs \in {now + OverrideLeft,
                                      now + OverrideLeft - ClockModulus}

\* What uint32_t arithmetic does within one turn of the clock, and one beyond.
LEMMA ClockWraps ==
  ASSUME NEW x \in 0 .. 2 * ClockModulus - 1
  PROVE  x % ClockModulus = IF x < ClockModulus THEN x ELSE x - ClockModulus
<1>1. CASE x < ClockModulus
  BY <1>1, PolicyAssumption
<1>2. CASE ~(x < ClockModulus)
  BY <1>2, PolicyAssumption
<1>3. QED
  BY <1>1, <1>2

LEMMA ElapsedWraps ==
  ASSUME NEW t \in Clock, NEW u \in Clock
  PROVE  Elapsed(t, u) = IF u <= t THEN t - u ELSE t - u + ClockModulus
<1>1. CASE u <= t
  BY <1>1, PolicyAssumption DEF Elapsed, Clock
<1>2. CASE ~(u <= t)
  BY <1>2, PolicyAssumption DEF Elapsed, Clock
<1>3. QED
  BY <1>1, <1>2

\* What a call can do to the deadline of a supervisor that stays armed.
KeepsOverride(s, t) ==
  s.state = "ARMED" /\ t.state = "ARMED" =>
    t.manualOverrideUntilMs = s.manualOverrideUntilMs

\* A latched supervisor is not armed (latchFault).
LEMMA LatchFaultDisarms ==
  ASSUME NEW s \in Supervisor, NEW fault
  PROVE  LatchFault(s, fault).state # "ARMED"
BY DEF LatchFault, Supervisor

LEMMA CallsKeepOverride ==
  ASSUME NEW s \in Supervisor, NEW in \in SafetyInputs, NEW fault, NEW enabled,
         NEW t
  PROVE  /\ KeepsOverride(s, Updated(s, in, t))
         /\ KeepsOverride(s, ArmRequested(s, in))
         /\ KeepsOverride(s, DisarmRequested(s))
         /\ KeepsOverride(s, AutonomyRequested(s, enabled, t))
         /\ KeepsOverride(s, EmergencyStopped(s, fault))
         /\ KeepsOverride(s, PhysicallyStopped(s))
         /\ KeepsOverride(s, EstopCleared(s, in))
<1> DEFINE u == [s EXCEPT !.inputs = in]
<1>1. u \in Supervisor /\ u.state = s.state
      /\ u.manualOverrideUntilMs = s.manualOverrideUntilMs
  BY DEF Supervisor
<1>2. \A f : LatchFault(u, f).state # "ARMED" /\ LatchFault(s, f).state # "ARMED"
  BY <1>1, LatchFaultDisarms
<1>3. KeepsOverride(s, Updated(s, in, t))
  BY <1>1, <1>2 DEF Updated, KeepsOverride
<1>4. KeepsOverride(s, ArmRequested(s, in))
  <2>1. KeepsOverride(s, [u EXCEPT !.state = "ARMED", !.fault = "NONE",
                            !.autonomyEnabled = FALSE, !.disarmRequested = FALSE])
    BY <1>1 DEF KeepsOverride, Supervisor
  <2>2. KeepsOverride(s, u)
    BY <1>1 DEF KeepsOverride
  <2>3. QED
    BY <1>2, <2>1, <2>2 DEF ArmRequested, KeepsOverride
<1>5. KeepsOverride(s, DisarmRequested(s))
  BY DEF DisarmRequested, KeepsOverride, Supervisor, LatchedStates
<1>6. KeepsOverride(s, AutonomyRequested(s, enabled, t))
  <2>1. \A b : KeepsOverride(s, [s EXCEPT !.autonomyEnabled = b])
    BY DEF KeepsOverride, Supervisor
  <2>2. KeepsOverride(s, s)
    BY DEF KeepsOverride
  <2>3. QED
    BY <1>2, <2>1, <2>2 DEF AutonomyRequested, KeepsOverride
<1>7. KeepsOverride(s, EmergencyStopped(s, fault))
  BY <1>2 DEF EmergencyStopped, KeepsOverride
<1>8. KeepsOverride(s, PhysicallyStopped(s))
  BY DEF PhysicallyStopped, KeepsOverride, Supervisor
<1>9. KeepsOverride(s, EstopCleared(s, in))
  BY <1>1 DEF EstopCleared, KeepsOverride, Supervisor
<1>10. QED
  BY <1>3, <1>4, <1>5, <1>6, <1>7, <1>8, <1>9

\* Only a granted manual drive moves the deadline, and to its full distance
\* (requestDrive).
LEMMA DriveMovesOverride ==
  ASSUME NEW s \in Supervisor, NEW forward, NEW autonomous, NEW t \in Clock
  PROVE  \/ KeepsOverride(s, DriveRequested(s, forward, autonomous, t))
         \/ DriveRequested(s, forward, autonomous, t).manualOverrideUntilMs =
              (t + ManualOverrideMs) % ClockModulus
<1> DEFINE fault == FaultForDrive(s.inputs, forward, autonomous, t)
           granted == [s EXCEPT !.manualOverrideUntilMs =
                                  (t + ManualOverrideMs) % ClockModulus]
<1>1. KeepsOverride(s, s)
  BY DEF KeepsOverride
<1>2. KeepsOverride(s, LatchFault(s, fault))
  BY LatchFaultDisarms DEF KeepsOverride
<1>3. granted.manualOverrideUntilMs = (t + ManualOverrideMs) % ClockModulus
  BY DEF Supervisor
<1>4. QED
  BY <1>1, <1>2, <1>3 DEF DriveRequested

\* A step of a supervisor that is armed before and after it: time passes, or
\* the deadline is kept, or it is set anew.
LEMMA ArmedStep ==
  ASSUME TypeInv, [Next]_vars, sup.state = "ARMED", sup'.state = "ARMED"
  PROVE  \/ sup' = sup /\ now' = (now + 1) % ClockModulus
         \/ /\ now' = now
            /\ sup'.manualOverrideUntilMs
                 \in {sup.manualOverrideUntilMs,
                      (now + ManualOverrideMs) % ClockModulus}
<1> DEFINE Kept == now' = now /\ KeepsOverride(sup, sup')
<1>1. TypeOK /\ sup \in Supervisor /\ now \in Clock
  BY DEF TypeInv, TypeOK
<1>2. \A in \in Readings : Stamped(in) \in SafetyInputs
  BY <1>1, StampedType
<1>3. NoInputs \in SafetyInputs
  <2>1. 0 \in Clock
    BY PolicyAssumption DEF Clock
  <2>2. QED
    BY <2>1 DEF NoInputs, SafetyInputs, ImuSample
<1>4. CASE \/ PutState \/ PutFault \/ RemoveState \/ RemoveFault \/ FlashClosed
           \/ UNCHANGED vars
  BY <1>4 DEF PutState, PutFault, RemoveState, RemoveFault, FlashClosed, vars
<1>5. ASSUME NEW in \in Readings, CompleteBoot(in) PROVE FALSE
  <2> DEFINE u == [sup EXCEPT !.inputs = [in EXCEPT !.bootComplete = TRUE]]
  <2>1. [in EXCEPT !.bootComplete = TRUE] \in SafetyInputs
    BY SupervisorAssumption DEF SafetyInputs
  <2>2. u \in Supervisor
    BY <1>1, <2>1, InputsType
  <2>3. BootCompleted(sup, in).state # "ARMED"
    <3> HIDE DEF u
    <3>1. /\ [u EXCEPT !.state = "ESTOP", !.fault = "PHYSICAL_ESTOP",
                       !.disarmRequested = TRUE].state # "ARMED"
          /\ \A cause : [u EXCEPT !.state = "FAULT", !.fault = cause,
                                  !.disarmRequested = TRUE].state # "ARMED"
          /\ LatchFault(u, FaultForArm(u)).state # "ARMED"
          /\ [u EXCEPT !.state = "DISARMED", !.fault = "NONE"].state # "ARMED"
      BY <2>2, LatchFaultDisarms DEF Supervisor
    <3>2. QED
      BY <3>1 DEF BootCompleted, u
  <2>4. QED
    BY <1>5, <2>3 DEF CompleteBoot
<1>6. ASSUME NEW in \in Readings,
             Update(in) \/ RequestArm(in) \/ RefuseArm(in) \/ ClearPhysicalEstop(in)
      PROVE  Kept
  BY <1>1, <1>2, <1>6, CallsKeepOverride
  DEF Update, RequestArm, RefuseArm, ClearPhysicalEstop, Becomes
<1>7. CASE NotifyArmFailed
  BY <1>1, <1>7, LatchFaultDisarms DEF NotifyArmFailed, Becomes
<1>8. CASE RequestDisarm \/ PhysicalEstop
  BY <1>1, <1>3, <1>8, CallsKeepOverride
  DEF RequestDisarm, PhysicalEstop, Becomes, KeepsOverride
<1>9. ASSUME NEW forward \in BOOLEAN, NEW autonomous \in BOOLEAN,
             RequestDrive(forward, autonomous)
      PROVE  \/ Kept
             \/ /\ now' = now
                /\ sup'.manualOverrideUntilMs =
                     (now + ManualOverrideMs) % ClockModulus
  BY <1>1, <1>9, DriveMovesOverride DEF RequestDrive, Becomes
<1>10. ASSUME NEW enabled \in BOOLEAN, RequestAutonomy(enabled) PROVE Kept
  BY <1>1, <1>3, <1>10, CallsKeepOverride DEF RequestAutonomy, Becomes
<1>11. ASSUME NEW fault \in StopFaults, EmergencyStop(fault) PROVE Kept
  BY <1>1, <1>3, <1>11, CallsKeepOverride DEF EmergencyStop, Becomes
<1>12. CASE ConsumeDisarmRequest
  BY <1>1, <1>12 DEF ConsumeDisarmRequest, Supervisor
<1>13. CASE Tick
  BY <1>13 DEF Tick
<1>14. ASSUME NEW unread \in SUBSET NvsKey, Restart(unread) PROVE FALSE
  BY <1>14 DEF Restart, BeginWith
<1>15. QED
  BY <1>4, <1>5, <1>6, <1>7, <1>8, <1>9, <1>10, <1>11, <1>12, <1>13, <1>14
  DEF Next, KeepsOverride

LEMMA OverrideStep ==
  ASSUME 2 * ManualOverrideMs <= ClockModulus,
         TypeInv, OverrideInv, [MCNext]_mcVars
  PROVE  OverrideInv'
<1>1. now \in Clock /\ sup \in Supervisor /\ sup.manualOverrideUntilMs \in Clock
  BY DEF TypeInv, TypeOK, Supervisor
<1>2. ManualOverrideMs \in Nat /\ ClockModulus \in Nat \ {0}
      /\ sinceManual \in 0 .. ManualOverrideMs
  BY PolicyAssumption DEF OverrideInv
<1>3. CASE UNCHANGED mcVars
  BY <1>3 DEF mcVars, OverrideInv, OverrideLeft
<1>4. CASE MCNext
  <2>1. SinceManualNext /\ [Next]_vars
    BY <1>4 DEF MCNext
  <2>2. CASE sup'.state # "ARMED"
    BY <1>2, <2>1, <2>2 DEF SinceManualNext, ManualDriveGranted, OverrideInv
  <2>3. CASE sup'.state = "ARMED" /\ sup.state # "ARMED"
    <3>1. sinceManual = ManualOverrideMs
      BY <2>3 DEF OverrideInv
    <3>2. sinceManual' = ManualOverrideMs
      BY <1>2, <2>1, <2>3, <3>1 DEF SinceManualNext, ManualDriveGranted
    <3>3. QED
      BY <1>2, <2>3, <3>2 DEF OverrideInv
  <2>4. CASE /\ sup'.state = "ARMED" /\ sup.state = "ARMED" /\ sup' = sup
             /\ now' = (now + 1) % ClockModulus
    <3>1. ~ManualDriveGranted
      BY <2>4 DEF ManualDriveGranted
    <3>2. now' = IF now + 1 < ClockModulus THEN now + 1 ELSE now + 1 - ClockModulus
      BY <1>1, <1>2, <2>4, ClockWraps DEF Clock
    <3>3. CASE now' = now \/ ~(sinceManual < ManualOverrideMs)
      <4>1. sinceManual' = sinceManual
        BY <2>1, <2>4, <3>1, <3>3 DEF SinceManualNext
      <4>2. now' = now => ClockModulus = 1
        BY <1>1, <1>2, <3>2 DEF Clock
      <4>3. ~(sinceManual < ManualOverrideMs)
        BY <1>2, <3>3, <4>2
      <4>4. QED
        BY <1>2, <2>4, <4>1, <4>3 DEF OverrideInv
    <3>4. CASE now' # now /\ sinceManual < ManualOverrideMs
      <4>1. sinceManual' = sinceManual + 1
        BY <2>1, <2>4, <3>1, <3>4 DEF SinceManualNext
      <4>2. sup.manualOverrideUntilMs \in {now + OverrideLeft,
                                           now + OverrideLeft - ClockModulus}
        BY <2>4, <3>4 DEF OverrideInv
      <4>3. sinceManual' < ManualOverrideMs =>
              sup.manualOverrideUntilMs
                \in {now' + (ManualOverrideMs - sinceManual'),
                     now' + (ManualOverrideMs - sinceManual') - ClockModulus}
        BY <1>1, <1>2, <3>2, <4>1, <4>2 DEF OverrideLeft, Clock
      <4>4. QED
        BY <1>2, <2>4, <3>4, <4>1, <4>3 DEF OverrideInv, OverrideLeft
    <3>5. QED
      BY <3>3, <3>4
  <2>5. CASE /\ sup'.state = "ARMED" /\ sup.state = "ARMED" /\ now' = now
             /\ sup'.manualOverrideUntilMs = sup.manualOverrideUntilMs
    <3>1. sinceManual' = sinceManual
      BY <2>1, <2>5 DEF SinceManualNext, ManualDriveGranted
    <3>2. QED
      BY <2>5, <3>1 DEF OverrideInv, OverrideLeft
  <2>6. CASE /\ sup'.state = "ARMED" /\ sup.state = "ARMED" /\ now' = now
             /\ sup'.manualOverrideUntilMs # sup.manualOverrideUntilMs
             /\ sup'.manualOverrideUntilMs = (now + ManualOverrideMs) % ClockModulus
    <3>1. sinceManual' = 0
      BY <2>1, <2>6 DEF SinceManualNext, ManualDriveGranted
    <3>2. sup'.manualOverrideUntilMs
            \in {now + ManualOverrideMs, now + ManualOverrideMs - ClockModulus}
      BY <1>1, <1>2, <2>6, ClockWraps DEF Clock
    <3>3. QED
      BY <1>2, <2>6, <3>1, <3>2 DEF OverrideInv, OverrideLeft
  <2>7. QED
    BY <2>1, <2>2, <2>3, <2>4, <2>5, <2>6, ArmedStep
<1>5. QED
  BY <1>3, <1>4

\* A granted manual drive keeps the autonomy out for the whole override time,
\* also across the wrap of millis(), as long as the override is no longer than
\* half a turn of the clock, which is what the signed difference can tell
\* (requestDrive, autonomyMotionAllowed).
THEOREM ManualDriveIsProtected ==
  ASSUME 2 * ManualOverrideMs <= ClockModulus
  PROVE  MCSpec => []ManualPrecedence
<1>1. MCInit => TypeInv /\ OverrideInv
  <2>1. MCInit => TypeInv
    BY TypeInit DEF MCInit
  <2>2. MCInit => OverrideInv
    BY PolicyAssumption DEF MCInit, Init, OverrideInv, BeginWith
  <2>3. QED
    BY <2>1, <2>2
<1>2. TypeInv /\ OverrideInv /\ [MCNext]_mcVars => (TypeInv /\ OverrideInv)'
  <2>1. [MCNext]_mcVars => [Next]_vars
    BY DEF MCNext, mcVars, vars
  <2>2. QED
    BY <2>1, TypeStep, OverrideStep
<1>3. TypeInv /\ OverrideInv => ManualPrecedence
  <2> SUFFICES ASSUME TypeInv, OverrideInv, AutonomyMotionAllowed(sup, now),
                      ~(sinceManual >= ManualOverrideMs)
               PROVE  FALSE
    BY DEF ManualPrecedence
  <2>1. now \in Clock /\ sup.manualOverrideUntilMs \in Clock
    BY DEF TypeInv, TypeOK, Supervisor
  <2>2. /\ ManualOverrideMs \in Nat /\ ClockModulus \in Nat \ {0}
        /\ sinceManual \in 0 .. ManualOverrideMs
    BY PolicyAssumption DEF OverrideInv
  <2>3. sup.state = "ARMED" /\ Reached(now, sup.manualOverrideUntilMs)
    BY DEF AutonomyMotionAllowed
  <2>4. sup.manualOverrideUntilMs \in {now + OverrideLeft,
                                       now + OverrideLeft - ClockModulus}
    BY <2>2, <2>3 DEF OverrideInv
  <2>5. Elapsed(now, sup.manualOverrideUntilMs) = ClockModulus - OverrideLeft
    BY <2>1, <2>2, <2>4, ElapsedWraps DEF OverrideLeft, Clock
  <2>6. QED
    BY <2>2, <2>3, <2>5 DEF Reached, OverrideLeft
<1>4. QED
  BY <1>1, <1>2, <1>3, PTL DEF MCSpec

=============================================================================

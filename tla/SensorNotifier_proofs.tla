------------------------ MODULE SensorNotifier_proofs ------------------------
(***************************************************************************)
(* TLAPS proofs of the safety properties of SensorNotifier, for every      *)
(* number of paths, every sensor list and every set of faults.             *)
(***************************************************************************)
EXTENDS SensorNotifier, TLAPS

USE DEF driverVars, serviceVars, queueVars, ownerVars, memberVars, threadVars,
        notThread, notOwner

\* A handle that initializeSensorQueue takes from the service's list is a number.
LEMMA HandleType ==
  ASSUME catalogue \in Catalogues, NEW i \in DOMAIN catalogue
  PROVE  catalogue[i].handle \in Nat
<1>1. catalogue \in Seq(Sensor)
  BY CataloguesAssumption
<1>2. catalogue[i] \in Sensor
  BY <1>1
<1> QED
  BY <1>2 DEF Sensor

\* What a crash of the process leaves behind.
LEMMA CrashType ==
  ASSUME NEW c \in Causes, Crash(c)
  PROVE  proc' \in {"up"} \cup Causes /\ bound' \in BOOLEAN /\ enabled' \subseteq Int
BY DEF Crash

\* The service's answer to enableSensor and disableSensor keeps the set of
\* enabled handles a set of handles.
LEMMA CallType ==
  ASSUME enabled \subseteq Int, NEW h \in Int, EnableSensor(h) \/ DisableSensor(h)
  PROVE  enabled' \subseteq Int /\ lostCall' \in BOOLEAN
<1>1. enabled' \subseteq Int
  BY DEF EnableSensor, DisableSensor
<1>2. lostCall' = FALSE \/ lostCall' = (h \in enabled) \/ lostCall' = (h \notin enabled)
  BY DEF EnableSensor, DisableSensor
<1>3. (h \in enabled) \in BOOLEAN /\ (h \notin enabled) \in BOOLEAN
  OBVIOUS
<1>4. lostCall' \in BOOLEAN
  BY <1>2, <1>3
<1> QED
  BY <1>1, <1>4

\* Every step of the driver, the service, the owner and the notify thread keeps
\* the types of all variables.
LEMMA TypeStep == TypeOK /\ [Next]_vars => TypeOK'
<1> SUFFICES ASSUME TypeOK, [Next]_vars PROVE TypeOK'
  OBVIOUS
<1> USE NumPathsAssumption DEF TypeOK, Paths, Causes, OwnerStates, ThreadStates,
        InitResults
<1>1. ASSUME NEW p \in Paths, DriverStore(p) PROVE TypeOK'
  BY <1>1 DEF DriverStore
<1>2. ASSUME NEW p \in Paths, DriverNotify(p) PROVE TypeOK'
  BY <1>2 DEF DriverNotify
<1>3. CASE ServiceDies
  <2>1. serviceUp' \in BOOLEAN /\ bound' \in BOOLEAN
    BY <1>3 DEF ServiceDies
  <2> QED
    BY <1>3, <2>1 DEF ServiceDies
<1>4. CASE Construct
  <2>1. CASE serviceUp
    <3>1. bound' \in BOOLEAN /\ mQueue' \in BOOLEAN
      BY <1>4, <2>1 DEF Construct, ConstructWith, InitializeSensorQueue, GetSensorListFails,
         SensorNotExist, CreateEventQueue, QueueStored
    <3>2. mSensorHandle' \in Int
      BY <1>4, <2>1, HandleType DEF Construct, ConstructWith, InitializeSensorQueue,
         GetSensorListFails, SensorNotExist, CreateEventQueue, QueueStored
    <3>3. initRes' \in InitResults /\ UNCHANGED enabled
      BY <1>4, <2>1 DEF Construct, ConstructWith, InitializeSensorQueue, GetSensorListFails,
         SensorNotExist, CreateEventQueue, QueueStored
    <3> QED
      BY <1>4, <2>1, <3>1, <3>2, <3>3 DEF Construct, ConstructWith
  <2>2. CASE ~serviceUp
    BY <1>4, <2>2, CrashType DEF Construct, ConstructWith
  <2> QED
    BY <2>1, <2>2
<1>5. CASE Activate
  <2>1. mActive' \in BOOLEAN /\ joinable' \in BOOLEAN
    BY <1>5 DEF Activate
  <2>2. CASE joinable
    BY <1>5, <2>1, <2>2, CrashType DEF Activate
  <2>3. CASE ~joinable
    <3>1. UNCHANGED <<proc, bound, enabled>> /\ pc' = "open" /\ path' = 1
      BY <1>5, <2>3 DEF Activate
    <3> QED
      BY <1>5, <2>1, <3>1 DEF Activate
  <2> QED
    BY <2>2, <2>3
<1>6. CASE Deactivate
  <2>1. mActive' \in BOOLEAN
    BY <1>6 DEF Deactivate, AfterClearingActive
  <2> QED
    BY <1>6, <2>1 DEF Deactivate, AfterClearingActive
<1>7. CASE Destroy
  <2>1. mActive' \in BOOLEAN /\ destroying' \in BOOLEAN
    BY <1>7 DEF Destroy, DestroyBegins
  <2> QED
    BY <1>7, <2>1 DEF Destroy, DestroyBegins
<1>8. CASE Join
  <2>1. joinable' \in BOOLEAN
    BY <1>8 DEF Join, AfterDeactivate
  <2> QED
    BY <1>8, <2>1 DEF Join, AfterDeactivate
<1>9. CASE Disable
  <2>1. CASE bound
    BY <1>9, <2>1, CallType DEF Disable, AfterDeactivate
  <2>2. CASE ~bound
    BY <1>9, <2>2, CrashType DEF Disable
  <2> QED
    BY <2>1, <2>2
<1>10. CASE ClearQueue
  <2>1. mQueue' \in BOOLEAN /\ bound' \in BOOLEAN
    BY <1>10 DEF ClearQueue
  <2> QED
    BY <1>10, <2>1 DEF ClearQueue
<1>11. CASE DestroyMembers
  <2>1. CASE joinable
    BY <1>11, <2>1, CrashType DEF DestroyMembers
  <2>2. CASE ~joinable
    <3>1. UNCHANGED <<proc, bound, enabled>> /\ owner' = "gone"
      BY <1>11, <2>2 DEF DestroyMembers
    <3> QED
      BY <1>11, <3>1 DEF DestroyMembers
  <2> QED
    BY <2>1, <2>2
<1>12. CASE Open
  BY <1>12 DEF Open, At, Local
<1>13. CASE Loop
  BY <1>13 DEF Loop, LoopTest, At, Local
<1>14. CASE Poll
  <2>1. on' \in BOOLEAN /\ ioErr' \in BOOLEAN
    BY <1>14 DEF Poll, At, Local
  <2> QED
    BY <1>14, <2>1 DEF Poll, At, Local
<1>15. CASE ReadConsume
  BY <1>15 DEF ReadConsume, Consumed, At, Local
<1>16. CASE ReadValue
  <2>1. on' \in BOOLEAN
    BY <1>16 DEF ReadValue, EndRead, ReadBool
  <2>2. path' \in Paths /\ pc' \in ThreadStates
    BY <1>16 DEF ReadValue, EndRead, PassEnds
  <2> QED
    BY <1>16, <2>1, <2>2 DEF ReadValue, Local
<1>17. CASE Apply
  <2>1. CASE mQueue /\ bound
    BY <1>17, <2>1, CallType DEF Apply, TransportError, CallSensor
  <2>2. CASE ~(mQueue /\ bound)
    BY <1>17, <2>2, CrashType DEF Apply, TransportError
  <2> QED
    BY <2>1, <2>2
<1>18. CASE OpenFails
  <2>1. mActive' \in BOOLEAN /\ openFailed' \in BOOLEAN
    BY <1>18 DEF OpenFails, At
  <2> QED
    BY <1>18, <2>1 DEF OpenFails, At
<1>19. CASE PollFails
  BY <1>19 DEF PollFails, At, Local
<1>20. CASE ReadFails
  <2>1. on' \in BOOLEAN /\ ioErr' \in BOOLEAN
    BY <1>20 DEF ReadFails, EndRead
  <2>2. path' \in Paths /\ pc' \in ThreadStates
    BY <1>20 DEF ReadFails, EndRead, PassEnds
  <2>3. unread' \in [Paths -> BOOLEAN]
    BY <1>20 DEF ReadFails
  <2> QED
    BY <1>20, <2>1, <2>2, <2>3 DEF ReadFails, Local
<1>21. CASE UNCHANGED vars
  BY <1>21 DEF vars
<1> QED
  BY <1>1, <1>2, <1>3, <1>4, <1>5, <1>6, <1>7, <1>8, <1>9, <1>10, <1>11,
     <1>12, <1>13, <1>14, <1>15, <1>16, <1>17, <1>18, <1>19, <1>20, <1>21
     DEF Next, Driver, OwnerCalls, OwnerContinues, ThreadRuns, ThreadFaults

\* Initially every variable is in its set.
LEMMA TypeInit == Init => TypeOK
<1>1. Init => path \in Paths /\ mSensorHandle \in Int
  BY NumPathsAssumption DEF Init, Paths
<1> QED
  BY <1>1 DEF Init, TypeOK, Causes, OwnerStates, ThreadStates, InitResults

\* The type invariant of SensorNotifier, its notify thread and its environment.
THEOREM TypeCorrect == Spec => []TypeOK
BY TypeInit, TypeStep, PTL DEF Spec

-----------------------------------------------------------------------------
(* What is enabled, on which queue.                                        *)

\* A crash keeps what is said of the queue: nothing is enabled any more.
LEMMA CrashQueue ==
  ASSUME QueueInv, NEW c \in Causes, Crash(c),
         UNCHANGED <<mQueue, initRes, owner>>
  PROVE  QueueInv'
BY DEF QueueInv, Crash

\* enableSensor and disableSensor through a live queue touch one handle only.
LEMMA CallQueue ==
  ASSUME QueueInv, bound,
         EnableSensor(mSensorHandle) \/ DisableSensor(mSensorHandle),
         UNCHANGED <<mSensorHandle, bound, mQueue, initRes, catalogue>>,
         owner' \in {"new", "members", "gone"} \/ owner \notin {"new", "members", "gone"}
  PROVE  QueueInv'
<1>1. enabled' \subseteq {mSensorHandle'}
  BY DEF QueueInv, EnableSensor, DisableSensor
<1>2. bound' /\ mQueue' /\ IsChosen(mSensorHandle)'
  BY DEF QueueInv, IsChosen
<1> QED
  BY <1>1, <1>2 DEF QueueInv

\* The queue part of the inductive invariant.
LEMMA QueueStep == TypeOK /\ QueueInv /\ ThreadInv /\ [Next]_vars => QueueInv'
<1> SUFFICES ASSUME TypeOK, QueueInv, ThreadInv, [Next]_vars PROVE QueueInv'
  OBVIOUS
<1> DEFINE Late == {"new", "members", "gone"}
<1>0. ASSUME UNCHANGED <<catalogue, enabled, bound, memberVars, initRes>>,
             owner' \in Late \/ owner \notin Late
      PROVE  QueueInv'
  BY <1>0 DEF QueueInv, IsChosen
<1>1. CASE Driver
  BY <1>1, <1>0 DEF Driver, DriverStore, DriverNotify
<1>2. CASE ServiceDies
  BY <1>2 DEF ServiceDies, QueueInv
<1>3. CASE Construct
  <2>1. CASE ~serviceUp
    BY <1>3, <2>1, CrashQueue DEF Construct, ConstructWith, Causes
  <2>2. CASE GetSensorListFails \/ SensorNotExist
    BY <1>3, <2>2 DEF Construct, ConstructWith, GetSensorListFails, SensorNotExist, QueueInv,
       IsChosen, InitResults
  <2>3. ASSUME NEW i \in DOMAIN catalogue, CreateEventQueue(i), serviceUp
        PROVE  QueueInv'
    <3>1. enabled' = {} /\ (bound' <=> mQueue')
      BY <1>3, <2>3 DEF Construct, ConstructWith, CreateEventQueue, QueueStored, ThreadInv
    <3>2. mQueue' \/ initRes' \in InitResults \ {"none", "OK"}
      BY <2>3 DEF CreateEventQueue, QueueStored, InitResults
    <3>3. IsChosen(mSensorHandle)'
      BY <1>3, <2>3 DEF Construct, ConstructWith, CreateEventQueue, IsFirstMatch, Matches,
         IsChosen, IsWakeupNonUi
    <3> QED
      BY <3>1, <3>2, <3>3 DEF QueueInv
  <2> QED
    BY <1>3, <2>1, <2>2, <2>3 DEF Construct, ConstructWith, InitializeSensorQueue
<1>4. CASE Activate
  <2>1. CASE joinable
    BY <1>4, <2>1, CrashQueue DEF Activate, Causes
  <2>2. CASE ~joinable
    BY <1>4, <2>2, <1>0 DEF Activate
  <2> QED
    BY <2>1, <2>2
<1>5. CASE Deactivate \/ Destroy \/ Join
  BY <1>5, <1>0 DEF Deactivate, Destroy, Join
<1>6. CASE Disable
  <2>1. CASE bound
    BY <1>6, <2>1, CallQueue DEF Disable
  <2>2. CASE ~bound
    BY <1>6, <2>2, CrashQueue DEF Disable, Causes
  <2> QED
    BY <2>1, <2>2
<1>7. CASE ClearQueue
  BY <1>7 DEF ClearQueue, QueueInv
<1>8. CASE DestroyMembers
  <2>1. CASE joinable
    BY <1>8, <2>1, CrashQueue DEF DestroyMembers, Causes
  <2>2. CASE ~joinable
    BY <1>8, <2>2, <1>0 DEF DestroyMembers
  <2> QED
    BY <2>1, <2>2
<1>9. CASE Open \/ Loop \/ Poll \/ ReadConsume \/ ReadValue \/ ThreadFaults
  BY <1>9, <1>0 DEF Open, Loop, Poll, ReadConsume, ReadValue, ThreadFaults,
     OpenFails, PollFails, ReadFails, Local
<1>10. CASE Apply
  <2>1. owner \notin {"new", "members", "gone"} \/ UNCHANGED owner
    BY <1>10 DEF Apply, TransportError
  <2>2. CASE mQueue /\ bound
    BY <1>10, <2>1, <2>2, CallQueue DEF Apply, TransportError, CallSensor
  <2>3. CASE ~(mQueue /\ bound)
    BY <1>10, <2>3, CrashQueue DEF Apply, TransportError, Causes
  <2> QED
    BY <2>2, <2>3
<1>11. CASE UNCHANGED vars
  BY <1>11, <1>0 DEF vars
<1> QED
  BY <1>1, <1>2, <1>3, <1>4, <1>5, <1>6, <1>7, <1>8, <1>9, <1>10, <1>11
     DEF Next, OwnerCalls, OwnerContinues, ThreadRuns

-----------------------------------------------------------------------------
(* Where the two threads are.                                              *)

\* The thread part of the inductive invariant.
LEMMA ThreadStep ==
  TypeOK /\ QueueInv /\ ThreadInv /\ DeactivatedMeansDisabled /\ [Next]_vars
    => ThreadInv'
<1> SUFFICES ASSUME TypeOK, QueueInv, ThreadInv, DeactivatedMeansDisabled, [Next]_vars
             PROVE  ThreadInv'
  OBVIOUS
<1>0. ASSUME UNCHANGED <<joinable, pc, owner, enabled, mActive, proc, openFailed, lostCall>>
      PROVE  ThreadInv'
  BY <1>0 DEF ThreadInv
<1>1. CASE Driver
  BY <1>1, <1>0 DEF Driver, DriverStore, DriverNotify
<1>2. CASE ServiceDies
  BY <1>2 DEF ServiceDies, ThreadInv
<1>3. CASE Construct
  <2>1. CASE serviceUp
    <3>1. enabled' = {} /\ pc = "none" /\ ~mActive /\ ~joinable
      BY <1>3, <2>1 DEF Construct, ConstructWith, InitializeSensorQueue, GetSensorListFails,
         SensorNotExist, CreateEventQueue, QueueStored, ThreadInv
    <3> QED
      BY <1>3, <2>1, <3>1 DEF Construct, ConstructWith, ThreadInv
  <2>2. CASE ~serviceUp
    BY <1>3, <2>2 DEF Construct, ConstructWith, ThreadInv, Crash
  <2> QED
    BY <2>1, <2>2
<1>4. CASE Activate
  <2>1. CASE joinable
    BY <1>4, <2>1 DEF Activate, Crash, ThreadInv
  <2>2. CASE ~joinable
    BY <1>4, <2>2 DEF Activate, MayStart, ThreadInv, DeactivatedMeansDisabled
  <2> QED
    BY <2>1, <2>2
<1>5. CASE Deactivate
  BY <1>5 DEF Deactivate, AfterClearingActive, ThreadInv
<1>6. CASE Destroy
  BY <1>6 DEF Destroy, DestroyBegins, ThreadInv
<1>7. CASE Join
  BY <1>7 DEF Join, AfterDeactivate, ThreadInv
<1>8. CASE Disable
  <2>1. pc = "none" /\ ~joinable /\ UNCHANGED <<pc, joinable, mActive, openFailed>>
    BY <1>8 DEF Disable, ThreadInv
  <2>2. CASE bound
    BY <1>8, <2>1, <2>2 DEF Disable, AfterDeactivate, ThreadInv
  <2>3. CASE ~bound
    BY <1>8, <2>1, <2>3 DEF Disable, Crash, ThreadInv
  <2> QED
    BY <2>2, <2>3
<1>9. CASE ClearQueue
  BY <1>9 DEF ClearQueue, ThreadInv
<1>10. CASE DestroyMembers
  <2>1. CASE joinable
    BY <1>10, <2>1 DEF DestroyMembers, Crash, ThreadInv
  <2>2. CASE ~joinable
    BY <1>10, <2>2 DEF DestroyMembers, ThreadInv
  <2> QED
    BY <2>1, <2>2
<1>11. CASE Open
  BY <1>11 DEF Open, At, Local, ThreadInv
<1>12. CASE OpenFails
  BY <1>12 DEF OpenFails, At, ThreadInv
<1>13. CASE Loop
  BY <1>13 DEF Loop, LoopTest, At, Local, ThreadInv
<1>14. CASE Poll \/ PollFails \/ ReadConsume
  BY <1>14 DEF Poll, PollFails, ReadConsume, At, Local, ThreadInv
<1>15. CASE ReadValue \/ ReadFails
  <2>1. pc' \in {"read", "apply"} /\ pc \in {"read", "fetch"}
    BY <1>15 DEF ReadValue, ReadFails, EndRead, At
  <2>2. UNCHANGED <<joinable, owner, enabled, mActive, proc, openFailed, lostCall>>
    BY <1>15 DEF ReadValue, ReadFails, Local
  <2> QED
    BY <2>1, <2>2 DEF ThreadInv
<1>16. CASE Apply
  <2>1. CASE mQueue /\ bound
    BY <1>16, <2>1 DEF Apply, TransportError, At, ThreadInv
  <2>2. CASE ~(mQueue /\ bound)
    BY <1>16, <2>2 DEF Apply, TransportError, At, Crash, ThreadInv
  <2> QED
    BY <2>1, <2>2
<1>17. CASE UNCHANGED vars
  BY <1>17, <1>0 DEF vars
<1> QED
  BY <1>1, <1>2, <1>3, <1>4, <1>5, <1>6, <1>7, <1>8, <1>9, <1>10, <1>11,
     <1>12, <1>13, <1>14, <1>15, <1>16, <1>17
     DEF Next, OwnerCalls, OwnerContinues, ThreadRuns, ThreadFaults

\* The outcome part: what deactivate() leaves, and which crash has which cause.
LEMMA OutcomeStep ==
  ASSUME TypeOK, QueueInv, ThreadInv, DeactivatedMeansDisabled,
         TerminateOnlyAfterOpenFailure, SegvOnlyIfInitFailed, [Next]_vars
  PROVE  /\ DeactivatedMeansDisabled'
         /\ TerminateOnlyAfterOpenFailure'
         /\ SegvOnlyIfInitFailed'
<1> DEFINE Out == /\ DeactivatedMeansDisabled
                  /\ TerminateOnlyAfterOpenFailure
                  /\ SegvOnlyIfInitFailed
<1> USE DEF DeactivatedMeansDisabled, TerminateOnlyAfterOpenFailure, SegvOnlyIfInitFailed
<1>0. ASSUME UNCHANGED <<owner, enabled, mActive, proc, openFailed, lostCall, initRes>>
      PROVE  Out'
  BY <1>0
<1>1. CASE Driver
  BY <1>1, <1>0 DEF Driver, DriverStore, DriverNotify
<1>2. CASE ServiceDies
  BY <1>2 DEF ServiceDies
<1>3. CASE Construct
  <2>1. CASE serviceUp
    <3>1. enabled' = {}
      BY <1>3, <2>1 DEF Construct, ConstructWith, InitializeSensorQueue, GetSensorListFails,
         SensorNotExist, CreateEventQueue, QueueStored, ThreadInv
    <3> QED
      BY <1>3, <2>1, <3>1 DEF Construct, ConstructWith
  <2>2. CASE ~serviceUp
    BY <1>3, <2>2 DEF Construct, ConstructWith, Crash
  <2> QED
    BY <2>1, <2>2
<1>4. CASE Activate
  <2>1. CASE joinable
    BY <1>4, <2>1 DEF Activate, MayStart, Crash, ThreadInv
  <2>2. CASE ~joinable
    BY <1>4, <2>2 DEF Activate
  <2> QED
    BY <2>1, <2>2
<1>5. CASE Deactivate
  BY <1>5 DEF Deactivate, AfterClearingActive
<1>6. CASE Destroy
  BY <1>6 DEF Destroy, DestroyBegins
<1>7. CASE Join
  BY <1>7 DEF Join, AfterDeactivate, QueueInv
<1>8. CASE Disable
  <2>1. CASE bound
    <3>1. ~lostCall' => enabled' = {}
      BY <1>8, <2>1 DEF Disable, DisableSensor, QueueInv
    <3> QED
      BY <1>8, <2>1, <3>1 DEF Disable
  <2>2. CASE ~bound
    BY <1>8, <2>2 DEF Disable, Crash
  <2> QED
    BY <2>1, <2>2
<1>9. CASE ClearQueue
  BY <1>9 DEF ClearQueue
<1>10. CASE DestroyMembers
  <2>1. CASE joinable
    BY <1>10, <2>1 DEF DestroyMembers, Crash, ThreadInv
  <2>2. CASE ~joinable
    BY <1>10, <2>2 DEF DestroyMembers
  <2> QED
    BY <2>1, <2>2
<1>11. CASE Open \/ Loop \/ Poll \/ PollFails \/ ReadConsume \/ ReadValue \/ ReadFails
  BY <1>11, <1>0 DEF Open, Loop, Poll, PollFails, ReadConsume, ReadValue,
     ReadFails, Local
<1>12. CASE OpenFails
  BY <1>12 DEF OpenFails, At, ThreadInv
<1>13. CASE Apply
  <2>1. owner = "idle" => mActive
    BY <1>13 DEF Apply, TransportError, At, ThreadInv
  <2>2. CASE mQueue /\ bound
    BY <1>13, <2>1, <2>2 DEF Apply, TransportError, At
  <2>3. CASE mQueue /\ ~bound
    BY <1>13, <2>3 DEF Apply, TransportError, Crash
  <2>4. CASE ~mQueue
    BY <1>13, <2>4 DEF Apply, TransportError, At, Crash, QueueInv, ThreadInv
  <2> QED
    BY <2>2, <2>3, <2>4
<1>14. CASE UNCHANGED vars
  BY <1>14, <1>0 DEF vars
<1> QED
  BY <1>1, <1>2, <1>3, <1>4, <1>5, <1>6, <1>7, <1>8, <1>9, <1>10, <1>11,
     <1>12, <1>13, <1>14
     DEF Next, OwnerCalls, OwnerContinues, ThreadRuns, ThreadFaults

-----------------------------------------------------------------------------
(* What the notify thread knows of the attributes.                         *)

\* A step that changes neither the attributes nor the thread, and that keeps
\* the service's view or drops the queue, keeps the pass invariant.
LEMMA PassKeep ==
  ASSUME PassInv, UNCHANGED <<content, dirty, pc, path, on, unread, ioErr>>,
         ~bound' \/ UNCHANGED <<bound, enabled, lostCall>>
  PROVE  PassInv'
BY DEF PassInv, NoneSet, SomeSet, Stale

\* A new value that is on its way to the thread does not spoil what the thread
\* has read: the driver stores before it notifies.
LEMMA StoreKeeps ==
  ASSUME TypeOK, NEW p \in Paths, DriverStore(p)
  PROVE  /\ SomeSet'
         /\ \A Q \in SUBSET Paths : NoneSet(Q) => NoneSet(Q)'
<1>1. /\ \A q \in Paths \ {p} : content'[q] = content[q] /\ (Stale(q)' <=> Stale(q))
      /\ Stale(p)'
  BY DEF DriverStore, TypeOK, Stale
<1> QED
  BY <1>1 DEF SomeSet, NoneSet

\* sysfs_notify turns a stored value into a pending event.
LEMMA NotifyKeeps ==
  ASSUME TypeOK, NEW p \in Paths, DriverNotify(p)
  PROVE  /\ SomeSet => SomeSet'
         /\ \A Q \in SUBSET Paths : NoneSet(Q) => NoneSet(Q)'
<1>1. \A q \in Paths : content'[q] = content[q] /\ (Stale(q)' <=> Stale(q))
  BY DEF DriverNotify, TypeOK, Stale
<1> QED
  BY <1>1 DEF SomeSet, NoneSet

\* The pass part of the inductive invariant.
LEMMA PassStep ==
  TypeOK /\ QueueInv /\ ThreadInv /\ PassInv /\ [Next]_vars => PassInv'
<1> SUFFICES ASSUME TypeOK, QueueInv, ThreadInv, PassInv, [Next]_vars PROVE PassInv'
  OBVIOUS
<1>a. path \in Nat /\ 1 <= path /\ path <= NumPaths /\ 1..(path - 1) \in SUBSET Paths
  BY NumPathsAssumption DEF TypeOK, Paths
<1>1. ASSUME NEW p \in Paths, DriverStore(p) PROVE PassInv'
  <2>1. UNCHANGED <<pc, path, on, unread, ioErr, bound, enabled, lostCall>>
    BY <1>1 DEF DriverStore
  <2> QED
    BY <1>1, <1>a, <2>1, StoreKeeps DEF PassInv
<1>2. ASSUME NEW p \in Paths, DriverNotify(p) PROVE PassInv'
  <2>1. UNCHANGED <<pc, path, on, ioErr, bound, enabled, lostCall>>
    BY <1>2 DEF DriverNotify
  <2>2. \A q \in Paths : unread[q] => unread'[q]
    BY <1>2 DEF DriverNotify, TypeOK
  <2> QED
    BY <1>2, <1>a, <2>1, <2>2, NotifyKeeps DEF PassInv
<1>3. CASE ServiceDies
  BY <1>3, PassKeep DEF ServiceDies
<1>4. CASE Construct
  BY <1>4 DEF Construct, ConstructWith, ThreadInv, PassInv
<1>5. CASE Activate
  <2>1. CASE joinable
    BY <1>5, <2>1, PassKeep DEF Activate, Crash
  <2>2. CASE ~joinable
    BY <1>5, <2>2 DEF Activate, PassInv
  <2> QED
    BY <2>1, <2>2
<1>6. CASE Deactivate \/ Destroy \/ ClearQueue
  BY <1>6, PassKeep DEF Deactivate, Destroy, ClearQueue
<1>7. CASE Join
  BY <1>7 DEF Join, PassInv
<1>8. CASE Disable
  BY <1>8 DEF Disable, ThreadInv, PassInv
<1>9. CASE DestroyMembers
  <2>1. CASE joinable
    BY <1>9, <2>1, PassKeep DEF DestroyMembers, Crash
  <2>2. CASE ~joinable
    BY <1>9, <2>2, PassKeep DEF DestroyMembers
  <2> QED
    BY <2>1, <2>2
<1>10. CASE Open
  <2>1. \A p \in 1..path : unread'[p]
    BY <1>10, <1>a DEF Open, At, PassInv, TypeOK, Paths
  <2>2. CASE path = NumPaths
    <3>1. pc' = "loop" /\ \A p \in Paths : Stale(p)'
      BY <1>10, <2>1, <2>2 DEF Open, Paths, Stale
    <3>2. SomeSet' /\ NoneSet(Paths)'
      BY <3>1, NumPathsAssumption DEF SomeSet, NoneSet, Paths
    <3> QED
      BY <3>1, <3>2 DEF PassInv
  <2>3. CASE path # NumPaths
    <3>1. pc' = "open" /\ path' - 1 = path
      BY <1>10, <1>a, <2>3 DEF Open
    <3> QED
      BY <3>1, <2>1 DEF PassInv
  <2> QED
    BY <2>2, <2>3
<1>11. CASE OpenFails
  BY <1>11 DEF OpenFails, PassInv
<1>12. CASE Loop \/ PollFails
  <2>1. /\ pc \in {"loop", "poll"} /\ pc' \in {"loop", "poll", "exit"}
        /\ UNCHANGED <<content, dirty, unread, ioErr, bound, enabled, lostCall>>
    BY <1>12 DEF Loop, LoopTest, PollFails, At, Local
  <2> QED
    BY <2>1 DEF PassInv, NoneSet, SomeSet, Stale
<1>13. CASE Poll
  <2>1. pc' = "read" /\ ~on' /\ 1..(path' - 1) = {}
    BY <1>13 DEF Poll
  <2> QED
    BY <2>1 DEF PassInv, NoneSet
<1>14. CASE ReadConsume
  <2>1. /\ pc = "read" /\ pc' = "fetch"
        /\ UNCHANGED <<content, dirty, path, on, ioErr>>
    BY <1>14 DEF ReadConsume, At, Local
  <2>2. \A p \in Paths : p # path => (unread'[p] <=> unread[p])
    BY <1>14 DEF ReadConsume, Consumed, TypeOK
  <2>3. \A p \in 1..(path - 1) : unread'[p] <=> unread[p]
    BY <1>a, <2>2
  <2> QED
    BY <2>1, <2>3 DEF PassInv, NoneSet, Stale
<1>15. CASE ReadValue
  <2> DEFINE v == ReadBool(content[path])
  <2>1. /\ pc = "fetch" /\ (on' <=> v)
        /\ UNCHANGED <<content, dirty, unread, ioErr>>
    BY <1>15 DEF ReadValue, EndRead, ReadBool, At, Local
  <2>2. CASE v
    <3>1. pc' = "apply"
      BY <1>15, <2>2 DEF ReadValue, EndRead, PassEnds
    <3>2. SomeSet'
      BY <2>1, <2>2 DEF SomeSet, TypeOK
    <3> QED
      BY <2>1, <2>2, <3>1, <3>2 DEF PassInv
  <2>3. CASE ~v
    <3>1. ~ioErr => NoneSet(1..path)
      <4>1. ~ioErr => NoneSet(1..(path - 1))
        BY <2>1 DEF PassInv
      <4>2. 1..path = (1..(path - 1)) \cup {path}
        BY <1>a
      <4> QED
        BY <2>3, <4>1, <4>2 DEF NoneSet
    <3>2. CASE path = NumPaths
      <4>1. pc' = "apply"
        BY <1>15, <3>2 DEF ReadValue, EndRead, PassEnds
      <4> QED
        BY <2>1, <2>3, <3>1, <3>2, <4>1 DEF PassInv, NoneSet, Stale, Paths
    <3>3. CASE path # NumPaths
      <4>1. pc' = "read" /\ path' - 1 = path
        BY <1>15, <1>a, <2>3, <3>3 DEF ReadValue, EndRead, PassEnds
      <4> QED
        BY <2>1, <2>3, <3>1, <4>1 DEF PassInv, NoneSet, Stale
    <3> QED
      BY <3>2, <3>3
  <2> QED
    BY <2>2, <2>3
<1>16. CASE ReadFails
  <2>1. pc' \in {"read", "apply"} /\ ~on' /\ ioErr'
    BY <1>16 DEF ReadFails, EndRead
  <2> QED
    BY <2>1 DEF PassInv
<1>17. CASE Apply
  <2>1. CASE mQueue /\ bound
    <3>1. /\ pc = "apply" /\ pc' = "loop"
          /\ UNCHANGED <<content, dirty, unread, on, ioErr>>
          /\ IF on THEN EnableSensor(mSensorHandle) ELSE DisableSensor(mSensorHandle)
      BY <1>17, <2>1 DEF Apply, TransportError, CallSensor, At
    <3>2. CASE on
      <4>1. ~lostCall' => enabled' # {}
        BY <3>1, <3>2 DEF EnableSensor
      <4> QED
        BY <3>1, <3>2, <4>1 DEF PassInv, SomeSet, Stale
    <3>3. CASE ~on
      <4>1. ~lostCall' => enabled' = {}
        BY <3>1, <3>3 DEF DisableSensor, QueueInv
      <4> QED
        BY <3>1, <3>3, <4>1 DEF PassInv, NoneSet, Stale
    <3> QED
      BY <3>2, <3>3
  <2>2. CASE ~(mQueue /\ bound)
    BY <1>17, <2>2, PassKeep DEF Apply, TransportError, Crash
  <2> QED
    BY <2>1, <2>2
<1>18. CASE UNCHANGED vars
  BY <1>18, PassKeep DEF vars
<1> QED
  BY <1>1, <1>2, <1>3, <1>4, <1>5, <1>6, <1>7, <1>8, <1>9, <1>10, <1>11,
     <1>12, <1>13, <1>14, <1>15, <1>16, <1>17, <1>18
     DEF Next, Driver, OwnerCalls, OwnerContinues, ThreadRuns, ThreadFaults

-----------------------------------------------------------------------------
(* The theorems.                                                           *)

\* The invariant holds of a notifier that is not constructed yet.
LEMMA InitIInv == Init => IInv
<1> SUFFICES ASSUME Init PROVE IInv
  OBVIOUS
<1>1. QueueInv /\ ThreadInv /\ PassInv
  BY DEF Init, QueueInv, ThreadInv, PassInv
<1>2. DeactivatedMeansDisabled /\ TerminateOnlyAfterOpenFailure /\ SegvOnlyIfInitFailed
  BY DEF Init, DeactivatedMeansDisabled, TerminateOnlyAfterOpenFailure,
     SegvOnlyIfInitFailed
<1> QED
  BY <1>1, <1>2, TypeInit DEF IInv

\* IInv holds initially and is preserved by every step.
THEOREM Inductive == Spec => []IInv
<1>1. IInv /\ [Next]_vars => IInv'
  BY TypeStep, QueueStep, ThreadStep, OutcomeStep, PassStep DEF IInv
<1> QED
  BY <1>1, InitIInv, PTL DEF Spec

\* What the thread knows of the attributes rules a lost wakeup out: asleep with
\* nothing stale, "some gesture is set or stale" is "some gesture is set".
LEMMA IInvWakeup == IInv => NoLostWakeup
<1> SUFFICES ASSUME IInv, At("poll"), Quiet, ~ioErr, ~lostCall, bound
             PROVE  enabled = IF Wanted THEN {mSensorHandle} ELSE {}
  BY DEF NoLostWakeup
<1>1. enabled \subseteq {mSensorHandle}
  BY DEF IInv, QueueInv
<1>2. SomeSet => Wanted
  BY DEF Quiet, SomeSet, Wanted, Stale
<1>3. NoneSet(Paths) => ~Wanted
  BY DEF Quiet, NoneSet, Wanted, Stale
<1>4. IF enabled # {} THEN SomeSet ELSE NoneSet(Paths)
  BY DEF IInv, PassInv, At
<1> QED
  BY <1>1, <1>2, <1>3, <1>4

\* NonUiNotifier::notify never sleeps on a lost wakeup, for any number of
\* attributes: asleep in poll() with nothing pending, the sensor is enabled
\* exactly when some gesture is set.
THEOREM NoLostWakeupHolds == Spec => []NoLostWakeup
BY IInvWakeup, Inductive, PTL

\* deactivate() leaves the sensor disabled unless disableSensor itself failed.
THEOREM DeactivatedMeansDisabledHolds == Spec => []DeactivatedMeansDisabled
<1>1. IInv => DeactivatedMeansDisabled
  BY DEF IInv
<1> QED
  BY <1>1, Inductive, PTL

\* std::terminate is reached only after notify() failed to open an attribute.
THEOREM TerminateOnlyAfterOpenFailureHolds == Spec => []TerminateOnlyAfterOpenFailure
<1>1. IInv => TerminateOnlyAfterOpenFailure
  BY DEF IInv
<1> QED
  BY <1>1, Inductive, PTL

\* A null queue is dereferenced only after a failed initializeSensorQueue.
THEOREM SegvOnlyIfInitFailedHolds == Spec => []SegvOnlyIfInitFailed
<1>1. IInv => SegvOnlyIfInitFailed
  BY DEF IInv
<1> QED
  BY <1>1, Inductive, PTL

\* Only the first wake-up nonui sensor of the service's list is ever enabled.
THEOREM OnlyChosenSensorEnabledHolds == Spec => []OnlyChosenSensorEnabled
<1>1. IInv => OnlyChosenSensorEnabled
  BY DEF IInv, QueueInv, OnlyChosenSensorEnabled
<1> QED
  BY <1>1, Inductive, PTL

=============================================================================

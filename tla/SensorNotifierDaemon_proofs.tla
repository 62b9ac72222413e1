--------------------- MODULE SensorNotifierDaemon_proofs ---------------------
(***************************************************************************)
(* TLAPS proofs of the safety properties of the sensor-notifier process,   *)
(* through any number of crashes, restarts by init and deaths of the       *)
(* sensor service.  A step of the process is a step of its notifier or one *)
(* of three steps the notifier knows nothing of: main() failing, init      *)
(* starting the process again, the service coming back.                    *)
(***************************************************************************)
EXTENDS SensorNotifierDaemon, SensorNotifier_proofs

USE DEF driverVars, serviceVars, queueVars, ownerVars, memberVars, threadVars,
        notThread, notOwner, envVars, notNotifier

MainStates == {"getService", "construct", "activate", "sleep"}

\* The types of what outlives the process: the touch driver and the service.
Outside ==
  /\ content \in [Paths -> Contents]
  /\ dirty \in [Paths -> BOOLEAN] /\ unread \in [Paths -> BOOLEAN]
  /\ catalogue \in Catalogues
  /\ serviceUp \in BOOLEAN /\ bound \in BOOLEAN
  /\ destroying \in BOOLEAN

\* Where main() is tells where its notifier is: no thread before activate(),
\* no second activate(), and no deactivate() or destructor at all.
MainInv ==
  /\ main \in MainStates
  /\ main \in {"getService", "construct"} => owner = "new"
  /\ main \in {"activate", "sleep"} => owner = "idle"
  /\ main = "activate" => pc = "none"

\* The service holds a queue of ours only while it and we run.
NoOrphanQueue ==
  /\ ~serviceUp => ~bound
  /\ proc # "up" => ~bound /\ enabled = {}

\* The manager is of the service that runs now, and so is the queue it made.
ManagerInv ==
  /\ manager \in BOOLEAN
  /\ manager => serviceUp
  /\ proc = "up" /\ main \in {"getService", "construct"} => ~mQueue
  /\ proc = "up" /\ mQueue /\ manager => bound

\* The conjunction is inductive.
DaemonInv ==
  /\ proc # "exit" => IInv
  /\ proc = "up" => MainInv
  /\ Outside
  /\ NoOrphanQueue
  /\ ManagerInv
  /\ proc # "terminate"

-----------------------------------------------------------------------------
(* Steps of the notifier inside the process.                               *)

\* Every step of the notifier keeps its own invariant, in the process too.
LEMMA NotifierStep == IInv /\ [Next]_vars => IInv'
BY TypeStep, QueueStep, ThreadStep, OutcomeStep, PassStep DEF IInv

\* What outlives the process is part of the notifier's types.
LEMMA IInvOutside == IInv => Outside
BY DEF IInv, TypeOK, Outside

\* A process that aborts leaves its notifier as it was, without a queue.
LEMMA AbortStep ==
  ASSUME IInv, proc = "up", owner = "new", Crash("abort"),
         UNCHANGED <<notOwner, ownerVars, memberVars, mActive, joinable, pc, initRes, lostCall>>
  PROVE  IInv'
<1>1. TypeOK' /\ QueueInv'
  BY CrashType, CrashQueue DEF IInv, TypeOK, Causes
<1>2. ThreadInv'
  BY DEF IInv, ThreadInv, Crash
<1>3. pc' = "none"
  BY DEF IInv, ThreadInv
<1>4. PassInv'
  BY <1>3 DEF PassInv
<1>5. DeactivatedMeansDisabled' /\ TerminateOnlyAfterOpenFailure' /\ SegvOnlyIfInitFailed'
  BY DEF Crash, DeactivatedMeansDisabled, TerminateOnlyAfterOpenFailure, SegvOnlyIfInitFailed
<1> QED
  BY <1>1, <1>2, <1>4, <1>5 DEF IInv

\* main() constructs its notifier: the process goes on with it, or aborts
\* because the service process that getService() returned is gone.
LEMMA ConstructStep ==
  ASSUME DaemonInv, MainConstruct
  PROVE  /\ DaemonInv'
         /\ proc' \in {"up", "abort"} /\ (proc' = "abort" => ~manager)
<1>1. /\ proc = "up" /\ main = "construct" /\ owner = "new" /\ ConstructWith(manager)
      /\ main' = "activate"
      /\ UNCHANGED <<content, dirty, unread, catalogue, serviceUp, destroying, pc, manager>>
  BY DEF MainConstruct, ConstructWith
<1>2. IInv /\ pc = "none" /\ enabled = {} /\ ManagerInv
  BY <1>1 DEF DaemonInv, IInv, ThreadInv
<1>4. CASE manager
  <2>1. owner' = "idle" /\ proc' = "up" /\ serviceUp /\ InitializeSensorQueue
    BY <1>1, <1>2, <1>4 DEF ConstructWith, ManagerInv
  <2>2. Construct
    BY <1>1, <1>4, <2>1 DEF ConstructWith, Construct
  <2>3. IInv'
    BY <1>2, <2>2, NotifierStep DEF Next, OwnerCalls
  <2>4. mQueue' => bound'
    BY <1>1, <1>2, <2>1 DEF InitializeSensorQueue, GetSensorListFails, SensorNotExist,
       CreateEventQueue, ManagerInv
  <2>5. MainInv' /\ NoOrphanQueue' /\ ManagerInv'
    BY <1>1, <1>2, <2>1, <2>4 DEF MainInv, MainStates, NoOrphanQueue, ManagerInv
  <2> QED
    BY <2>1, <2>3, <2>5, IInvOutside DEF DaemonInv, Outside, IInv, TypeOK
<1>5. CASE ~manager
  <2>1. /\ Crash("abort") /\ proc' = "abort" /\ ~bound' /\ enabled' = {}
        /\ UNCHANGED <<notOwner, ownerVars, memberVars, mActive, joinable, pc, initRes, lostCall>>
    BY <1>1, <1>5 DEF ConstructWith, Crash
  <2>2. IInv'
    BY <1>1, <1>2, <2>1, AbortStep
  <2>3. ManagerInv' /\ NoOrphanQueue'
    BY <1>1, <1>2, <2>1 DEF ManagerInv, NoOrphanQueue
  <2> QED
    BY <1>5, <2>1, <2>2, <2>3 DEF DaemonInv, Outside, IInv, TypeOK
<1> QED
  BY <1>4, <1>5

\* main() activates its notifier once, while it has no thread: assigning the
\* new std::thread never terminates the process.
LEMMA ActivateStep ==
  ASSUME DaemonInv, MainActivate
  PROVE  DaemonInv' /\ proc' = "up"
<1>1. proc = "up" /\ main = "activate" /\ Activate /\ main' = "sleep" /\ UNCHANGED manager
  BY DEF MainActivate
<1>2. IInv /\ owner = "idle" /\ ~joinable
  BY <1>1 DEF DaemonInv, MainInv, IInv, ThreadInv
<1>3. proc' = "up" /\ UNCHANGED <<owner, bound, enabled, serviceUp, mQueue>>
  BY <1>1, <1>2 DEF Activate
<1>4. IInv'
  BY <1>1, <1>2, NotifierStep DEF Next, OwnerCalls
<1>5. MainInv' /\ NoOrphanQueue' /\ ManagerInv'
  BY <1>1, <1>2, <1>3 DEF DaemonInv, MainInv, MainStates, NoOrphanQueue, ManagerInv
<1> QED
  BY <1>3, <1>4, <1>5 DEF DaemonInv, Outside, IInv, TypeOK

\* The notify thread runs only after activate(), so the notifier is idle.
LEMMA ThreadOwner ==
  ASSUME DaemonInv, proc = "up", pc # "none"
  PROVE  IInv /\ main = "sleep" /\ owner = "idle"
<1>1. IInv /\ MainInv
  BY DEF DaemonInv
<1> QED
  BY <1>1 DEF MainInv, MainStates, IInv, ThreadInv

\* enableSensor or disableSensor in the process: it goes on, aborts on a queue
\* whose service is gone, or dereferences the null queue of a failed
\* initializeSensorQueue.
LEMMA ApplyStep ==
  ASSUME DaemonInv, MainApply
  PROVE  /\ DaemonInv'
         /\ proc' \in {"up", "abort", "segv"}
         /\ proc' = "abort" => ~manager
         /\ proc' = "segv" => initRes \in InitResults \ {"none", "OK"}
<1>1. /\ proc = "up" /\ pc = "apply" /\ Apply
      /\ UNCHANGED <<main, manager, owner, serviceUp, mQueue>>
  BY DEF MainApply, Apply, At
<1>2. IInv /\ main = "sleep" /\ owner = "idle"
  BY <1>1, ThreadOwner
<1>3. IInv'
  BY <1>1, <1>2, NotifierStep DEF Next, ThreadRuns
<1>4. MainInv' /\ ManagerInv
  BY <1>1, <1>2 DEF MainInv, MainStates, DaemonInv
<1>5. CASE mQueue /\ bound
  <2>1. proc' = "up" /\ bound' = bound
    BY <1>1, <1>5 DEF Apply
  <2>2. NoOrphanQueue' /\ ManagerInv'
    BY <1>1, <1>2, <1>4, <2>1 DEF DaemonInv, NoOrphanQueue, ManagerInv
  <2> QED
    BY <1>3, <1>4, <2>1, <2>2 DEF DaemonInv, Outside, IInv, TypeOK
<1>6. CASE ~(mQueue /\ bound)
  <2>1. /\ ~bound' /\ enabled' = {}
        /\ proc' = IF mQueue THEN "abort" ELSE "segv"
    BY <1>1, <1>6 DEF Apply, TransportError, Crash
  <2>2. mQueue \/ initRes \in InitResults \ {"none", "OK"}
    BY <1>2 DEF IInv, QueueInv
  <2>3. NoOrphanQueue' /\ ManagerInv'
    BY <1>1, <1>4, <2>1 DEF NoOrphanQueue, ManagerInv
  <2>4. mQueue => ~manager
    BY <1>1, <1>4, <1>6 DEF ManagerInv
  <2> QED
    BY <1>3, <2>1, <2>2, <2>3, <2>4 DEF DaemonInv, Outside, IInv, TypeOK
<1> QED
  BY <1>5, <1>6

\* The other steps of the notify thread keep the process up.
LEMMA RunStep ==
  ASSUME DaemonInv,
         Open \/ Loop \/ Poll \/ ReadConsume \/ ReadValue \/ ThreadFaults,
         UNCHANGED notNotifier
  PROVE  DaemonInv' /\ proc' = "up"
<1>1. /\ proc = "up" /\ pc # "none"
      /\ UNCHANGED <<proc, owner, bound, enabled, serviceUp, mQueue, main, manager>>
  BY DEF Open, Loop, Poll, ReadConsume, ReadValue, ThreadFaults, OpenFails, PollFails,
     ReadFails, At, Local
<1>2. IInv /\ main = "sleep" /\ owner = "idle"
  BY <1>1, ThreadOwner
<1>3. IInv'
  BY <1>2, NotifierStep DEF Next, ThreadRuns
<1>4. MainInv' /\ NoOrphanQueue' /\ ManagerInv'
  BY <1>1, <1>2 DEF DaemonInv, MainInv, MainStates, NoOrphanQueue, ManagerInv
<1> QED
  BY <1>1, <1>3, <1>4 DEF DaemonInv, Outside, IInv, TypeOK

-----------------------------------------------------------------------------
(* The world around the process.                                           *)

\* A step that changes neither the notifier nor main() keeps the invariant.
LEMMA Elsewhere ==
  ASSUME DaemonInv, UNCHANGED vars, UNCHANGED <<main, manager>>
  PROVE  DaemonInv'
<1>1. proc # "exit" => IInv'
  BY NotifierStep DEF DaemonInv
<1> QED
  BY <1>1 DEF DaemonInv, MainInv, Outside, NoOrphanQueue, ManagerInv, vars

\* The driver stores and notifies whether the process runs or not.
LEMMA DriverStep ==
  ASSUME DaemonInv, NEW p \in Paths, DriverStore(p) \/ DriverNotify(p),
         UNCHANGED <<main, manager>>
  PROVE  DaemonInv' /\ proc' = proc
<1>1. UNCHANGED <<catalogue, serviceUp, bound, enabled, proc, owner, destroying, mQueue,
                  pc, main, manager>>
  BY DEF DriverStore, DriverNotify
<1>2. proc # "exit" => IInv'
  BY NotifierStep DEF DaemonInv, Next, Driver
<1>3. content' \in [Paths -> Contents] /\ dirty' \in [Paths -> BOOLEAN]
      /\ unread' \in [Paths -> BOOLEAN]
  BY DEF DaemonInv, Outside, DriverStore, DriverNotify
<1> QED
  BY <1>1, <1>2, <1>3 DEF DaemonInv, MainInv, Outside, NoOrphanQueue, ManagerInv

\* The service dies and takes the queue with it.
LEMMA DeathStep ==
  ASSUME DaemonInv, DaemonServiceDies
  PROVE  DaemonInv' /\ proc' = proc
<1>1. /\ ~serviceUp' /\ ~bound' /\ enabled' = {} /\ manager' = FALSE
      /\ serviceUp' \in BOOLEAN /\ bound' \in BOOLEAN
      /\ UNCHANGED <<content, dirty, unread, catalogue, proc, owner, destroying, mQueue, pc, main>>
  BY DEF DaemonServiceDies, ServiceDies
<1>2. proc # "exit" => IInv'
  BY NotifierStep DEF DaemonInv, Next, DaemonServiceDies
<1> QED
  BY <1>1, <1>2 DEF DaemonInv, MainInv, Outside, NoOrphanQueue, ManagerInv

\* The service comes back with another list of sensors.  Nothing is bound then,
\* so the handle the process still has is never enabled on the new list.
LEMMA ReturnStep ==
  ASSUME DaemonInv, ServiceRestarts
  PROVE  DaemonInv' /\ proc' = proc
<1>1. /\ ~bound /\ ~manager /\ serviceUp' \in BOOLEAN /\ catalogue' \in Catalogues
      /\ UNCHANGED <<driverVars, queueVars, proc, ownerVars, memberVars, mActive,
                     joinable, threadVars, initRes, openFailed, lostCall, main, manager>>
  BY DEF ServiceRestarts, DaemonInv, NoOrphanQueue, ManagerInv
<1>2. ASSUME IInv PROVE IInv'
  <2>1. TypeOK'
    BY <1>1, <1>2 DEF IInv, TypeOK
  <2>2. QueueInv'
    BY <1>1, <1>2 DEF IInv, QueueInv
  <2>3. ThreadInv'
    BY <1>1, <1>2 DEF IInv, ThreadInv
  <2>4. PassInv'
    BY <1>1, <1>2, PassKeep DEF IInv
  <2>5. DeactivatedMeansDisabled' /\ TerminateOnlyAfterOpenFailure' /\ SegvOnlyIfInitFailed'
    BY <1>1, <1>2 DEF IInv, DeactivatedMeansDisabled, TerminateOnlyAfterOpenFailure,
       SegvOnlyIfInitFailed
  <2> QED
    BY <2>1, <2>2, <2>3, <2>4, <2>5 DEF IInv
<1> QED
  BY <1>1, <1>2 DEF DaemonInv, MainInv, Outside, NoOrphanQueue, ManagerInv

\* main() returns with an error: what the notifier never was is gone.
LEMMA ExitStep ==
  ASSUME DaemonInv, GetServiceNull
  PROVE  DaemonInv' /\ proc' = "exit"
<1>1. /\ proc = "up" /\ main = "getService" /\ ~serviceUp /\ proc' = "exit"
      /\ UNCHANGED <<content, dirty, unread, catalogue, serviceUp, bound, enabled, destroying,
                     manager>>
  BY DEF GetServiceNull
<1>2. owner = "new" /\ enabled = {} /\ ~bound
  BY <1>1 DEF DaemonInv, MainInv, NoOrphanQueue, IInv, ThreadInv
<1> QED
  BY <1>1, <1>2 DEF DaemonInv, Outside, NoOrphanQueue, ManagerInv

\* init starts the process again: a notifier as new as the first one, and
\* nothing of the old one left in the service.
LEMMA RestartStep ==
  ASSUME DaemonInv, InitRestart
  PROVE  DaemonInv' /\ proc' = "up"
<1>1. /\ proc' = "up" /\ main' = "getService" /\ manager' = FALSE /\ owner' = "new" /\ ~mQueue'
      /\ mSensorHandle' = -1 /\ ~mActive' /\ ~joinable' /\ pc' = "none" /\ path' = 1
      /\ ~on' /\ unread' = [p \in Paths |-> FALSE] /\ initRes' = "none"
      /\ ~openFailed' /\ ~ioErr' /\ ~lostCall'
      /\ UNCHANGED <<content, dirty, catalogue, serviceUp, bound, enabled, destroying>>
  BY DEF InitRestart
<1>2. ~bound' /\ enabled' = {}
  BY <1>1 DEF InitRestart, DaemonInv, NoOrphanQueue
<1>3. /\ mQueue' \in BOOLEAN /\ mActive' \in BOOLEAN /\ joinable' \in BOOLEAN
      /\ on' \in BOOLEAN /\ openFailed' \in BOOLEAN /\ ioErr' \in BOOLEAN
      /\ lostCall' \in BOOLEAN
  BY DEF InitRestart
<1>4. path' \in Paths /\ mSensorHandle' \in Int
  BY <1>1, NumPathsAssumption DEF Paths
<1>5. /\ content' \in [Paths -> Contents] /\ dirty' \in [Paths -> BOOLEAN]
      /\ unread' \in [Paths -> BOOLEAN] /\ catalogue' \in Catalogues
      /\ serviceUp' \in BOOLEAN /\ bound' \in BOOLEAN /\ destroying' \in BOOLEAN
  BY <1>1 DEF DaemonInv, Outside
<1>6. TypeOK'
  BY <1>1, <1>2, <1>3, <1>4, <1>5 DEF TypeOK, OwnerStates, ThreadStates, InitResults
<1>7. QueueInv' /\ ThreadInv' /\ PassInv'
  BY <1>1, <1>2 DEF QueueInv, ThreadInv, PassInv
<1>8. DeactivatedMeansDisabled' /\ TerminateOnlyAfterOpenFailure' /\ SegvOnlyIfInitFailed'
  BY <1>1 DEF DeactivatedMeansDisabled, TerminateOnlyAfterOpenFailure, SegvOnlyIfInitFailed
<1>9. IInv'
  BY <1>6, <1>7, <1>8 DEF IInv
<1> QED
  BY <1>1, <1>2, <1>5, <1>9 DEF DaemonInv, MainInv, MainStates, Outside, NoOrphanQueue,
     ManagerInv

-----------------------------------------------------------------------------
(* The theorems.                                                           *)

CrashCause ==
  /\ proc = "up" /\ proc' = "abort" => ~manager
  /\ proc = "up" /\ proc' = "segv" => initRes \in {"getSensorList", "NOT_EXIST", "createEventQueue"}
  /\ proc' # "terminate"

\* Every step of the process and its world keeps the invariant, and one that
\* kills the process has one of the named causes.
LEMMA DaemonStep == DaemonInv /\ [DaemonNext]_daemonVars => DaemonInv' /\ CrashCause
<1> SUFFICES ASSUME DaemonInv, [DaemonNext]_daemonVars PROVE DaemonInv' /\ CrashCause
  OBVIOUS
<1>0. proc # "terminate"
  BY DEF DaemonInv
<1>1. ASSUME NEW p \in Paths, DriverStore(p) \/ DriverNotify(p), UNCHANGED <<main, manager>>
      PROVE  DaemonInv' /\ CrashCause
  BY <1>0, <1>1, DriverStep DEF CrashCause
<1>2. CASE DaemonServiceDies
  BY <1>0, <1>2, DeathStep DEF CrashCause
<1>3. CASE ServiceRestarts
  BY <1>0, <1>3, ReturnStep DEF CrashCause
<1>4. CASE SensorChanges \/ OnEvent \/ GetService \/ UNCHANGED daemonVars
  <2>1. UNCHANGED vars /\ (UNCHANGED <<main, manager>> \/ GetService)
    BY <1>4 DEF SensorChanges, OnEvent, GetService, daemonVars
  <2>2. proc' = proc
    BY <2>1 DEF vars
  <2>3. CASE UNCHANGED <<main, manager>>
    BY <1>0, <2>1, <2>2, <2>3, Elsewhere DEF CrashCause
  <2>4. CASE GetService
    <3>1. proc = "up" /\ main = "getService" /\ main' = "construct" /\ serviceUp
          /\ manager' = TRUE
      BY <2>4 DEF GetService
    <3>2. IInv'
      BY <2>1, <3>1, NotifierStep DEF DaemonInv
    <3>3. UNCHANGED <<owner, pc, bound, enabled, serviceUp, mQueue>>
      BY <2>1 DEF vars
    <3>4. MainInv' /\ NoOrphanQueue' /\ ManagerInv'
      BY <3>1, <3>3, <2>2 DEF DaemonInv, MainInv, MainStates, NoOrphanQueue, ManagerInv
    <3> QED
      BY <1>0, <2>2, <3>1, <3>2, <3>4 DEF CrashCause, DaemonInv, Outside, IInv, TypeOK
  <2> QED
    BY <2>1, <2>3, <2>4
<1>5. CASE GetServiceNull
  BY <1>5, ExitStep DEF CrashCause
<1>6. CASE MainConstruct
  BY <1>6, ConstructStep DEF CrashCause
<1>7. CASE MainActivate
  BY <1>7, ActivateStep DEF CrashCause
<1>8. CASE NotifyThread \/ NotifyFaults
  <2>1. CASE MainApply
    BY <2>1, ApplyStep DEF CrashCause, InitResults
  <2>2. CASE ~MainApply
    BY <1>8, <2>2, RunStep DEF NotifyThread, NotifyPoll, NotifyFaults, CrashCause
  <2> QED
    BY <2>1, <2>2
<1>9. CASE InitRestart
  BY <1>9, RestartStep DEF CrashCause
<1> QED
  BY <1>1, <1>2, <1>3, <1>4, <1>5, <1>6, <1>7, <1>8, <1>9
     DEF DaemonNext, World, DaemonNotify, Main, envVars

\* A process that was just started.
LEMMA DaemonStart == DaemonInit => DaemonInv
<1> SUFFICES ASSUME DaemonInit PROVE DaemonInv
  OBVIOUS
<1>1. /\ Init /\ main = "getService" /\ manager = FALSE
      /\ proc = "up" /\ owner = "new" /\ serviceUp /\ proc # "exit" /\ ~mQueue
  BY DEF DaemonInit, Init
<1>2. IInv
  BY <1>1, InitIInv
<1> QED
  BY <1>1, <1>2, IInvOutside DEF DaemonInv, MainInv, MainStates, NoOrphanQueue,
     ManagerInv

\* DaemonInv holds in every run of the process, however often it dies.
THEOREM DaemonInductive == DaemonSpec => []DaemonInv
<1>1. DaemonInv /\ [DaemonNext]_daemonVars => DaemonInv'
  BY DaemonStep
<1> QED
  BY <1>1, DaemonStart, PTL DEF DaemonSpec

\* One run of the process, however it was restarted, aborts only when the
\* service process that getService() returned has died, dereferences a null queue only when
\* initializeSensorQueue failed, and never reaches std::terminate: main()
\* neither activates twice nor destroys its notifier.
THEOREM DaemonCrashCausesHolds == DaemonSpec => DaemonCrashCauses
<1>1. DaemonInv /\ [DaemonNext]_daemonVars => [CrashCause]_daemonVars
  BY DaemonStep
<1>2. DaemonSpec => [][CrashCause]_daemonVars
  BY <1>1, DaemonInductive, PTL DEF DaemonSpec
<1> QED
  BY <1>2 DEF DaemonCrashCauses, CrashCause

\* The notify thread of no process, the first or a restarted one, sleeps on a
\* lost wakeup.
THEOREM DaemonNoLostWakeup == DaemonSpec => []NoLostWakeup
<1>1. DaemonInv => NoLostWakeup
  <2>1. CASE proc = "up"
    BY <2>1, IInvWakeup DEF DaemonInv
  <2>2. CASE proc # "up"
    BY <2>2 DEF NoLostWakeup, At
  <2> QED
    BY <2>1, <2>2
<1> QED
  BY <1>1, DaemonInductive, PTL

\* Only the first wake-up nonui sensor of the list the service now reports is
\* enabled: no handle survives the service that gave it out, nor the process.
THEOREM DaemonOnlyChosenSensor == DaemonSpec => []OnlyChosenSensorEnabled
<1>1. DaemonInv => OnlyChosenSensorEnabled
  BY DEF DaemonInv, NoOrphanQueue, IInv, QueueInv, OnlyChosenSensorEnabled
<1> QED
  BY <1>1, DaemonInductive, PTL

=============================================================================

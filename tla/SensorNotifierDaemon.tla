------------------------ MODULE SensorNotifierDaemon ------------------------
(***************************************************************************)
(* The sensor-notifier process: main() around one NonUiNotifier, init      *)
(* restarting it when it dies, the sensor service dying and coming back,   *)
(* and the callback that turns sensor events into a touch mode.            *)
(***************************************************************************)
EXTENDS SensorNotifier

CONSTANTS
  Readings,    \* values the nonui sensor reports
  MaxEvents    \* bound: events in flight; a changing sensor leaves one place free

ASSUME MaxEventsAssumption == MaxEvents \in Nat \ {0, 1}

VARIABLES
  main,        \* where main() is
  manager,     \* the service process behind main()'s "manager" still runs
  reading,     \* what the nonui sensor measures
  events,      \* onEvent calls in flight, in order
  touchMode    \* value of TOUCH_MODE_NONUI_MODE in the touch driver

envVars == <<reading, touchMode>>
\* What the object's own steps leave alone.
notNotifier == <<main, manager, reading, touchMode>>
daemonVars == <<vars, main, manager, reading, events, touchMode>>

DaemonInit ==
  /\ Init
  /\ main = "getService"
  /\ manager = FALSE
  /\ reading \in Readings
  /\ events = <<>>
  /\ touchMode \in Readings

\* The calls in flight to a process are lost when it dies.
InFlight == IF proc' = "up" THEN events ELSE <<>>

-----------------------------------------------------------------------------
(* main()                                                                  *)

\* getService() returns a proxy of the process that is registered now ...
GetService ==
  /\ proc = "up" /\ main = "getService"
  /\ serviceUp
  /\ main' = "construct"
  /\ manager' = TRUE
  /\ UNCHANGED <<vars, envVars, events>>

\* ... and returns null without one: main() fails.
GetServiceNull ==
  /\ proc = "up" /\ main = "getService"
  /\ ~serviceUp
  /\ proc' = "exit"
  /\ UNCHANGED <<driverVars, serviceVars, queueVars, ownerVars, memberVars,
                 mActive, joinable, threadVars, initRes, openFailed, lostCall,
                 main, manager, envVars, events>>

\* The proxy of a process that died is dead for good, also when the service is
\* back: mManager's unchecked calls abort.
MainConstruct ==
  /\ main = "construct"
  /\ ConstructWith(manager)
  /\ main' = "activate"
  /\ events' = InFlight
  /\ UNCHANGED <<manager, envVars>>

MainActivate ==
  /\ proc = "up" /\ main = "activate"
  /\ Activate
  /\ main' = "sleep"
  /\ UNCHANGED <<manager, envVars, events>>

-----------------------------------------------------------------------------
(* The notify thread and the callback.                                     *)

\* An on-change sensor reports its value when it is enabled.
MainApply ==
  /\ Len(events) < MaxEvents
  /\ Apply
  /\ events' = IF enabled' # {} /\ enabled = {} THEN Append(events, reading)
                                                ELSE InFlight
  /\ UNCHANGED notNotifier

NotifyPoll == Poll /\ UNCHANGED <<notNotifier, events>>

NotifyThread ==
  \/ MainApply
  \/ NotifyPoll
  \/ (Open \/ Loop \/ ReadConsume \/ ReadValue) /\ UNCHANGED <<notNotifier, events>>

NotifyFaults == ThreadFaults /\ UNCHANGED <<notNotifier, events>>

\* ServeNewest is a mutant: a later call overtakes an earlier one.
ServeNewest ==
  /\ touchMode' = events[Len(events)]
  /\ events' = SubSeq(events, 1, Len(events) - 1)
ServeOldest ==
  /\ touchMode' = Head(events)
  /\ events' = Tail(events)

\* NonUiSensorCallback::onEvent.  Binder delivers oneway calls to one object
\* in order, one at a time.
OnEvent ==
  /\ proc = "up"
  /\ events # <<>>
  /\ ServeOldest
  /\ UNCHANGED <<vars, main, manager, reading>>

-----------------------------------------------------------------------------
(* init, the service and the sensor.                                       *)

\* "class main" without "oneshot": init starts the process again.
InitStays == FALSE /\ UNCHANGED daemonVars                 \* mutant: oneshot
InitRestart ==
  /\ proc # "up"
  /\ proc' = "up"
  /\ main' = "getService"
  /\ manager' = FALSE
  /\ owner' = "new"
  /\ mQueue' = FALSE /\ mSensorHandle' = -1
  /\ mActive' = FALSE /\ joinable' = FALSE
  /\ pc' = "none" /\ path' = 1 /\ on' = FALSE
  /\ unread' = [p \in Paths |-> FALSE]
  /\ initRes' = "none"
  /\ openFailed' = FALSE /\ ioErr' = FALSE /\ lostCall' = FALSE
  /\ UNCHANGED <<driverVars, serviceVars, queueVars, destroying, envVars, events>>

\* The service dies, and with it whatever proxy main() has of it.
DaemonServiceDies ==
  /\ ServiceDies
  /\ manager' = FALSE
  /\ UNCHANGED <<main, envVars, events>>

\* It comes back as another process, with the sensors it finds.
ServiceRestarts ==
  /\ ~serviceUp
  /\ serviceUp' = TRUE
  /\ catalogue' \in Catalogues
  /\ UNCHANGED <<driverVars, queueVars, proc, ownerVars, memberVars, mActive,
                 joinable, threadVars, initRes, openFailed, lostCall,
                 notNotifier, events>>

SensorChanges ==
  /\ Len(events) + 1 < MaxEvents
  /\ \E r \in Readings \ {reading} :
       /\ reading' = r
       /\ events' = IF enabled # {} THEN Append(events, r) ELSE events
  /\ UNCHANGED <<vars, main, manager, touchMode>>

World ==
  \/ DaemonServiceDies
  \/ ServiceRestarts
  \/ SensorChanges
  \/ \E p \in Paths : DriverStore(p) /\ UNCHANGED <<notNotifier, events>>

DaemonNotify(p) == DriverNotify(p) /\ UNCHANGED <<notNotifier, events>>

Main == GetService \/ GetServiceNull \/ MainConstruct \/ MainActivate

DaemonNext ==
  \/ World
  \/ \E p \in Paths : DaemonNotify(p)
  \/ Main
  \/ NotifyThread
  \/ NotifyFaults
  \/ OnEvent
  \/ InitRestart

\* Threads and binder run, init restarts, the driver notifies, and a poll() with
\* events pending does not fail every time; the service need not come back and
\* nothing in the world has to change or to fail.
DaemonSpec ==
  /\ DaemonInit
  /\ [][DaemonNext]_daemonVars
  /\ WF_daemonVars(Main)
  /\ WF_daemonVars(NotifyThread) /\ SF_daemonVars(NotifyPoll)
  /\ WF_daemonVars(OnEvent) /\ WF_daemonVars(InitRestart)
  /\ \A p \in Paths : WF_daemonVars(DaemonNotify(p))

-----------------------------------------------------------------------------
(* Properties.                                                             *)

HasSensor == \E i \in DOMAIN catalogue : IsWakeupNonUi(catalogue[i])

\* The thread sleeps on a queue that died with an earlier service process.
AsleepOnDeadQueue == At("poll") /\ mQueue /\ ~bound

\* The thread returned from notify() because a path could not be opened.
ThreadGone == pc = "exit"

\* initializeSensorQueue got an error Result from a service that has the sensor.
Refused == initRes \in {"getSensorList", "createEventQueue"}

\* One run of the process, however it was restarted, crashes only for a reason:
\* it aborts only when the service process that getService() returned has died
\* since (its return does not help: the proxy is of the dead one), and a null
\* queue is dereferenced only when initializeSensorQueue failed.  main() itself
\* never terminates it.
DaemonCrashCauses ==
  [][/\ proc = "up" /\ proc' = "abort" => ~manager
     /\ proc = "up" /\ proc' = "segv" => initRes \in {"getSensorList", "NOT_EXIST", "createEventQueue"}
     /\ proc' # "terminate"]_daemonVars

\* Recovery: once the attributes stop changing, the service stays up and lists
\* the sensor, the sensor ends up enabled exactly when some gesture is set,
\* through any crash and restart before.  The exceptions are what the code does
\* not recover from: a thread that sleeps for ever on a dead queue or is gone,
\* a last pass with a failed read, a last call or an initialization that the
\* service answered with an error.
DaemonConverges ==
  /\ <>[][UNCHANGED content]_content
  /\ <>[](/\ serviceUp /\ HasSensor
          /\ ~AsleepOnDeadQueue /\ ~ThreadGone
          /\ ~ioErr /\ ~lostCall /\ ~Refused)
  => <>[](enabled # {} <=> Wanted)

\* A dead queue is shed at the next gesture change: the thread that sleeps on it
\* wakes up, the process aborts and init starts it afresh.
DeadQueueShed ==
  (AsleepOnDeadQueue /\ \E p \in Paths : dirty[p] \/ unread[p]) ~> proc # "up"

\* While the sensor stays enabled and stable, the touch driver's nonui mode ends
\* up at its value: onEvent serves the calls in the order the sensor made them, so
\* that of two readings in flight the later one wins.
TouchModeFollows ==
  <>[][UNCHANGED reading]_reading /\ <>[](enabled # {}) => <>[](touchMode = reading)

=============================================================================

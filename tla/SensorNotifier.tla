--------------------------- MODULE SensorNotifier ---------------------------
(***************************************************************************)
(* The SensorNotifier / NonUiNotifier object of the sensor-notifier        *)
(* daemon (src/sensors): an owner thread that constructs, activates,       *)
(* deactivates and destroys it, the notify thread it starts, the touch     *)
(* driver whose three sysfs attributes that thread polls, and the sensor   *)
(* service it calls.                                                       *)
(***************************************************************************)
EXTENDS Integers, Sequences

CONSTANTS
  NumPaths,    \* paths.size() in NonUiNotifier::notify
  Contents,    \* first characters a sysfs attribute may show ("" when empty)
  Catalogues,  \* sensor lists the service may report
  Faults       \* kinds of failure the environment may produce

FaultKinds == {"init", "open", "poll", "read", "call", "service"}

Sensor == [type : {"nonui", "other"}, wakeup : BOOLEAN, handle : Nat]

ASSUME NumPathsAssumption == NumPaths \in Nat \ {0}
ASSUME CataloguesAssumption == Catalogues \subseteq Seq(Sensor)
ASSUME FaultsAssumption == Faults \subseteq FaultKinds

Paths == 1..NumPaths

VARIABLES
  \* touch driver
  content,    \* what each attribute shows now
  dirty,      \* attribute stored, sysfs_notify not yet called
  unread,     \* event the descriptor has not consumed: poll() reports POLLPRI
  \* sensor service
  catalogue,  \* sensors it lists
  serviceUp,  \* the service process runs
  bound,      \* its end of our event queue exists
  enabled,    \* handles enabled on that queue
  \* process
  proc,       \* "up", or how the process died
  owner,      \* where the owner thread is
  destroying, \* the deactivate() in progress was called by the destructor
  \* SensorNotifier members; mQueue is TRUE when the pointer is not null and
  \* joinable is mThread.joinable()
  mQueue, mSensorHandle, mActive, joinable,
  \* notify thread: position, index of the attribute, local "enabled"
  pc, path, on,
  \* history: Result of initializeSensorQueue, a failed open(), an I/O error in
  \* the last pass over the attributes, a last call that had no effect
  initRes, openFailed, ioErr, lostCall

driverVars  == <<content, dirty>>
serviceVars == <<catalogue, serviceUp>>
queueVars   == <<bound, enabled>>
ownerVars   == <<owner, destroying>>
memberVars  == <<mQueue, mSensorHandle>>
threadVars  == <<pc, path, on, unread, ioErr>>
\* What a step of the notify thread, and one of the owner, seldom changes.
notThread == <<driverVars, serviceVars, ownerVars, memberVars, joinable, initRes>>
notOwner  == <<driverVars, serviceVars, path, on, unread, ioErr, openFailed>>
vars == <<driverVars, serviceVars, queueVars, proc, ownerVars, memberVars,
          mActive, joinable, threadVars, initRes, openFailed, lostCall>>

Init ==
  /\ content \in [Paths -> Contents]
  /\ dirty = [p \in Paths |-> FALSE]
  /\ unread = [p \in Paths |-> FALSE]
  /\ catalogue \in Catalogues
  /\ serviceUp = TRUE
  /\ bound = FALSE
  /\ enabled = {}
  /\ proc = "up"
  /\ owner = "new"
  /\ destroying = FALSE
  /\ mQueue = FALSE
  /\ mSensorHandle = -1
  /\ mActive = FALSE
  /\ joinable = FALSE
  /\ pc = "none"
  /\ path = 1
  /\ on = FALSE
  /\ initRes = "none"
  /\ openFailed = FALSE
  /\ ioErr = FALSE
  /\ lostCall = FALSE

-----------------------------------------------------------------------------
(* The touch driver: it stores a value, then calls sysfs_notify.           *)

DriverStore(p) ==
  /\ \E c \in Contents \ {content[p]} : content' = [content EXCEPT ![p] = c]
  /\ dirty' = [dirty EXCEPT ![p] = TRUE]
  /\ UNCHANGED <<serviceVars, queueVars, proc, ownerVars, memberVars, mActive,
                 joinable, threadVars, initRes, openFailed, lostCall>>

DriverNotify(p) ==
  /\ dirty[p]
  /\ dirty' = [dirty EXCEPT ![p] = FALSE]
  /\ unread' = [unread EXCEPT ![p] = TRUE]
  /\ UNCHANGED <<content, serviceVars, queueVars, proc, ownerVars, memberVars,
                 mActive, joinable, pc, path, on, ioErr, initRes, openFailed,
                 lostCall>>

-----------------------------------------------------------------------------
(* The sensor service.  It drops the queue and everything enabled on it    *)
(* when it dies, when our process dies and when mQueue is released.        *)

ServiceDies ==
  /\ "service" \in Faults
  /\ serviceUp
  /\ serviceUp' = FALSE
  /\ bound' = FALSE
  /\ enabled' = {}
  /\ UNCHANGED <<driverVars, catalogue, proc, ownerVars, memberVars, mActive,
                 joinable, threadVars, initRes, openFailed, lostCall>>

\* An error Result leaves the sensor as it was.
EnableSensor(h) ==
  \/ enabled' = enabled \cup {h} /\ lostCall' = FALSE
  \/ "call" \in Faults /\ UNCHANGED enabled /\ lostCall' = (h \notin enabled)

DisableSensor(h) ==
  \/ enabled' = enabled \ {h} /\ lostCall' = FALSE
  \/ "call" \in Faults /\ UNCHANGED enabled /\ lostCall' = (h \in enabled)

\* The process dies: SIGSEGV, std::terminate, or libhidl aborting on a
\* transport error that nobody checked.
Crash(cause) ==
  /\ proc' = cause
  /\ bound' = FALSE
  /\ enabled' = {}

-----------------------------------------------------------------------------
(* The owner thread.                                                       *)

MatchesAnyFlag(s) == s.type = "nonui"              \* mutant: flag not compared
Matches(s) == s.type = "nonui" /\ s.wakeup

IsFirstMatch(i) ==
  /\ Matches(catalogue[i])
  /\ \A j \in 1..(i - 1) : ~Matches(catalogue[j])

GetSensorListFails ==
  /\ "init" \in Faults
  /\ initRes' = "getSensorList"
  /\ UNCHANGED <<queueVars, memberVars>>

SensorNotExist ==
  /\ \A i \in DOMAIN catalogue : ~Matches(catalogue[i])
  /\ initRes' = "NOT_EXIST"
  /\ UNCHANGED <<queueVars, memberVars>>

\* Mutant: the callback does not store the queue.
QueueNotStored == mQueue' = FALSE
QueueStored == mQueue' = TRUE

\* An error Result of createEventQueue comes with or without a queue: the
\* callback stores q before r is looked at.
CreateEventQueue(i) ==
  /\ IsFirstMatch(i)
  /\ mSensorHandle' = catalogue[i].handle
  /\ \/ initRes' = "OK" /\ QueueStored
     \/ "init" \in Faults /\ initRes' = "createEventQueue" /\ mQueue' \in BOOLEAN
  /\ bound' = mQueue'
  /\ UNCHANGED enabled

InitializeSensorQueue ==
  \/ GetSensorListFails
  \/ SensorNotExist
  \/ \E i \in DOMAIN catalogue : CreateEventQueue(i)

\* NonUiNotifier::NonUiNotifier drops the Result.  alive: the process behind
\* the manager it was given still runs.
ConstructWith(alive) ==
  /\ proc = "up" /\ owner = "new"
  /\ \/ alive /\ InitializeSensorQueue /\ owner' = "idle" /\ UNCHANGED proc
     \/ ~alive /\ Crash("abort") /\ UNCHANGED <<owner, memberVars, initRes>>
  /\ UNCHANGED <<notOwner, destroying, mActive, joinable, pc, lostCall>>

\* Here the service never comes back, so the manager lives while it does.
Construct == ConstructWith(serviceUp)

\* activate() returns at once when mActive.
MayStartAgain == TRUE                              \* mutant: no early return
MayStart == ~mActive

\* Assigning to a joinable std::thread terminates the process.
Activate ==
  /\ proc = "up" /\ owner = "idle"
  /\ MayStart
  /\ mActive' = TRUE
  /\ joinable' = TRUE
  /\ IF joinable
       THEN Crash("terminate") /\ UNCHANGED <<pc, path>>
       ELSE pc' = "open" /\ path' = 1 /\ UNCHANGED <<proc, queueVars>>
  /\ UNCHANGED <<driverVars, serviceVars, ownerVars, memberVars, on, unread,
                 ioErr, initRes, openFailed, lostCall>>

\* deactivate() clears mActive and joins; it returns at once when ~mActive.
SkipJoin == "disable"                              \* mutant: no join
AfterClearingActive == "join"

Deactivate ==
  /\ proc = "up" /\ owner = "idle"
  /\ mActive
  /\ mActive' = FALSE
  /\ owner' = AfterClearingActive
  /\ UNCHANGED <<notOwner, queueVars, proc, destroying, memberVars, joinable,
                 pc, initRes, lostCall>>

AfterDeactivate == IF destroying THEN "clear" ELSE "idle"

Join ==
  /\ proc = "up" /\ owner = "join"
  /\ pc = "exit"
  /\ joinable' = FALSE
  /\ pc' = "none"
  /\ owner' = IF mQueue THEN "disable" ELSE AfterDeactivate
  /\ UNCHANGED <<notOwner, queueVars, proc, destroying, memberVars, mActive,
                 initRes, lostCall>>

\* The disableSensor that ends deactivate().
Disable ==
  /\ proc = "up" /\ owner = "disable"
  /\ \/ bound /\ DisableSensor(mSensorHandle) /\ owner' = AfterDeactivate
        /\ UNCHANGED <<proc, bound>>
     \/ ~bound /\ Crash("abort") /\ UNCHANGED <<owner, lostCall>>
  /\ UNCHANGED <<notOwner, destroying, memberVars, mActive, joinable, pc,
                 initRes>>

\* ~NonUiNotifier calls deactivate.
DestroyActive == owner' = "clear" /\ UNCHANGED mActive  \* mutant: no deactivate
DestroyBegins == owner' = (IF mActive THEN "join" ELSE "clear") /\ mActive' = FALSE

Destroy ==
  /\ proc = "up" /\ owner = "idle"
  /\ destroying' = TRUE
  /\ DestroyBegins
  /\ UNCHANGED <<notOwner, queueVars, proc, memberVars, joinable, pc, initRes,
                 lostCall>>

\* ~SensorNotifier releases the queue ...
ClearQueue ==
  /\ proc = "up" /\ owner = "clear"
  /\ mQueue' = FALSE
  /\ bound' = FALSE
  /\ enabled' = {}
  /\ owner' = "members"
  /\ UNCHANGED <<notOwner, proc, destroying, mSensorHandle, mActive, joinable,
                 pc, initRes, lostCall>>

\* ... and then its members go: ~thread terminates a joinable thread's process.
DestroyMembers ==
  /\ proc = "up" /\ owner = "members"
  /\ \/ joinable /\ Crash("terminate") /\ UNCHANGED owner
     \/ ~joinable /\ owner' = "gone" /\ UNCHANGED <<proc, queueVars>>
  /\ UNCHANGED <<notOwner, destroying, memberVars, mActive, joinable, pc,
                 initRes, lostCall>>

-----------------------------------------------------------------------------
(* The notify thread: NonUiNotifier::notify.                               *)

At(l) == proc = "up" /\ pc = l

\* Steps that make no call and leave mActive alone.
Local == UNCHANGED <<notThread, queueVars, proc, mActive, openFailed, lostCall>>

\* open() of one path.  A new sysfs descriptor has an event pending.
Open ==
  /\ At("open")
  /\ unread' = [unread EXCEPT ![path] = TRUE]
  /\ pc' = IF path = NumPaths THEN "loop" ELSE "open"
  /\ path' = IF path = NumPaths THEN 1 ELSE path + 1
  /\ Local /\ UNCHANGED <<on, ioErr>>

OpenFails ==
  /\ At("open")
  /\ "open" \in Faults
  /\ mActive' = FALSE
  /\ openFailed' = TRUE
  /\ pc' = "exit"
  /\ UNCHANGED <<notThread, queueVars, proc, path, on, unread, ioErr, lostCall>>

\* while (mActive)
LoopForever == "poll"                              \* mutant: while (true)
LoopTest == IF mActive THEN "poll" ELSE "exit"

Loop ==
  /\ At("loop")
  /\ pc' = LoopTest
  /\ Local /\ UNCHANGED <<path, on, unread, ioErr>>

\* poll(..., -1) returns when some descriptor has an event ...
Poll ==
  /\ At("poll")
  /\ \E p \in Paths : unread[p]
  /\ pc' = "read"
  /\ path' = 1
  /\ on' = FALSE
  /\ ioErr' = FALSE
  /\ Local /\ UNCHANGED unread

\* ... or fails.
PollFails ==
  /\ At("poll")
  /\ "poll" \in Faults
  /\ pc' = "loop"
  /\ Local /\ UNCHANGED <<path, on, unread, ioErr>>

\* readBool: c != '0', and false when read() gives no character.
ReadBool(c) == c \notin {"0", ""}

\* enabled = enabled || readBool(...): nothing is read once it is true.
PassEndsLastWins(value) == path = NumPaths         \* mutant: enabled = readBool(...)
PassEndsLate(value) == value \/ path > NumPaths    \* mutant: i <= paths.size()
PassEnds(value) == value \/ path = NumPaths

EndRead(value) ==
  /\ on' = value
  /\ IF PassEnds(value)
       THEN pc' = "apply" /\ UNCHANGED path
       ELSE pc' = "read" /\ path' = path + 1

\* lseek and read: the kernel consumes the event, then produces the value.
NotConsumed == unread                              \* mutant: fd not read again
Consumed == [unread EXCEPT ![path] = FALSE]

ReadConsume ==
  /\ At("read")
  /\ unread' = Consumed
  /\ pc' = "fetch"
  /\ Local /\ UNCHANGED <<path, on, ioErr>>

ReadValue ==
  /\ At("fetch")
  /\ EndRead(ReadBool(content[path]))
  /\ Local /\ UNCHANGED <<unread, ioErr>>

\* lseek fails with the event still pending, or read fails with it consumed.
ReadFails ==
  /\ At("read")
  /\ "read" \in Faults
  /\ unread' \in {unread, [unread EXCEPT ![path] = FALSE]}
  /\ ioErr' = TRUE
  /\ EndRead(FALSE)
  /\ Local

\* EnableOnly is a mutant: the sensor is never disabled.
EnableOnly == IF on THEN EnableSensor(mSensorHandle) ELSE UNCHANGED <<enabled, lostCall>>
CallSensor == IF on THEN EnableSensor(mSensorHandle) ELSE DisableSensor(mSensorHandle)

\* TransportIgnored is a mutant: the error is swallowed.
TransportIgnored == pc' = "loop" /\ UNCHANGED <<proc, queueVars, lostCall>>
TransportError == Crash("abort") /\ UNCHANGED <<pc, lostCall>>

\* enableSensor or disableSensor through mQueue, which nobody checks for null.
Apply ==
  /\ At("apply")
  /\ \/ mQueue /\ bound /\ CallSensor /\ pc' = "loop" /\ UNCHANGED <<proc, bound>>
     \/ mQueue /\ ~bound /\ TransportError
     \/ ~mQueue /\ Crash("segv") /\ UNCHANGED <<pc, lostCall>>
  /\ UNCHANGED <<notThread, mActive, path, on, unread, ioErr, openFailed>>

-----------------------------------------------------------------------------
Driver == \E p \in Paths : DriverStore(p) \/ DriverNotify(p)

OwnerCalls == Construct \/ Activate \/ Deactivate \/ Destroy

OwnerContinues == Join \/ Disable \/ ClearQueue \/ DestroyMembers

ThreadRuns == Open \/ Loop \/ Poll \/ ReadConsume \/ ReadValue \/ Apply

ThreadFaults == OpenFails \/ PollFails \/ ReadFails

Next == Driver \/ ServiceDies \/ OwnerCalls \/ OwnerContinues
          \/ ThreadRuns \/ ThreadFaults

Spec == Init /\ [][Next]_vars

\* The scheduler runs a runnable thread, a driver that stored a value gets to
\* its sysfs_notify, and a poll() with events pending does not fail every time
\* (Linux reports EINTR only when there are none).  Nobody has to change a
\* gesture, call a method or fail.
Fairness ==
  /\ WF_vars(ThreadRuns)
  /\ SF_vars(Poll)
  /\ WF_vars(OwnerContinues)
  /\ \A p \in Paths : WF_vars(DriverNotify(p))

FairSpec == Spec /\ Fairness

-----------------------------------------------------------------------------
(* Properties.                                                             *)

Causes == {"segv", "terminate", "abort"}
OwnerStates == {"new", "idle", "join", "disable", "clear", "members", "gone"}
ThreadStates == {"none", "open", "loop", "poll", "read", "fetch", "apply", "exit"}
InitResults == {"none", "getSensorList", "NOT_EXIST", "createEventQueue", "OK"}

\* Type invariant: every variable of the object, of its two threads, of the
\* driver and of the service keeps its type.
TypeOK ==
  /\ content \in [Paths -> Contents]
  /\ dirty \in [Paths -> BOOLEAN]
  /\ unread \in [Paths -> BOOLEAN]
  /\ catalogue \in Catalogues
  /\ serviceUp \in BOOLEAN /\ bound \in BOOLEAN
  /\ enabled \subseteq Int
  /\ proc \in {"up"} \cup Causes
  /\ owner \in OwnerStates /\ destroying \in BOOLEAN
  /\ mQueue \in BOOLEAN /\ mSensorHandle \in Int
  /\ mActive \in BOOLEAN /\ joinable \in BOOLEAN
  /\ pc \in ThreadStates /\ path \in Paths /\ on \in BOOLEAN
  /\ initRes \in InitResults
  /\ openFailed \in BOOLEAN /\ ioErr \in BOOLEAN /\ lostCall \in BOOLEAN

Wanted == \E p \in Paths : ReadBool(content[p])

Quiet == \A p \in Paths : ~dirty[p] /\ ~unread[p]

\* NonUiNotifier::notify never sleeps on a lost wakeup: when it is blocked in
\* poll() with no event pending or on its way, the nonui sensor is enabled
\* exactly when some gesture attribute is set.  Excepted are the failures the
\* code logs and does not retry: an I/O error in the last pass, an error Result
\* of the last call, a dead queue.
NoLostWakeup ==
  At("poll") /\ Quiet /\ ~ioErr /\ ~lostCall /\ bound
    => (enabled = IF Wanted THEN {mSensorHandle} ELSE {})

\* deactivate() leaves the sensor off: the join comes before disableSensor, so
\* that no enableSensor of the notify thread can follow it (unless disableSensor
\* itself returned an error).
DeactivatedMeansDisabled ==
  proc = "up" /\ owner = "idle" /\ ~mActive /\ ~lostCall => enabled = {}

\* activate() and ~SensorNotifier reach std::terminate, by assigning to or
\* destroying a joinable mThread, only after notify() failed to open a path.
TerminateOnlyAfterOpenFailure == proc = "terminate" => openFailed

\* notify() dereferences a null mQueue only when initializeSensorQueue failed
\* (the constructor drops its Result), never because the queue was released
\* under the thread: the destructor's join comes before mQueue = nullptr.
SegvOnlyIfInitFailed == proc = "segv" => initRes \in InitResults \ {"none", "OK"}

IsWakeupNonUi(s) == s.type = "nonui" /\ s.wakeup

IsChosen(h) ==
  \E i \in DOMAIN catalogue :
    /\ catalogue[i].handle = h
    /\ IsWakeupNonUi(catalogue[i])
    /\ \A j \in 1..(i - 1) : ~IsWakeupNonUi(catalogue[j])

\* Only the first wake-up nonui sensor of the service's list is ever enabled,
\* and never the initial handle -1.
OnlyChosenSensorEnabled == \A h \in enabled : IsChosen(h)

\* Convergence: when the attributes stop changing while the notifier stays
\* active, the sensor ends up and stays enabled exactly when some gesture is set.
Converges ==
  \A v \in [Paths -> Contents] :
    [](<>[](content = v /\ mActive /\ proc = "up" /\ mQueue)
       => <>[](enabled = IF \E p \in Paths : ReadBool(v[p]) THEN {mSensorHandle} ELSE {}))

\* With every gesture off for good, notify() goes to sleep in poll(): it has
\* consumed all events and makes no further pass (a failed poll() is repeated).
SleepsWhenOff ==
  <>[](mActive /\ proc = "up" /\ ~Wanted) => <>[](pc \in {"poll", "loop"})

\* deactivate() hangs in join() only when the thread sleeps in poll(..., -1)
\* with nothing pending: from every other state the join completes.
JoinCompletesUnlessAsleep ==
  (owner = "join" /\ (pc # "poll" \/ \E p \in Paths : unread[p]))
    ~> (owner # "join" \/ proc # "up")

-----------------------------------------------------------------------------
(* The inductive invariant behind the safety properties.                   *)

\* A change of attribute p that the thread has still to be told of.
Stale(p) == unread[p] \/ dirty[p]

\* No gesture is set, or is set without the thread having to learn of it.
NoneSet(Q) == \A p \in Q : ReadBool(content[p]) => Stale(p)
SomeSet == \E p \in Paths : ReadBool(content[p]) \/ Stale(p)

QueueInv ==
  /\ enabled \subseteq {mSensorHandle}
  /\ enabled # {} => bound
  /\ bound => mQueue /\ IsChosen(mSensorHandle)
  /\ mQueue \/ initRes \in InitResults \ {"none", "OK"}
       \/ owner \in {"new", "members", "gone"}

ThreadInv ==
  /\ joinable <=> pc # "none"
  /\ owner \in {"new", "disable", "gone"} => pc = "none"
  /\ owner = "new" => enabled = {} /\ ~mActive
  /\ proc = "up" /\ mActive => owner = "idle" /\ pc \notin {"none", "exit"}
  /\ proc = "up" /\ ~mActive /\ owner \in {"idle", "clear", "members"} =>
       pc = "none" \/ (pc = "exit" /\ openFailed)
  /\ proc = "up" /\ pc = "open" /\ ~lostCall => enabled = {}

PassInv ==
  /\ pc = "open" => \A p \in 1..(path - 1) : unread[p]
  /\ pc \in {"read", "fetch"} => ~on
  /\ pc \in {"read", "fetch"} /\ ~ioErr => NoneSet(1..(path - 1))
  /\ pc = "apply" /\ ~ioErr => IF on THEN SomeSet ELSE NoneSet(Paths)
  /\ pc \in {"loop", "poll"} /\ ~ioErr /\ ~lostCall /\ bound =>
       IF enabled # {} THEN SomeSet ELSE NoneSet(Paths)

\* The conjunction is inductive.
IInv ==
  /\ TypeOK
  /\ QueueInv
  /\ ThreadInv
  /\ PassInv
  /\ DeactivatedMeansDisabled
  /\ TerminateOnlyAfterOpenFailure
  /\ SegvOnlyIfInitFailed

=============================================================================

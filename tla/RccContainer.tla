---------------------------- MODULE RccContainer ----------------------------
(***************************************************************************)
(* Control of RCC workers (core/container): the application's thread calls *)
(* control operations on workers while the container's own thread runs     *)
(* the workers that are started.                                           *)
(*                                                                         *)
(* A worker has a recursive mutex, held during a control operation and     *)
(* during run; the container has another, held during dispatch and while   *)
(* an application is destroyed.  getControlState, isDone and m_enabled are *)
(* read without a mutex.  A step of the model is a region under the mutex  *)
(* of a worker, split where its intermediate state can be seen.            *)
(***************************************************************************)
EXTENDS Naturals, FiniteSets

CONSTANTS
  NWorkers,        \* workers of the application, in creation order
  Results,         \* what control methods of a worker return
  RunResults,      \* what its run method returns
  PortErrors,      \* the transport may fail a port that is used
  Callbacks,       \* workers have port callbacks
  TransportFails,  \* the transport's dispatch may throw
  StopsContainer,  \* the application may stop and start the container
  NDEBUG,          \* assertions are compiled out
  MaxCalls,        \* bound: calls the application makes
  MaxRuns          \* bound: a worker is done after this many runs

ASSUME CountAssumption == {NWorkers, MaxCalls, MaxRuns} \subseteq Nat

ASSUME ResultAssumption ==
  /\ "ok" \in Results /\ Results \subseteq {"ok", "error", "fatal", "invalid"}
  /\ "done" \in RunResults
  /\ RunResults \subseteq {"ok", "advance", "advance_done", "done", "fatal", "errorString"}

ASSUME SwitchAssumption ==
  {PortErrors, Callbacks, TransportFails, StopsContainer, NDEBUG} \subseteq BOOLEAN

VARIABLES
  worker,     \* of each worker: m_state, enabled, and history (see Record)
  runs,       \* how often its run method was called
  mutex,      \* who holds the worker's mutex
  lock,       \* who holds the container's mutex
  m_enabled,  \* the container is enabled
  thread,     \* where the container's thread is
  cur,        \* the worker it deals with
  user,       \* where the application's thread is
  calls,      \* how many calls it has made
  crashed     \* what ended the process, or "no"

vars == <<worker, runs, mutex, lock, m_enabled, thread, cur, user, calls, crashed>>

Worker == 1 .. NWorkers

ControlState == {"EXISTS", "INITIALIZED", "OPERATING", "SUSPENDED", "FINISHED", "UNUSABLE"}

ControlOp == {"initialize", "start", "stop", "release",
              "beforeQuery", "afterConfigure", "test"}

\* phase is what the worker's own code was told last, misused that one of
\* its methods was called out of order, alive that it is not destroyed.
Record == [m_state : ControlState, enabled : BOOLEAN, alive : BOOLEAN,
           phase : {"new", "failed", "initialized", "started", "stopped", "released"},
           misused : BOOLEAN]

\* The call the application is making: a control operation, or "exit" for
\* the destruction of the container, and the worker it is for.
User == [step : {"idle", "control", "end", "wait", "join", "lock", "delete", "exited"},
         op : ControlOp \cup {"none", "exit"}, w : 0 .. NWorkers + 1]

Idle == [step |-> "idle", op |-> "none", w |-> 0]

Init ==
  /\ worker = [w \in Worker |-> [m_state |-> "EXISTS", enabled |-> FALSE, alive |-> TRUE,
                                 phase |-> "new", misused |-> FALSE]]
  /\ runs = [w \in Worker |-> 0]
  /\ mutex = [w \in Worker |-> "none"]
  /\ lock = "none"
  /\ m_enabled = FALSE
  /\ thread = "none" /\ cur = 0
  /\ user = Idle /\ calls = 0
  /\ crashed = "no"

-----------------------------------------------------------------------------
(***************************************************************************)
(* The methods of a worker, and controlOperation.                          *)
(***************************************************************************)

\* In which phases the code of a worker may be asked for a method.
Expects(method) ==
  CASE method = "initialize" -> {"new", "released"}
    [] method = "start"      -> {"initialized", "stopped"}
    [] method \in {"stop", "run"} -> {"started"}
    [] OTHER -> {"initialized", "started", "stopped"}

Called(r, method) == [r EXCEPT !.misused = @ \/ r.phase \notin Expects(method)]

\* What a method that succeeds, or release in any case, leaves behind.  A
\* start that returns RCC_OK enables the worker even if a port failed in it,
\* and portError has released the worker meanwhile: it counts as started.
Effect(r, op) ==
  CASE op = "initialize" -> [r EXCEPT !.phase = "initialized"]
    [] op = "start"   -> [r EXCEPT !.phase = "started", !.enabled = TRUE]
    [] op = "stop"    -> [r EXCEPT !.phase = "stopped", !.enabled = FALSE, !.m_state = "SUSPENDED"]
    [] op = "release" -> [r EXCEPT !.phase = "released", !.enabled = FALSE, !.m_state = "UNUSABLE"]
    [] OTHER -> r

\* controlOperation once the method, of result rc, has returned: the worker,
\* and whether an exception leaves it.  Any result but RCC_OK is thrown;
\* RCC_FATAL also makes the worker unusable, and a result that is none of
\* the three disables it.
Returned(r, op, rc) ==
  LET e == CASE rc = "ok" \/ op = "release" -> Effect(r, op)
             [] rc # "ok" /\ op = "initialize" -> [r EXCEPT !.phase = "failed"]
             [] OTHER -> r
  IN [w |-> CASE rc = "fatal" -> [e EXCEPT !.enabled = FALSE, !.m_state = "UNUSABLE"]
              [] rc = "invalid" -> [e EXCEPT !.enabled = FALSE]
              [] OTHER -> e,
      threw |-> rc # "ok"]

ControlOperation(r, op, rc) == Returned(Called(r, op), op, rc)

\* Disable the worker, stop it and, unless stop throws, release it.
StopAndRelease(r, a, b) ==
  LET s == ControlOperation([r EXCEPT !.enabled = FALSE], "stop", a)
  IN IF s.threw THEN s ELSE ControlOperation(s.w, "release", b)

\* portError: stop, release, unusable.
PortError(r) == {StopAndRelease(r, a, b) : a \in Results, b \in Results}

\* A use of a port by or for a worker: nothing happens to the worker, or
\* the port fails.
UsePort(r) ==
  {[w |-> r, threw |-> FALSE]} \cup (IF PortErrors THEN PortError(r) ELSE {})

\* What controlOperation may do.  start and test may be refused before the
\* worker is called (a port that is not connected, no test method), and
\* start may use ports.
Outcomes(r, op) ==
  CASE op = "start" ->
         {[w |-> r, threw |-> TRUE]} \cup
         UNION {IF p.threw THEN {p} ELSE {Returned(p.w, op, rc) : rc \in Results} :
                  p \in UsePort(Called(r, op))}
    [] op = "test" ->
         {[w |-> r, threw |-> TRUE]} \cup {ControlOperation(r, op, rc) : rc \in Results}
    [] OTHER -> {ControlOperation(r, op, rc) : rc \in Results}

-----------------------------------------------------------------------------
(***************************************************************************)
(* controlOp, by the application's thread or by the container's.           *)
(***************************************************************************)

NextState == [initialize |-> "INITIALIZED", start |-> "OPERATING", stop |-> "SUSPENDED",
              release |-> "EXISTS", beforeQuery |-> "NONE", afterConfigure |-> "NONE",
              test |-> "NONE"]

\* Mutant of ValidIn: a worker that was released may be started.
ValidInAny ==
  [initialize |-> {"EXISTS"}, start |-> {"SUSPENDED", "INITIALIZED", "EXISTS"},
   stop |-> {"OPERATING", "FINISHED"},
   release |-> {"INITIALIZED", "OPERATING", "SUSPENDED", "FINISHED"},
   beforeQuery |-> {"INITIALIZED", "OPERATING", "SUSPENDED", "FINISHED"},
   afterConfigure |-> {"INITIALIZED", "OPERATING", "SUSPENDED"},
   test |-> {"INITIALIZED"}]

\* Mutant of ValidIn: an unusable worker may be released.
ValidInMore ==
  [initialize |-> {"EXISTS"}, start |-> {"SUSPENDED", "INITIALIZED"},
   stop |-> {"OPERATING", "FINISHED"},
   release |-> {"INITIALIZED", "OPERATING", "SUSPENDED", "FINISHED", "UNUSABLE"},
   beforeQuery |-> {"INITIALIZED", "OPERATING", "SUSPENDED", "FINISHED"},
   afterConfigure |-> {"INITIALIZED", "OPERATING", "SUSPENDED"},
   test |-> {"INITIALIZED"}]

ValidIn ==
  [initialize |-> {"EXISTS"}, start |-> {"SUSPENDED", "INITIALIZED"},
   stop |-> {"OPERATING", "FINISHED"},
   release |-> {"INITIALIZED", "OPERATING", "SUSPENDED", "FINISHED"},
   beforeQuery |-> {"INITIALIZED", "OPERATING", "SUSPENDED", "FINISHED"},
   afterConfigure |-> {"INITIALIZED", "OPERATING", "SUSPENDED"},
   test |-> {"INITIALIZED"}]

\* Container::start: the thread is created once.
ContainerStart ==
  /\ m_enabled' = TRUE
  /\ thread' = IF ~ m_enabled /\ thread = "none" THEN "top" ELSE thread

\* Starting and stopping after finished is ignored, and so is an operation
\* whose next state is the current one.
Ignored(s, op) == s = "FINISHED" /\ op \in {"start", "stop"}
Skipped(s, op) == s = NextState[op]

\* The operation is refused, or its method threw: the caller gets an
\* exception, and the container is not started.
ControlThrows(w, op) ==
  /\ mutex[w] = "none"
  /\ LET s == worker[w].m_state IN
     /\ ~ Ignored(s, op) /\ ~ Skipped(s, op)
     /\ \/ s \notin ValidIn[op] /\ UNCHANGED worker
        \/ /\ s \in ValidIn[op]
           /\ \E o \in Outcomes(worker[w], op) :
                o.threw /\ worker' = [worker EXCEPT ![w] = o.w]
  /\ UNCHANGED <<mutex, m_enabled, thread>>

\* The method succeeded; the control state is not set yet.
ControlBegins(a, w, op) ==
  /\ mutex[w] = "none"
  /\ LET s == worker[w].m_state IN
     /\ ~ Ignored(s, op) /\ ~ Skipped(s, op) /\ s \in ValidIn[op]
     /\ \E o \in Outcomes(worker[w], op) :
          ~ o.threw /\ worker' = [worker EXCEPT ![w] = o.w]
  /\ mutex' = [mutex EXCEPT ![w] = a]
  /\ UNCHANGED <<m_enabled, thread>>

\* Nothing to do for the worker.
ControlSkips(w, op) ==
  /\ mutex[w] = "none"
  /\ LET s == worker[w].m_state IN
     \/ Ignored(s, op) /\ UNCHANGED <<m_enabled, thread>>
     \/ Skipped(s, op) /\ ContainerStart
  /\ UNCHANGED <<worker, mutex>>

\* Mutant of SetState: the test for an operation without next state is dropped.
SetAnyState(r, op) == [r EXCEPT !.m_state = NextState[op]]

SetState(r, op) == IF NextState[op] = "NONE" THEN r ELSE [r EXCEPT !.m_state = NextState[op]]

\* setControlState and Container::start, then the mutex is released.
ControlEnds(a, w, op) ==
  /\ mutex[w] = a
  /\ worker' = [worker EXCEPT ![w] = SetState(@, op)]
  /\ mutex' = [mutex EXCEPT ![w] = "none"]
  /\ ContainerStart

-----------------------------------------------------------------------------
(***************************************************************************)
(* The application's thread.                                               *)
(***************************************************************************)

\* A call of the API begins.  A worker is initialized when it is created,
\* and the application only gets it if that succeeds.
Call ==
  /\ crashed = "no" /\ user = Idle /\ calls < MaxCalls
  /\ calls' = calls + 1
  /\ \E w \in Worker : /\ worker[w].alive /\ worker[w].phase # "failed"
                       /\ \/ \E op \in ControlOp :
                               /\ op = "initialize" <=> worker[w].phase = "new"
                               /\ user' = [step |-> "control", op |-> op, w |-> w]
                          \/ /\ worker[w].phase # "new"
                             /\ user' = [step |-> "wait", op |-> "none", w |-> w]
  /\ UNCHANGED <<worker, runs, mutex, lock, m_enabled, thread, cur, crashed>>

Control ==
  /\ crashed = "no" /\ user.step = "control"
  /\ \/ ControlThrows(user.w, user.op) /\ user' = Idle
     \/ ControlSkips(user.w, user.op) /\ user' = Idle
     \/ ControlBegins("user", user.w, user.op) /\ user' = [user EXCEPT !.step = "end"]
  /\ UNCHANGED <<runs, lock, cur, calls, crashed>>

End ==
  /\ crashed = "no" /\ user.step = "end"
  /\ ControlEnds("user", user.w, user.op)
  /\ user' = Idle
  /\ UNCHANGED <<runs, lock, cur, calls, crashed>>

IsDone(w) == worker[w].m_state \in {"UNUSABLE", "FINISHED"}

\* wait: polls the state, which it reads without the mutex.
Wait ==
  /\ crashed = "no" /\ user.step = "wait" /\ IsDone(user.w)
  /\ user' = Idle
  /\ UNCHANGED <<worker, runs, mutex, lock, m_enabled, thread, cur, calls, crashed>>

StopContainer ==
  /\ crashed = "no" /\ user = Idle /\ calls < MaxCalls /\ StopsContainer
  /\ calls' = calls + 1
  /\ m_enabled' = FALSE
  /\ UNCHANGED <<worker, runs, mutex, lock, thread, cur, user, crashed>>

StartContainer ==
  /\ crashed = "no" /\ user = Idle /\ calls < MaxCalls /\ StopsContainer
  /\ calls' = calls + 1
  /\ ContainerStart
  /\ UNCHANGED <<worker, runs, mutex, lock, cur, user, crashed>>

\* ~Application waits for the container's mutex; ~Container first disables
\* the container and joins its thread.
Destroy ==
  /\ crashed = "no" /\ user = Idle /\ calls < MaxCalls
  /\ calls' = calls + 1
  /\ \/ /\ \E w \in Worker : worker[w].alive
        /\ user' = [step |-> "lock", op |-> "none", w |-> 1]
        /\ UNCHANGED m_enabled
     \/ user' = [step |-> "join", op |-> "none", w |-> 1] /\ m_enabled' = FALSE
  /\ UNCHANGED <<worker, runs, mutex, lock, thread, cur, crashed>>

\* Container::shutdown joins the thread, if there is one.
Join ==
  /\ crashed = "no" /\ user.step = "join" /\ thread \in {"none", "gone"}
  /\ user' = [user EXCEPT !.step = "lock", !.op = "exit"]
  /\ UNCHANGED <<worker, runs, mutex, lock, m_enabled, thread, cur, calls, crashed>>

\* Mutant of Lock: the container's mutex is not taken.
LockNot ==
  /\ crashed = "no" /\ user.step = "lock"
  /\ user' = [user EXCEPT !.step = "delete"]
  /\ UNCHANGED <<worker, runs, mutex, lock, m_enabled, thread, cur, calls, crashed>>

Lock ==
  /\ crashed = "no" /\ user.step = "lock" /\ lock = "none"
  /\ lock' = "user"
  /\ user' = [user EXCEPT !.step = "delete"]
  /\ UNCHANGED <<worker, runs, mutex, m_enabled, thread, cur, calls, crashed>>

\* ~Worker: stop if it is enabled, and release in any case.
Deleted(r) ==
  {LET q == IF r.enabled THEN StopAndRelease(r, a, b) ELSE ControlOperation(r, "release", b)
   IN [q EXCEPT !.w.alive = FALSE] : a \in Results, b \in Results}

\* deleteChildren: one worker; an exception leaves a destructor.
Delete ==
  /\ crashed = "no" /\ user.step = "delete" /\ user.w \in Worker
  /\ IF worker[user.w].alive
     THEN /\ mutex[user.w] = "none"
          /\ \E q \in Deleted(worker[user.w]) :
               /\ worker' = [worker EXCEPT ![user.w] = q.w]
               /\ crashed' = IF q.threw THEN "destructor" ELSE "no"
     ELSE UNCHANGED <<worker, crashed>>
  /\ user' = [user EXCEPT !.w = @ + 1]
  /\ UNCHANGED <<runs, mutex, lock, m_enabled, thread, cur, calls>>

\* The application is gone, and with ~Container the container too.
Unlock ==
  /\ crashed = "no" /\ user.step = "delete" /\ user.w = NWorkers + 1
  /\ IF user.op = "exit"
     THEN user' = [user EXCEPT !.step = "exited"] /\ UNCHANGED lock
     ELSE user' = Idle /\ lock' = "none"
  /\ UNCHANGED <<worker, runs, mutex, m_enabled, thread, cur, calls, crashed>>

-----------------------------------------------------------------------------
(***************************************************************************)
(* The container's thread: runContainer, dispatch, and run of a worker.    *)
(* An exception that leaves dispatch ends the process.                     *)
(***************************************************************************)

\* The ports of a worker are used one after the other (two of them here).
UsePorts(r) == UNION {IF p.threw THEN {p} ELSE UsePort(p.w) : p \in UsePort(r)}

\* Mutant of Finished: the worker is not marked as finished.
FinishedSilently(r) == [r EXCEPT !.enabled = FALSE]

\* Mutant of Finished: the worker stays enabled.
FinishedEnabled(r) == [r EXCEPT !.m_state = "FINISHED"]

Finished(r) == [r EXCEPT !.enabled = FALSE, !.m_state = "FINISHED"]

Failed(r) == [r EXCEPT !.enabled = FALSE, !.m_state = "UNUSABLE"]

\* The results that are left to a worker in its n-th run.
ResultsOf(n) == IF n < MaxRuns THEN RunResults ELSE RunResults \ {"ok", "advance"}

\* Mutant of Advanced: the state is set although a port failed in run.
AdvancedAnyway(r, rc) ==
  CASE rc = "errorString" -> {[w |-> r, threw |-> TRUE]}
    [] rc = "ok" -> {[w |-> r, threw |-> FALSE]}
    [] rc = "advance" -> UsePorts(r)
    [] rc = "advance_done" -> {IF p.threw THEN p ELSE [p EXCEPT !.w = Finished(@)] : p \in UsePorts(r)}
    [] rc = "done" -> {[w |-> Finished(r), threw |-> FALSE]}
    [] rc = "fatal" -> {[w |-> Failed(r), threw |-> FALSE]}

\* What follows the run method: an error string is thrown, and nothing else
\* happens to a worker that became unusable in it.
Advanced(r, rc) ==
  IF rc = "errorString" THEN {[w |-> r, threw |-> TRUE]}
  ELSE IF rc = "ok" \/ r.m_state = "UNUSABLE" THEN {[w |-> r, threw |-> FALSE]}
  ELSE CASE rc = "advance" -> UsePorts(r)
         [] rc = "advance_done" -> {IF p.threw THEN p ELSE [p EXCEPT !.w = Finished(@)] : p \in UsePorts(r)}
         [] rc = "done" -> {[w |-> Finished(r), threw |-> FALSE]}
         [] rc = "fatal" -> {[w |-> Failed(r), threw |-> FALSE]}

\* The run method, and what follows it.
Ran(r, n) ==
  UNION {IF p.threw THEN {p} ELSE UNION {Advanced(p.w, rc) : rc \in ResultsOf(n)} :
           p \in UsePort(Called(r, "run"))}

\* A port callback: it may use ports, and makes the worker unusable if it fails.
CalledBack(r) ==
  UNION {IF p.threw THEN {p} ELSE {p, [p EXCEPT !.w = Failed(@)]} : p \in UsePort(Called(r, "run"))}

\* while (m_enabled && runInternal()); runInternal and dispatch look again.
Top ==
  /\ crashed = "no" /\ thread = "top"
  /\ thread' = IF m_enabled THEN "lock" ELSE "gone"
  /\ UNCHANGED <<worker, runs, mutex, lock, m_enabled, cur, user, calls, crashed>>

\* dispatch takes the mutex; the transport's dispatch succeeds or throws.
Dispatch ==
  /\ crashed = "no" /\ thread = "lock" /\ lock = "none"
  /\ lock' = "thread" /\ cur' = 1
  /\ thread' \in {"run"} \cup (IF TransportFails THEN {"release"} ELSE {})
  /\ UNCHANGED <<worker, runs, mutex, m_enabled, user, calls, crashed>>

\* The worker does not run: it is gone or not enabled, or its run condition
\* is not met.  assert(enabled) fails if a port failed in getReadyPorts.
RunNot ==
  /\ crashed = "no" /\ thread = "run" /\ cur \in Worker
  /\ worker[cur].alive => mutex[cur] = "none"
  /\ IF worker[cur].alive /\ worker[cur].enabled
     THEN \E p \in UsePorts(worker[cur]) :
            /\ worker' = [worker EXCEPT ![cur] = p.w]
            /\ crashed' = IF p.threw THEN "terminate"
                          ELSE IF ~ p.w.enabled /\ ~ NDEBUG THEN "assert_ready" ELSE "no"
     ELSE UNCHANGED <<worker, crashed>>
  /\ cur' = cur + 1
  /\ UNCHANGED <<runs, mutex, lock, m_enabled, thread, user, calls>>

MayRun(r) == r.alive /\ r.enabled

\* What the ports leave of a worker that goes on to run.
Ready(r) == {p.w : p \in {q \in UsePorts(r) : ~ q.threw /\ (q.w.enabled \/ NDEBUG)}}

\* The worker's run method is called.
RunWorker(w) ==
  /\ crashed = "no" /\ thread = "run" /\ cur = w
  /\ MayRun(worker[w]) /\ mutex[w] = "none"
  /\ runs' = [runs EXCEPT ![w] = IF @ < MaxRuns THEN @ + 1 ELSE @]
  /\ \E r \in Ready(worker[w]) : \E o \in Ran(r, runs'[w]) :
       /\ worker' = [worker EXCEPT ![w] = o.w]
       /\ crashed' = IF o.threw THEN "terminate" ELSE "no"
  /\ cur' = w + 1
  /\ UNCHANGED <<mutex, lock, m_enabled, thread, user, calls>>

\* A port callback is called instead; assert(enabled) fails if it did.
RunCallback ==
  /\ crashed = "no" /\ thread = "run" /\ cur \in Worker /\ Callbacks
  /\ MayRun(worker[cur]) /\ mutex[cur] = "none"
  /\ \E r \in Ready(worker[cur]) : \E c \in CalledBack(r) :
       /\ worker' = [worker EXCEPT ![cur] = c.w]
       /\ crashed' = IF c.threw THEN "terminate"
                     ELSE IF ~ c.w.enabled /\ ~ NDEBUG THEN "assert_callback" ELSE "no"
  /\ cur' = cur + 1
  /\ UNCHANGED <<runs, mutex, lock, m_enabled, thread, user, calls>>

\* Application::run gives the transport time, outside any handler.
RunTransport ==
  /\ crashed = "no" /\ thread = "run" /\ cur \in Worker /\ TransportFails
  /\ crashed' = "terminate"
  /\ UNCHANGED <<worker, runs, mutex, lock, m_enabled, thread, cur, user, calls>>

\* dispatch returns, having run every worker.
Loop ==
  /\ crashed = "no" /\ thread = "run" /\ cur = NWorkers + 1
  /\ thread' = "top" /\ lock' = "none"
  /\ UNCHANGED <<worker, runs, mutex, m_enabled, cur, user, calls, crashed>>

\* The transport failed: release() of the workers, one after the other.  An
\* exception of release leaves the handler.
Release ==
  /\ crashed = "no" /\ thread = "release" /\ cur \in Worker
  /\ IF ~ worker[cur].alive
     THEN cur' = cur + 1 /\ UNCHANGED <<worker, mutex, m_enabled, thread, crashed>>
     ELSE \/ /\ ControlThrows(cur, "release")
             /\ crashed' = "terminate" /\ UNCHANGED cur
          \/ ControlSkips(cur, "release") /\ cur' = cur + 1 /\ UNCHANGED crashed
          \/ ControlBegins("thread", cur, "release") /\ UNCHANGED <<cur, crashed>>
          \/ ControlEnds("thread", cur, "release") /\ cur' = cur + 1 /\ UNCHANGED crashed
  /\ UNCHANGED <<runs, lock, user, calls>>

\* Mutant of Exit: the container's mutex is not released on this path.
ExitLocked ==
  /\ crashed = "no" /\ thread = "release" /\ cur = NWorkers + 1
  /\ thread' = "gone"
  /\ UNCHANGED <<worker, runs, mutex, lock, m_enabled, cur, user, calls, crashed>>

\* DispatchNoMore: the thread ends.
Exit ==
  /\ crashed = "no" /\ thread = "release" /\ cur = NWorkers + 1
  /\ thread' = "gone" /\ lock' = "none"
  /\ UNCHANGED <<worker, runs, mutex, m_enabled, cur, user, calls, crashed>>

-----------------------------------------------------------------------------
InCall == Control \/ End \/ Wait \/ Join \/ Lock \/ Delete \/ Unlock

ThreadStep == \/ Top \/ Dispatch \/ RunNot \/ RunCallback \/ RunTransport
              \/ \E w \in Worker : RunWorker(w)
              \/ Loop \/ Release \/ Exit

Next == Call \/ StopContainer \/ StartContainer \/ Destroy \/ InCall \/ ThreadStep

Spec == Init /\ [][Next]_vars

\* Both threads are scheduled, the container's mutex, which its thread gives
\* up in every pass, is granted at last, and a worker's run condition is met
\* again and again for as long as the worker is enabled.
Fairness == /\ WF_vars(InCall) /\ WF_vars(ThreadStep) /\ SF_vars(Lock)
            /\ \A w \in Worker : SF_vars(RunWorker(w))

LiveSpec == Spec /\ Fairness

-----------------------------------------------------------------------------
Actor == {"none", "user", "thread"}

TypeOK ==
  /\ worker \in [Worker -> Record]
  /\ runs \in [Worker -> 0 .. MaxRuns]
  /\ mutex \in [Worker -> Actor] /\ lock \in Actor
  /\ m_enabled \in BOOLEAN
  /\ thread \in {"none", "top", "lock", "run", "release", "gone"}
  /\ cur \in 0 .. NWorkers + 1
  /\ user \in User
  /\ calls \in 0 .. MaxCalls
  /\ crashed \in {"no", "terminate", "destructor", "assert_ready", "assert_callback"}

\* The methods of a worker are called in the order of its life cycle, by
\* whichever thread: run only between start and stop, nothing but initialize
\* after release.  (Its destructor, which releases in any case, is not meant.)
LifeCycle == \A w \in Worker : worker[w].alive => ~ worker[w].misused

\* Outside its mutex a worker is enabled, so that dispatch runs it, exactly
\* when its control state is OPERATING.
EnabledIsOperating ==
  \A w \in Worker : worker[w].alive /\ mutex[w] = "none" /\ crashed = "no" =>
    (worker[w].enabled <=> worker[w].m_state = "OPERATING")

\* A worker that has become unusable stays so: no operation and no result of
\* a run that is still under way changes the state that others see.
UnusableStays ==
  \A w \in Worker : LET free == mutex[w] = "none" IN
    [](worker[w].m_state = "UNUSABLE" /\ free => [](free => worker[w].m_state = "UNUSABLE"))

\* A worker whose own release method was called, whoever called it, is never
\* taken for one that is operating, suspended or finished.  Not meant is a
\* worker that was released while it was in its own start method, by a port
\* that failed, and that then returned RCC_OK (see Effect).
ReleasedIsGone ==
  \A w \in Worker : worker[w].alive /\ worker[w].phase = "released" /\ mutex[w] = "none" =>
    worker[w].m_state \in {"UNUSABLE", "EXISTS"} /\ ~ worker[w].enabled

\* Workers are destroyed only while dispatch is not going through them.
DestroyedAlone == user.step = "delete" => thread \notin {"run", "release"}

\* A call of the application other than wait returns: the two threads never
\* wait for each other's mutexes, nor the join for a thread that goes on.
CallsReturn ==
  user.step \notin {"idle", "wait", "exited"} ~> user.step \in {"idle", "exited"} \/ crashed # "no"

\* wait returns for a worker that was started and that finishes.
WaitReturns ==
  user.step = "wait" /\ worker[user.w].enabled ~> user.step # "wait" \/ crashed # "no"
=============================================================================

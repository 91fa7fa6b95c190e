------------------------------ MODULE RescueTask ------------------------------
(***************************************************************************)
(* The rescue task receiver: RescueTaskReceiver and RescueFleetNode of     *)
(* python_sdk/fleet_bus/rescue_task.py.                                    *)
(*                                                                         *)
(* A car asks for the payload doors to be closed, for a new map, for its   *)
(* task to be saved and at last for the start.  The FleetBus worker thread *)
(* answers, one request at a time; a thread of its own rebuilds the map;   *)
(* the main thread waits for the start; and the stop event, on which all   *)
(* three act, is also set by a signal and by the main thread's way out.    *)
(*                                                                         *)
(* The car, the doors, the flight controller's telemetry and FAST-LIO are  *)
(* external.  Requests arrive in any order: FleetNode has the radio.       *)
(***************************************************************************)
EXTENDS Naturals

CONSTANTS
    Sessions,  \* a car has one, and another after a restart
    Runs,      \* run_id of CLOSE and REMAP
    TaskIds,   \* task_id of a task
    Quotas     \* what a task asks to be dropped

ASSUME ConstantsAssumption == Sessions \cup Runs \cup TaskIds \subseteq Nat \ {0}

VARIABLES
    prepared,   \* _preflight_result is not None: the operator has done it all
    allow,      \* allow_start
    stop,       \* stop_event
    locked,     \* the telemetry is fresh and says that the motors are locked
    doors,      \* the payload doors, as far as commands can tell
    run,        \* run_id and _run_session
    closeDone,  \* close_done
    remap,      \* remap_state
    rebuild,    \* where the thread of _rebuild is
    restarts,   \* calls of restart_and_calibrate_fastlio
    task,       \* _task
    session,    \* _session
    started,    \* _started
    worker,     \* where the FleetBus worker thread is
    main,       \* where the main thread is
    told        \* history: the good answers given

mode == <<prepared, allow>>
binding == <<run, closeDone>>
mapping == <<remap, rebuild, restarts>>
order == <<task, session>>
vars == <<mode, stop, locked, doors, binding, mapping, order, started, worker,
          main, told>>

Tasks == [id : TaskIds, quota : Quotas]
NoTask == [id |-> 0, quota |-> "none"]
NoRun == [id |-> 0, session |-> 0]
Answers == [cmd : {"close", "remap", "start"}, session : Sessions, id : Runs \cup TaskIds]
              \cup [cmd : {"stop"}]

TypeOK ==
    /\ prepared \in BOOLEAN
    /\ allow \in BOOLEAN
    /\ stop \in BOOLEAN
    /\ locked \in BOOLEAN
    /\ doors \in {"open", "closed", "unsure"}
    /\ run \in [id : Runs, session : Sessions] \cup {NoRun}
    /\ closeDone \in BOOLEAN
    /\ remap \in {"idle", "running", "ready", "failed", "cancelled"}
    /\ rebuild \in {"none", "begin", "go", "restart", "result", "error", "ended"}
    /\ restarts \in Nat
    /\ task \in Tasks \cup {NoTask}
    /\ session \in Sessions \cup {0}
    /\ started \in BOOLEAN
    /\ worker \in {"idle", "close", "closed", "validate", "cancel"}
    /\ main \in {"wait", "launch", "ended"}
    /\ told \subseteq Answers

Init ==
    /\ prepared \in BOOLEAN
    /\ allow \in BOOLEAN
    /\ stop = FALSE
    /\ locked \in BOOLEAN
    /\ doors \in {"open", "closed"}
    /\ run = NoRun
    /\ closeDone = FALSE
    /\ remap = "idle"
    /\ rebuild = "none"
    /\ restarts = 0
    /\ task = NoTask
    /\ session = 0
    /\ started = FALSE
    /\ worker = "idle"
    /\ main = "wait"
    /\ told = {}

GroundReady == ~stop /\ ~started /\ locked

\* A request the worker answers with a refusal or a failure changes nothing.
Tell(answer) == told' = told \cup {answer}

Asked(cmd, s, n) == [cmd |-> cmd, session |-> s, id |-> n]

\* request_start holds the condition while the release plan is validated.
ConditionFree == worker # "validate"

-----------------------------------------------------------------------------
(* The FleetBus worker thread: RescueFleetNode._command.                   *)

CloseBeginMutant(s, n) ==    \* another car takes the run over
    /\ worker = "idle"
    /\ GroundReady
    /\ run # [id |-> n, session |-> s]
    /\ run' = [id |-> n, session |-> s]
    /\ worker' = "close"
    /\ UNCHANGED <<mode, stop, locked, doors, closeDone, mapping, order,
                   started, main, told>>

\* close_payload: the first CLOSE binds its run before the doors are moved.
CloseBegin(s, n) ==
    /\ worker = "idle"
    /\ GroundReady
    /\ run = NoRun
    /\ run' = [id |-> n, session |-> s]
    /\ worker' = "close"
    /\ UNCHANGED <<mode, stop, locked, doors, closeDone, mapping, order,
                   started, main, told>>

\* A later CLOSE of the bound run.
CloseAgain(s, n) ==
    /\ worker = "idle"
    /\ GroundReady
    /\ run = [id |-> n, session |-> s]
    /\ closeDone
    /\ Tell(Asked("close", s, n))
    /\ UNCHANGED <<mode, stop, locked, doors, binding, mapping, order, started,
                   worker, main>>

\* close_all, or get_states when the operator has closed the doors.
CloseDoors ==
    /\ worker = "close"
    /\ \/ /\ prepared => doors = "closed"
          /\ doors' = "closed"
          /\ worker' = "closed"
       \/ /\ doors' \in IF prepared THEN {doors} ELSE {"open", "closed", "unsure"}
          /\ worker' = "idle"    \* FAILED, for good
    /\ UNCHANGED <<mode, stop, locked, binding, mapping, order, started, main, told>>

\* The stop event is read again: a close that it overtook is undone.
CloseEnd ==
    /\ worker = "closed"
    /\ worker' = "idle"
    /\ IF stop
       THEN /\ doors' \in IF prepared THEN {doors} ELSE {"open", "closed", "unsure"}
            /\ UNCHANGED <<closeDone, told>>
       ELSE /\ closeDone' = TRUE
            /\ Tell(Asked("close", run.session, run.id))
            /\ UNCHANGED doors
    /\ UNCHANGED <<mode, stop, locked, run, mapping, order, started, main>>

\* rebuild_map, what it asks of the request.
MayRebuild(s, n) ==
    GroundReady /\ closeDone /\ run = [id |-> n, session |-> s]

RebuildMutant(s, n) ==    \* a map that failed is tried again
    /\ worker = "idle"
    /\ MayRebuild(s, n)
    /\ remap \in {"idle", "failed"}
    /\ IF prepared
       THEN remap' = "ready" /\ UNCHANGED rebuild
       ELSE remap' = "running" /\ rebuild' = "begin"
    /\ UNCHANGED <<mode, stop, locked, doors, binding, restarts, order, started,
                   worker, main, told>>

\* An idle map: the operator's is checked, or else a thread is started.
Rebuild(s, n) ==
    /\ worker = "idle"
    /\ MayRebuild(s, n)
    /\ remap = "idle"
    /\ IF prepared
       THEN remap' = "ready" /\ UNCHANGED rebuild
       ELSE remap' = "running" /\ rebuild' = "begin"
    /\ UNCHANGED <<mode, stop, locked, doors, binding, restarts, order, started,
                   worker, main, told>>

\* A later REMAP learns that the map is ready.
RebuildAgain(s, n) ==
    /\ worker = "idle"
    /\ MayRebuild(s, n)
    /\ remap = "ready"
    /\ Tell(Asked("remap", s, n))
    /\ UNCHANGED <<mode, stop, locked, doors, binding, mapping, order, started,
                   worker, main>>

SetTaskMutant(s, t) ==    \* _started is not looked at
    /\ worker = "idle"
    /\ ~stop
    /\ ~(task.id = t.id /\ session = s)
    /\ task' = t
    /\ session' = s
    /\ UNCHANGED <<mode, stop, locked, doors, binding, mapping, started, worker,
                   main, told>>

\* set_task: the same number with another quota is refused, another task is not.
SetTask(s, t) ==
    /\ worker = "idle"
    /\ ~stop
    /\ ~started
    /\ ~(task.id = t.id /\ session = s)
    /\ task' = t
    /\ session' = s
    /\ UNCHANGED <<mode, stop, locked, doors, binding, mapping, started, worker,
                   main, told>>

StartAgain(s, i) ==
    /\ worker = "idle"
    /\ ~stop
    /\ started
    /\ session = s
    /\ task.id = i
    /\ Tell(Asked("start", s, i))
    /\ UNCHANGED <<mode, stop, locked, doors, binding, mapping, order, started,
                   worker, main>>

MayStartMutant(s, i) ==    \* the run may be another car's
    /\ GroundReady
    /\ allow
    /\ task.id = i
    /\ session = s
    /\ closeDone
    /\ remap = "ready"

\* request_start, what it asks of the request and of the receiver.
MayStart(s, i) ==
    /\ GroundReady
    /\ allow
    /\ task.id = i
    /\ session = s
    /\ run.session = s
    /\ closeDone
    /\ remap = "ready"

StartBegin(s, i) ==
    /\ worker = "idle"
    /\ MayStart(s, i)
    /\ worker' = "validate"
    /\ UNCHANGED <<mode, stop, locked, doors, binding, mapping, order, started,
                   main, told>>

\* A stale pose and a plan that fails refuse the start.  Neither the stop event
\* nor the telemetry is read again.
StartEnd ==
    /\ worker = "validate"
    /\ worker' = "idle"
    /\ \/ /\ started' = TRUE
          /\ Tell(Asked("start", session, task.id))
       \/ UNCHANGED <<started, told>>
    /\ UNCHANGED <<mode, stop, locked, doors, binding, mapping, order, main>>

\* stop: the event first, the rest under the condition.
StopSet ==
    /\ worker = "idle"
    /\ stop' = TRUE
    /\ worker' = "cancel"
    /\ UNCHANGED <<mode, locked, doors, binding, mapping, order, started, main, told>>

StopCancel ==
    /\ worker = "cancel"
    /\ remap' = "cancelled"
    /\ worker' = "idle"
    /\ Tell([cmd |-> "stop"])
    /\ UNCHANGED <<mode, stop, locked, doors, binding, rebuild, restarts, order,
                   started, main>>

Request ==
    \/ \E s \in Sessions :
          \/ \E n \in Runs : \/ CloseBegin(s, n) \/ CloseAgain(s, n)
                             \/ Rebuild(s, n)    \/ RebuildAgain(s, n)
          \/ \E t \in Tasks : SetTask(s, t)
          \/ \E i \in TaskIds : StartBegin(s, i) \/ StartAgain(s, i)
    \/ StopSet

\* The worker thread goes on with the request it is at.
Worker == CloseDoors \/ CloseEnd \/ StartEnd \/ StopCancel

-----------------------------------------------------------------------------
(* The thread of _rebuild.                                                 *)

rebuilds == <<mode, stop, locked, doors, binding, order, started, worker, main, told>>

\* The stop event is read, unless the import before it raises.
RebuildBegin ==
    /\ rebuild = "begin"
    /\ rebuild' \in {IF stop THEN "ended" ELSE "go", "error"}
    /\ UNCHANGED <<remap, restarts, rebuilds>>

\* After the navigation was started, which may raise: the stop event, which may
\* have been set in the meantime, is not read again before the call.
RebuildCall ==
    /\ rebuild = "go"
    /\ \/ rebuild' = "restart" /\ restarts' = restarts + 1
       \/ rebuild' = "error" /\ UNCHANGED restarts
    /\ UNCHANGED <<remap, rebuilds>>

\* FAST-LIO is restarted and calibrated, or something raises.
RebuildRestart ==
    /\ rebuild = "restart"
    /\ rebuild' \in {"result", "error"}
    /\ UNCHANGED <<remap, restarts, rebuilds>>

RebuildResultMutant ==    \* the stop event is not read again
    /\ rebuild = "result"
    /\ ConditionFree
    /\ remap' = "ready"
    /\ rebuild' = "ended"
    /\ UNCHANGED <<restarts, rebuilds>>

RebuildResult ==
    /\ rebuild = "result"
    /\ ConditionFree
    /\ remap' = IF stop THEN remap ELSE "ready"
    /\ rebuild' = "ended"
    /\ UNCHANGED <<restarts, rebuilds>>

RebuildErrorMutant ==    \* a state that no request knows
    /\ rebuild = "error"
    /\ ConditionFree
    /\ remap' = IF stop THEN "cancelled" ELSE "error"
    /\ rebuild' = "ended"
    /\ UNCHANGED <<restarts, rebuilds>>

RebuildError ==
    /\ rebuild = "error"
    /\ ConditionFree
    /\ remap' = IF stop THEN "cancelled" ELSE "failed"
    /\ rebuild' = "ended"
    /\ UNCHANGED <<restarts, rebuilds>>

Rebuilder ==
    RebuildBegin \/ RebuildCall \/ RebuildRestart \/ RebuildResult \/ RebuildError

-----------------------------------------------------------------------------
(* The main thread: wait_for_start, looking ten times a second.            *)

mains == <<mode, locked, doors, binding, mapping, order, started, worker, told>>

\* The start is taken, unless the stop event is set.
MainLaunch ==
    /\ main = "wait"
    /\ ConditionFree
    /\ started
    /\ ~stop
    /\ main' = "launch"
    /\ UNCHANGED <<stop, mains>>

MainStoppedMutant ==    \* the stop event is read after the loop only
    /\ main = "wait"
    /\ ConditionFree
    /\ started
    /\ stop
    /\ main' = "ended"
    /\ UNCHANGED <<stop, mains>>

MainStopped ==
    /\ main = "wait"
    /\ ConditionFree
    /\ stop
    /\ main' = "ended"
    /\ UNCHANGED <<stop, mains>>

\* Out of time, telemetry lost, unlocked, or done: the way out sets the event.
MainEnd ==
    /\ main # "ended"
    /\ main' = "ended"
    /\ stop' = TRUE
    /\ UNCHANGED mains

Main == MainLaunch \/ MainStopped

\* SIGTERM sets the stop event.
Signal ==
    /\ stop' = TRUE
    /\ UNCHANGED <<main, mains>>

\* What the telemetry says changes with the link and with the pilot.
Telemetry ==
    /\ locked' = ~locked
    /\ UNCHANGED <<mode, stop, doors, binding, mapping, order, started, worker,
                   main, told>>

Next == Request \/ Worker \/ Rebuilder \/ Main \/ MainEnd \/ Signal \/ Telemetry

Spec == Init /\ [][Next]_vars

\* Each thread goes on with what it is at; no request need ever come.
FairSpec == Spec /\ WF_vars(Worker) /\ WF_vars(Rebuilder) /\ WF_vars(Main)

-----------------------------------------------------------------------------
(* Properties.                                                             *)

(* A start rests on an agreement with one car: the session that bound the    *)
(* run with CLOSE is the session of the saved task, the doors are closed,    *)
(* and the map that was rebuilt after that is not being rebuilt again.       *)
StartIsAgreed ==
    started => /\ task # NoTask
               /\ run.session = session
               /\ closeDone
               /\ doors = "closed"
               /\ remap \in {"ready", "cancelled"}
               /\ rebuild \in {"none", "ended"}

(* What the worker has told a car is and stays true, whichever car asks for  *)
(* what afterwards: the doors are closed, the map is ready or was cancelled  *)
(* by a STOP, the started task is that car's, and STOP has set the event.    *)
ToldIsTrue ==
    \A a \in told :
        /\ a.cmd = "close" => /\ run = [id |-> a.id, session |-> a.session]
                              /\ closeDone
                              /\ doors = "closed"
        /\ a.cmd = "remap" => /\ run = [id |-> a.id, session |-> a.session]
                              /\ remap \in {"ready", "cancelled"}
        /\ a.cmd = "start" => started /\ session = a.session /\ task.id = a.id
        /\ a.cmd = "stop" => stop /\ remap = "cancelled"

(* Nothing a start rests on changes after it: a repeated START or another    *)
(* TASK does not reset the ledger (RESCUE_TASK.md, third paragraph).         *)
AgreementStands == [][started => UNCHANGED <<order, binding, doors, started>>]_vars

(* FAST-LIO is restarted once, for a bound run with closed doors, and never  *)
(* once the start is taken: a restart invalidates the pose flight rests on.  *)
OneRestart ==
    [][restarts' # restarts => restarts = 0 /\ closeDone /\ ~started]_vars

(* A rebuild that outlives a STOP never makes the map ready again: the test  *)
(* test_stop_during_remap_cannot_become_ready_or_close_again, in all orders. *)
CancelIsFinal == [][remap = "cancelled" => remap' = "cancelled"]_vars

\* How far the dialogue with the car of the bound run has come.
Stage ==
    IF started THEN "started"
    ELSE IF remap = "ready" THEN "mapped"
    ELSE IF closeDone THEN "closed"
    ELSE IF run # NoRun THEN "bound"
    ELSE "free"

Agreement == INSTANCE StartAgreement WITH
    stage <- Stage,
    cancelled <- remap = "cancelled",
    committed <- rebuild = "go"

(* The commands of a start are one dialogue with one car, whatever threads,  *)
(* other cars, repeated requests, signals and STOP do between its steps: no  *)
(* step is skipped, redone or undone, and every good answer is so.  A STOP   *)
(* ends it but for one step: a restart of FAST-LIO that _rebuild was about   *)
(* to call is still called, and the map it makes is not taken.               *)
ImplementsAgreement == Agreement!ASpec

(* A main thread that waits learns of a start and of a stop, also of one     *)
(* that was set without notifying it.                                        *)
WaitEnds == started \/ stop ~> main # "wait"
=============================================================================

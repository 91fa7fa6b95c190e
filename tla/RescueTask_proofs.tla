-------------------------- MODULE RescueTask_proofs --------------------------
(***************************************************************************)
(* Theorems about the rescue task receiver, for every set of sessions,     *)
(* runs, tasks and quotas.                                                 *)
(***************************************************************************)
EXTENDS RescueTask, TLAPS

-----------------------------------------------------------------------------
(* The inductive invariant: what each thread may rely on where it is.      *)

(* The doors are being closed for a run that is bound, once; a close that is *)
(* done has them closed.                                                     *)
Closing ==
    /\ worker \in {"close", "closed"} => run # NoRun /\ ~closeDone
    /\ worker = "closed" => doors = "closed"
    /\ closeDone => run # NoRun /\ doors = "closed"

(* A map is rebuilt for a close that is done, and by one thread that has     *)
(* the state to itself until it ends, but for a STOP.                        *)
Mapping ==
    /\ remap \in {"running", "ready"} \/ rebuild # "none" => closeDone
    /\ remap = "idle" => rebuild = "none"
    /\ rebuild \notin {"none", "ended"} => remap \in {"running", "cancelled"}
    /\ rebuild \in {"none", "begin", "go"} => restarts = 0

(* STOP comes before everything it cancels.                                  *)
Cancelling ==
    /\ worker = "cancel" => stop
    /\ remap = "cancelled" => stop

(* The worker that validates has checked an agreement, and nobody else can   *)
(* change it while the worker holds the condition.                           *)
Agreed ==
    /\ task # NoTask
    /\ run.session = session
    /\ closeDone
    /\ rebuild \in {"none", "ended"}

Starting ==
    /\ worker = "validate" => Agreed /\ remap = "ready" /\ ~started /\ allow
    /\ started => Agreed /\ remap \in {"ready", "cancelled"}

IInv == TypeOK /\ Closing /\ Mapping /\ Cancelling /\ Starting /\ ToldIsTrue

-----------------------------------------------------------------------------
(* The initial states satisfy the invariant.                               *)
LEMMA InitInvariant == Init => IInv
<1> SUFFICES ASSUME Init PROVE IInv
  OBVIOUS
<1>1. TypeOK
  BY DEF Init, TypeOK
<1>2. Closing /\ Mapping /\ Cancelling /\ Starting /\ ToldIsTrue
  BY DEF Init, Closing, Mapping, Cancelling, Starting, ToldIsTrue
<1>3. QED
  BY <1>1, <1>2 DEF IInv

(* Every step keeps every variable in its type: an answer that names the     *)
(* bound run or the saved task needs one to be there.                        *)
LEMMA TypeStep == IInv /\ [Next]_vars => TypeOK'
<1> SUFFICES ASSUME IInv, [Next]_vars PROVE TypeOK'
  OBVIOUS
<1>0. TypeOK
  BY DEF IInv
<1> USE DEF mode, binding, mapping, order
<1>1. ASSUME NEW s \in Sessions, NEW n \in Runs, CloseBegin(s, n) PROVE TypeOK'
  BY <1>0, <1>1 DEF CloseBegin, GroundReady, TypeOK
<1>2. ASSUME NEW s \in Sessions, NEW n \in Runs, CloseAgain(s, n) PROVE TypeOK'
  BY <1>0, <1>2 DEF CloseAgain, GroundReady, Tell, Asked, Answers, TypeOK
<1>3. CASE CloseDoors
  BY <1>0, <1>3 DEF CloseDoors, TypeOK
<1>4. CASE CloseEnd
  <2>1. run \in [id : Runs, session : Sessions]
    BY <1>0, <1>4 DEF CloseEnd, IInv, Closing, TypeOK
  <2>2. Asked("close", run.session, run.id) \in Answers
    BY <2>1 DEF Asked, Answers
  <2>3. told' \subseteq Answers
    BY <1>0, <1>4, <2>2 DEF CloseEnd, Tell, TypeOK
  <2>4. doors' \in {"open", "closed", "unsure"} /\ closeDone' \in BOOLEAN
    BY <1>0, <1>4 DEF CloseEnd, TypeOK
  <2>5. UNCHANGED <<mode, stop, locked, run, mapping, order, started, main>>
        /\ worker' = "idle"
    BY <1>4 DEF CloseEnd
  <2>6. QED
    BY <1>0, <2>3, <2>4, <2>5 DEF TypeOK
<1>5. ASSUME NEW s \in Sessions, NEW n \in Runs, Rebuild(s, n) PROVE TypeOK'
  BY <1>0, <1>5 DEF Rebuild, MayRebuild, GroundReady, TypeOK
<1>6. ASSUME NEW s \in Sessions, NEW n \in Runs, RebuildAgain(s, n) PROVE TypeOK'
  BY <1>0, <1>6 DEF RebuildAgain, MayRebuild, GroundReady, Tell, Asked, Answers, TypeOK
<1>7. ASSUME NEW s \in Sessions, NEW t \in Tasks, SetTask(s, t) PROVE TypeOK'
  BY <1>0, <1>7 DEF SetTask, TypeOK
<1>8. ASSUME NEW s \in Sessions, NEW i \in TaskIds, StartBegin(s, i) PROVE TypeOK'
  BY <1>0, <1>8 DEF StartBegin, MayStart, GroundReady, TypeOK
<1>9. ASSUME NEW s \in Sessions, NEW i \in TaskIds, StartAgain(s, i) PROVE TypeOK'
  BY <1>0, <1>9 DEF StartAgain, Tell, Asked, Answers, TypeOK
<1>10. CASE StartEnd
  <2>1. task \in Tasks /\ session \in Sessions
    BY <1>0, <1>10, ConstantsAssumption
    DEF StartEnd, IInv, Closing, Starting, Agreed, NoRun, TypeOK
  <2>2. Asked("start", session, task.id) \in Answers
    BY <2>1 DEF Asked, Answers, Tasks
  <2>3. told' \subseteq Answers
    BY <1>0, <1>10, <2>2 DEF StartEnd, Tell, TypeOK
  <2>4. started' \in BOOLEAN
    BY <1>0, <1>10 DEF StartEnd, TypeOK
  <2>5. UNCHANGED <<mode, stop, locked, doors, binding, mapping, order, main>>
        /\ worker' = "idle"
    BY <1>10 DEF StartEnd
  <2>6. QED
    BY <1>0, <2>3, <2>4, <2>5 DEF TypeOK
<1>11. CASE StopSet
  BY <1>0, <1>11 DEF StopSet, TypeOK
<1>12. CASE StopCancel
  BY <1>0, <1>12 DEF StopCancel, Tell, Answers, TypeOK
<1>13. CASE RebuildBegin
  BY <1>0, <1>13 DEF RebuildBegin, rebuilds, TypeOK
<1>14. CASE RebuildCall
  BY <1>0, <1>14 DEF RebuildCall, rebuilds, TypeOK
<1>15. CASE RebuildRestart
  BY <1>0, <1>15 DEF RebuildRestart, rebuilds, TypeOK
<1>16. CASE RebuildResult
  BY <1>0, <1>16 DEF RebuildResult, rebuilds, ConditionFree, TypeOK
<1>17. CASE RebuildError
  BY <1>0, <1>17 DEF RebuildError, rebuilds, ConditionFree, TypeOK
<1>18. CASE MainLaunch
  BY <1>0, <1>18 DEF MainLaunch, mains, TypeOK
<1>19. CASE MainStopped
  BY <1>0, <1>19 DEF MainStopped, mains, TypeOK
<1>20. CASE MainEnd
  BY <1>0, <1>20 DEF MainEnd, mains, TypeOK
<1>21. CASE Signal
  BY <1>0, <1>21 DEF Signal, mains, TypeOK
<1>22. CASE Telemetry
  BY <1>0, <1>22 DEF Telemetry, TypeOK
<1>23. CASE UNCHANGED vars
  BY <1>0, <1>23 DEF vars, TypeOK
<1>24. QED
  BY <1>1, <1>2, <1>3, <1>4, <1>5, <1>6, <1>7, <1>8, <1>9, <1>10, <1>11, <1>12, <1>13, <1>14, <1>15, <1>16, <1>17, <1>18, <1>19, <1>20, <1>21, <1>22, <1>23 DEF Next, Request, Worker, Rebuilder, Main

(* Every step keeps the rest of the invariant.                             *)
LEMMA InvariantStep == IInv /\ [Next]_vars => IInv'
<1> DEFINE Inv == Closing /\ Mapping /\ Cancelling /\ Starting /\ ToldIsTrue
<1> SUFFICES ASSUME IInv, [Next]_vars PROVE Inv'
  BY TypeStep DEF IInv
<1> USE ConstantsAssumption
    DEF ConstantsAssumption, IInv, Closing, Mapping, Cancelling, Starting, Agreed,
        ToldIsTrue, mode, binding, mapping, order
<1>1. ASSUME NEW s \in Sessions, NEW n \in Runs, CloseBegin(s, n) PROVE Inv'
  BY <1>1 DEF CloseBegin, GroundReady, NoRun, TypeOK
<1>2. ASSUME NEW s \in Sessions, NEW n \in Runs, CloseAgain(s, n) PROVE Inv'
  BY <1>2 DEF CloseAgain, GroundReady, Tell, Asked, Answers, TypeOK
<1>3. CASE CloseDoors
  BY <1>3 DEF CloseDoors, TypeOK
<1>4. CASE CloseEnd
  BY <1>4 DEF CloseEnd, Tell, Asked, Answers, TypeOK
<1>5. ASSUME NEW s \in Sessions, NEW n \in Runs, Rebuild(s, n) PROVE Inv'
  BY <1>5 DEF Rebuild, MayRebuild, GroundReady, TypeOK
<1>6. ASSUME NEW s \in Sessions, NEW n \in Runs, RebuildAgain(s, n) PROVE Inv'
  BY <1>6 DEF RebuildAgain, MayRebuild, GroundReady, Tell, Asked, Answers, TypeOK
<1>7. ASSUME NEW s \in Sessions, NEW t \in Tasks, SetTask(s, t) PROVE Inv'
  BY <1>7 DEF SetTask, TypeOK
<1>8. ASSUME NEW s \in Sessions, NEW i \in TaskIds, StartBegin(s, i) PROVE Inv'
  BY <1>8 DEF StartBegin, MayStart, GroundReady, NoTask, TypeOK
<1>9. ASSUME NEW s \in Sessions, NEW i \in TaskIds, StartAgain(s, i) PROVE Inv'
  BY <1>9 DEF StartAgain, Tell, Asked, Answers, TypeOK
<1>10. CASE StartEnd
  BY <1>10 DEF StartEnd, Tell, Asked, Answers, TypeOK
<1>11. CASE StopSet
  BY <1>11 DEF StopSet, TypeOK
<1>12. CASE StopCancel
  BY <1>12 DEF StopCancel, Tell, Answers, TypeOK
<1>13. CASE RebuildBegin
  BY <1>13 DEF RebuildBegin, rebuilds, TypeOK
<1>14. CASE RebuildCall
  BY <1>14 DEF RebuildCall, rebuilds, TypeOK
<1>15. CASE RebuildRestart
  BY <1>15 DEF RebuildRestart, rebuilds, TypeOK
<1>16. CASE RebuildResult
  BY <1>16 DEF RebuildResult, rebuilds, ConditionFree, TypeOK
<1>17. CASE RebuildError
  BY <1>17 DEF RebuildError, rebuilds, ConditionFree, TypeOK
<1>18. CASE MainLaunch
  BY <1>18 DEF MainLaunch, mains, TypeOK
<1>19. CASE MainStopped
  BY <1>19 DEF MainStopped, mains, TypeOK
<1>20. CASE MainEnd
  BY <1>20 DEF MainEnd, mains, TypeOK
<1>21. CASE Signal
  BY <1>21 DEF Signal, mains, TypeOK
<1>22. CASE Telemetry
  BY <1>22 DEF Telemetry, TypeOK
<1>23. CASE UNCHANGED vars
  BY <1>23 DEF vars, TypeOK
<1>24. QED
  BY <1>1, <1>2, <1>3, <1>4, <1>5, <1>6, <1>7, <1>8, <1>9, <1>10, <1>11, <1>12, <1>13, <1>14, <1>15, <1>16, <1>17, <1>18, <1>19, <1>20, <1>21, <1>22, <1>23 DEF Next, Request, Worker, Rebuilder, Main

-----------------------------------------------------------------------------
(* The theorems.                                                           *)

THEOREM Invariant == Spec => []IInv
  BY InitInvariant, InvariantStep, PTL DEF Spec

(* Every variable keeps its type.                                          *)
THEOREM TypeCorrect == Spec => []TypeOK
<1>1. IInv => TypeOK
  BY DEF IInv
<1>2. QED
  BY Invariant, <1>1, PTL

(* A start rests on an agreement with one car: RescueTaskReceiver's        *)
(* request_start, whatever the other threads and other cars do meanwhile.  *)
THEOREM StartAgreed == Spec => []StartIsAgreed
<1>1. IInv => StartIsAgreed
  BY DEF IInv, Starting, Closing, Agreed, StartIsAgreed
<1>2. QED
  BY Invariant, <1>1, PTL

(* What a car has been told is and stays true.                             *)
THEOREM ToldTrue == Spec => []ToldIsTrue
<1>1. IInv => ToldIsTrue
  BY DEF IInv
<1>2. QED
  BY Invariant, <1>1, PTL

(* Nothing a start rests on changes after it.                              *)
THEOREM AgreementKept == Spec => AgreementStands
<1>1. IInv /\ [Next]_vars => (started => UNCHANGED <<order, binding, doors, started>>)
  <2> SUFFICES ASSUME IInv, [Next]_vars, started
               PROVE  UNCHANGED <<order, binding, doors, started>>
    OBVIOUS
  <2>1. closeDone /\ worker \notin {"close", "closed", "validate"}
    BY DEF IInv, Starting, Agreed, Closing
  <2>2. CASE UNCHANGED vars
    BY <2>2 DEF vars
  <2>3. CASE Request
    BY <2>3 DEF Request, CloseBegin, CloseAgain, Rebuild, RebuildAgain, SetTask,
       StartBegin, StartAgain, StopSet, GroundReady, MayRebuild, MayStart,
       order, binding
  <2>4. CASE Worker
    BY <2>1, <2>4 DEF Worker, CloseDoors, CloseEnd, StartEnd, StopCancel, order,
       binding
  <2>5. CASE Rebuilder \/ Main \/ MainEnd \/ Signal \/ Telemetry
    BY <2>5 DEF Rebuilder, RebuildBegin, RebuildCall, RebuildRestart, RebuildResult,
       RebuildError, rebuilds, Main, MainLaunch, MainStopped, MainEnd, Signal,
       mains, Telemetry, order, binding
  <2>6. QED
    BY <2>2, <2>3, <2>4, <2>5 DEF Next
<1>2. QED
  BY Invariant, <1>1, PTL DEF Spec, AgreementStands

(* FAST-LIO is restarted once, and never under a start.                    *)
THEOREM RestartedOnce == Spec => OneRestart
<1>1. IInv /\ [Next]_vars =>
        (restarts' # restarts => restarts = 0 /\ closeDone /\ ~started)
  <2> SUFFICES ASSUME IInv, [Next]_vars, restarts' # restarts
               PROVE  restarts = 0 /\ closeDone /\ ~started
    OBVIOUS
  <2>1. RebuildCall
    BY DEF Next, Request, CloseBegin, CloseAgain, Rebuild, RebuildAgain, SetTask,
       StartBegin, StartAgain, StopSet, Worker, CloseDoors, CloseEnd, StartEnd,
       StopCancel, Rebuilder, RebuildBegin, RebuildRestart, RebuildResult, RebuildError,
       Main, MainLaunch, MainStopped, MainEnd, Signal, mains, Telemetry, mapping,
       vars
  <2>2. rebuild = "go"
    BY <2>1 DEF RebuildCall
  <2>3. QED
    BY <2>2 DEF IInv, Mapping, Starting, Agreed
<1>2. QED
  BY Invariant, <1>1, PTL DEF Spec, OneRestart

(* A cancelled map stays cancelled.                                        *)
THEOREM CancelledForGood == Spec => CancelIsFinal
<1>1. IInv /\ [Next]_vars => (remap = "cancelled" => remap' = "cancelled")
  <2> SUFFICES ASSUME IInv, [Next]_vars, remap = "cancelled"
               PROVE  remap' = "cancelled"
    OBVIOUS
  <2>1. stop
    BY DEF IInv, Cancelling
  <2>2. CASE Rebuilder
    BY <2>1, <2>2 DEF Rebuilder, RebuildBegin, RebuildCall, RebuildRestart, RebuildResult,
       RebuildError
  <2>3. CASE Request \/ Worker
    BY <2>1, <2>3 DEF Request, CloseBegin, CloseAgain, Rebuild, RebuildAgain,
       SetTask, StartBegin, StartAgain, StopSet, Worker, CloseDoors, CloseEnd,
       StartEnd, StopCancel, mapping
  <2>4. CASE Main \/ MainEnd \/ Signal \/ Telemetry \/ UNCHANGED vars
    BY <2>4 DEF Main, MainLaunch, MainStopped, MainEnd, Signal, mains, Telemetry,
       mapping, vars
  <2>5. QED
    BY <2>2, <2>3, <2>4 DEF Next
<1>2. QED
  BY Invariant, <1>1, PTL DEF Spec, CancelIsFinal

-----------------------------------------------------------------------------
(* The receiver implements StartAgreement.                                 *)

(* Before it is started, each stage is where the variables of the code say, *)
(* and a STOP that has cancelled was an event before.                       *)
LEMMA StageIs ==
    ASSUME IInv
    PROVE  /\ started => Stage = "started"
           /\ ~started /\ remap = "ready" => Stage = "mapped"
           /\ ~started /\ remap # "ready" /\ closeDone => Stage = "closed"
           /\ ~closeDone /\ run # NoRun => Stage = "bound"
           /\ run = NoRun => Stage = "free"
           /\ ~stop => remap # "cancelled"
BY DEF IInv, Stage, Closing, Mapping, Starting, Agreed, Cancelling

\* The variables that Stage is made of.
staged == <<started, remap, closeDone, run>>

LEMMA StageStays == UNCHANGED staged => Stage' = Stage
BY DEF staged, Stage

LEMMA AgreementStep ==
    ASSUME IInv, [Next]_vars
    PROVE  [Agreement!ANext]_(Agreement!avars)
<1>0. TypeOK /\ IInv'
  BY InvariantStep DEF IInv
<1> USE DEF mode, binding, mapping, order
<1>1. CASE /\ UNCHANGED <<mode, doors, binding, remap, restarts, order, started, told>>
           /\ rebuild' = "go" <=> rebuild = "go"
  BY <1>1, StageStays DEF Agreement!avars, staged
<1>2. ASSUME NEW s \in Sessions, NEW n \in Runs, CloseBegin(s, n)
      PROVE  Agreement!ANext
  <2>1. /\ run = NoRun /\ ~stop /\ ~started /\ run' = [id |-> n, session |-> s]
        /\ UNCHANGED <<mode, doors, closeDone, mapping, order, started, told>>
    BY <1>2 DEF CloseBegin, GroundReady
  <2>2. n # 0
    BY <1>2, ConstantsAssumption DEF ConstantsAssumption
  <2>3. run' # NoRun /\ ~closeDone'
    BY <2>1, <2>2 DEF NoRun, IInv, Closing
  <2>4. Stage = "free" /\ Stage' = "bound" /\ remap # "cancelled"
    BY <1>0, <2>1, <2>3, StageIs DEF Stage, IInv, Mapping
  <2>5. Agreement!Bind(s, n)
    BY <2>1, <2>4 DEF Agreement!Bind
  <2>6. QED
    BY <2>5 DEF Agreement!ANext
<1>3. ASSUME NEW s \in Sessions, NEW n \in Runs, CloseAgain(s, n) \/ RebuildAgain(s, n)
      PROVE  Agreement!ANext
  <2>1. /\ ~started /\ closeDone /\ run = [id |-> n, session |-> s]
        /\ \/ told' = told \cup {Asked("close", s, n)}
           \/ remap = "ready" /\ told' = told \cup {Asked("remap", s, n)}
        /\ UNCHANGED <<mode, doors, binding, mapping, order, started>>
    BY <1>3 DEF CloseAgain, RebuildAgain, MayRebuild, GroundReady, Tell
  <2>2. Stage \in {"closed", "mapped"} /\ (remap = "ready" => Stage = "mapped") /\ Stage' = Stage
    BY <2>1, StageStays DEF Stage, staged
  <2>3. Agreement!Repeat(s, n)
    BY <2>1, <2>2 DEF Agreement!Repeat, Agreement!Said, Asked
  <2>4. QED
    BY <2>3 DEF Agreement!ANext
<1>4. CASE CloseDoors
  <2>1. /\ worker = "close" /\ doors' \in {"open", "closed", "unsure"}
        /\ UNCHANGED <<mode, binding, mapping, order, started, told>>
    BY <1>0, <1>4 DEF CloseDoors, TypeOK
  <2>2. Stage = "bound" /\ Stage' = Stage
    BY <2>1, StageIs, StageStays DEF staged, IInv, Closing
  <2>3. Agreement!MoveDoors
    BY <2>1, <2>2 DEF Agreement!MoveDoors
  <2>4. QED
    BY <2>3 DEF Agreement!ANext
<1>5. CASE CloseEnd
  <2>1. /\ worker = "closed" /\ Stage = "bound" /\ doors = "closed" /\ ~closeDone /\ ~started
        /\ remap # "ready"
        /\ UNCHANGED <<mode, run, mapping, order, started>>
    BY <1>5, StageIs DEF CloseEnd, IInv, Closing, Mapping, Starting, Agreed
  <2>2. CASE stop
    <3>1. /\ UNCHANGED <<closeDone, told>> /\ doors' \in {"open", "closed", "unsure"}
      BY <1>0, <1>5, <2>2 DEF CloseEnd, TypeOK
    <3>2. Stage' = Stage
      BY <2>1, <3>1, StageStays DEF staged
    <3>3. Agreement!MoveDoors
      BY <2>1, <3>1, <3>2 DEF Agreement!MoveDoors
    <3>4. QED
      BY <3>3 DEF Agreement!ANext
  <2>3. CASE ~stop
    <3>1. /\ closeDone' = TRUE /\ UNCHANGED doors
          /\ told' = told \cup {Asked("close", run.session, run.id)}
      BY <1>5, <2>3 DEF CloseEnd, Tell
    <3>2. Stage' = "closed" /\ remap # "cancelled"
      BY <2>1, <2>3, <3>1, StageIs DEF Stage
    <3>3. Agreement!Close
      BY <2>1, <3>1, <3>2 DEF Agreement!Close, Agreement!Said, Asked
    <3>4. QED
      BY <3>3 DEF Agreement!ANext
  <2>4. QED
    BY <2>2, <2>3
<1>6. CASE /\ ~started /\ closeDone /\ remap \notin {"ready", "cancelled"} /\ remap' = "ready"
           /\ rebuild # "go" /\ rebuild' # "go"
           /\ UNCHANGED <<mode, doors, binding, restarts, order, started, told>>
  <2>1. Stage = "closed" /\ Stage' = "mapped"
    BY <1>6 DEF Stage
  <2>2. Agreement!MakeMap
    BY <1>6, <2>1 DEF Agreement!MakeMap
  <2>3. QED
    BY <2>2 DEF Agreement!ANext
<1>7. CASE /\ {remap, remap'} \subseteq {"idle", "running", "failed"}
           /\ rebuild # "go" /\ rebuild' # "go"
           /\ UNCHANGED <<mode, doors, binding, restarts, order, started, told>>
  <2>1. Stage' = Stage
    BY <1>7 DEF Stage
  <2>2. QED
    BY <1>7, <2>1 DEF Agreement!avars
<1>8. ASSUME NEW s \in Sessions, NEW n \in Runs, Rebuild(s, n)
      PROVE  [Agreement!ANext]_(Agreement!avars)
  <2>1. /\ ~started /\ closeDone /\ remap = "idle" /\ remap' \in {"ready", "running"}
        /\ rebuild # "go" /\ rebuild' # "go"
        /\ UNCHANGED <<mode, doors, binding, restarts, order, started, told>>
    BY <1>8 DEF Rebuild, MayRebuild, GroundReady, IInv, Mapping
  <2>2. QED
    BY <1>6, <1>7, <2>1
<1>9. ASSUME NEW s \in Sessions, NEW t \in Tasks, SetTask(s, t)
      PROVE  Agreement!ANext
  <2>1. /\ ~stop /\ ~started /\ ~(task.id = t.id /\ session = s) /\ task' = t /\ session' = s
        /\ UNCHANGED <<mode, doors, binding, mapping, started, told>>
    BY <1>9 DEF SetTask
  <2>2. Stage # "started" /\ Stage' = Stage /\ remap # "cancelled"
    BY <2>1, StageIs, StageStays DEF Stage, staged
  <2>3. Agreement!Save(s, t)
    BY <2>1, <2>2 DEF Agreement!Save
  <2>4. QED
    BY <2>3 DEF Agreement!ANext
<1>10. ASSUME NEW s \in Sessions, NEW i \in TaskIds, StartAgain(s, i)
       PROVE  Agreement!ANext
  <2>1. /\ started /\ session = s /\ task.id = i /\ told' = told \cup {Asked("start", s, i)}
        /\ UNCHANGED <<mode, doors, binding, mapping, order, started>>
    BY <1>10 DEF StartAgain, Tell
  <2>2. Stage = "started" /\ Stage' = Stage
    BY <2>1, StageIs, StageStays DEF staged
  <2>3. task \in Tasks
    BY <1>0, <2>1 DEF TypeOK, IInv, Starting, Agreed
  <2>4. Agreement!Repeat(s, i)
    BY <2>1, <2>2 DEF Agreement!Repeat, Agreement!Said, Asked
  <2>5. QED
    BY <2>1, <2>3, <2>4 DEF Agreement!ANext
<1>11. CASE StartEnd
  <2>1. /\ worker = "validate" /\ UNCHANGED <<mode, doors, binding, mapping, order>>
        /\ allow /\ task # NoTask /\ session = run.session /\ remap = "ready" /\ ~started
    BY <1>11 DEF StartEnd, IInv, Starting, Agreed
  <2>2. Stage = "mapped"
    BY <2>1 DEF Stage
  <2>3. CASE UNCHANGED <<started, told>>
    BY <1>1, <2>1, <2>3
  <2>4. CASE started' = TRUE /\ told' = told \cup {Asked("start", session, task.id)}
    <3>1. Stage' = "started"
      BY <2>4 DEF Stage
    <3>2. Agreement!TakeStart
      BY <2>1, <2>2, <2>4, <3>1 DEF Agreement!TakeStart, Agreement!Said, Asked
    <3>3. QED
      BY <3>2 DEF Agreement!ANext
  <2>5. QED
    BY <1>11, <2>3, <2>4 DEF StartEnd, Tell
<1>12. CASE /\ remap' = "cancelled" /\ told' \in {told, told \cup {[cmd |-> "stop"]}}
            /\ rebuild' = "go" <=> rebuild = "go"
            /\ UNCHANGED <<mode, doors, binding, restarts, order, started>>
  <2>1. closeDone \/ remap # "ready"
    BY DEF IInv, Mapping
  <2>2. Stage' = IF Stage = "mapped" THEN "closed" ELSE Stage
    BY <1>12, <2>1 DEF Stage
  <2>3. Agreement!Cancel
    BY <1>12, <2>2 DEF Agreement!Cancel
  <2>4. QED
    BY <2>3 DEF Agreement!ANext
<1>13. CASE StopCancel
  BY <1>12, <1>13 DEF StopCancel, Tell
<1>14. CASE RebuildBegin
  <2>1. /\ rebuild = "begin"
        /\ UNCHANGED <<mode, doors, binding, remap, restarts, order, started, told>>
    BY <1>14 DEF RebuildBegin, rebuilds
  <2>2. CASE rebuild' # "go"
    BY <1>1, <2>1, <2>2
  <2>3. CASE rebuild' = "go"
    <3>1. ~stop
      BY <1>14, <2>3 DEF RebuildBegin
    <3>2. closeDone /\ remap = "running" /\ ~started /\ restarts = 0
      BY <2>1, <3>1 DEF IInv, Mapping, Starting, Agreed, Cancelling
    <3>3. Stage = "closed" /\ Stage' = Stage
      BY <2>1, <3>2 DEF Stage
    <3>4. Agreement!Commit
      BY <2>1, <2>3, <3>2, <3>3 DEF Agreement!Commit
    <3>5. QED
      BY <3>4 DEF Agreement!ANext
  <2>4. QED
    BY <2>2, <2>3
<1>15. CASE RebuildCall
  <2>1. /\ rebuild = "go" /\ rebuild' # "go"
        /\ UNCHANGED <<mode, doors, binding, remap, order, started, told>>
    BY <1>15 DEF RebuildCall, rebuilds
  <2>2. closeDone /\ remap \in {"running", "cancelled"} /\ ~started /\ restarts = 0
    BY <2>1 DEF IInv, Mapping, Starting, Agreed
  <2>3. Stage = "closed" /\ Stage' = Stage
    BY <2>1, <2>2 DEF Stage
  <2>4. CASE restarts' = restarts + 1
    <3>1. Agreement!Restart
      BY <2>1, <2>2, <2>3, <2>4 DEF Agreement!Restart
    <3>2. QED
      BY <3>1 DEF Agreement!ANext
  <2>5. CASE UNCHANGED restarts
    <3>1. Agreement!Withdraw
      BY <2>1, <2>3, <2>5 DEF Agreement!Withdraw
    <3>2. QED
      BY <3>1 DEF Agreement!ANext
  <2>6. QED
    BY <1>15, <2>4, <2>5 DEF RebuildCall
<1>16. CASE RebuildResult \/ RebuildError
  <2>1. /\ rebuild \in {"result", "error"} /\ rebuild' = "ended"
        /\ remap' \in IF stop THEN {remap, "cancelled"} ELSE {"ready", "failed"}
        /\ UNCHANGED <<mode, doors, binding, restarts, order, started, told>>
    BY <1>16 DEF RebuildResult, RebuildError, rebuilds
  <2>2. closeDone /\ ~started /\ remap \in {"running", "cancelled"} /\ (~stop => remap = "running")
    BY <2>1 DEF IInv, Mapping, Starting, Agreed, Cancelling
  <2>3. CASE remap' = remap
    <3>1. Stage' = Stage
      BY <2>1, <2>3, StageStays DEF staged
    <3>2. QED
      BY <2>1, <2>3, <3>1 DEF Agreement!avars
  <2>4. CASE remap' = "cancelled"
    BY <1>12, <2>1, <2>4
  <2>5. CASE ~stop
    BY <1>6, <1>7, <2>1, <2>2, <2>5
  <2>6. QED
    BY <2>1, <2>3, <2>4, <2>5
<1>17. QED
  <2>1. ASSUME NEW s \in Sessions, NEW i \in TaskIds, StartBegin(s, i)
        PROVE  /\ UNCHANGED <<mode, doors, binding, remap, restarts, order, started, told>>
               /\ rebuild' = "go" <=> rebuild = "go"
    BY <2>1 DEF StartBegin
  <2>2. ASSUME StopSet \/ RebuildRestart \/ Main \/ MainEnd \/ Signal \/ Telemetry \/ UNCHANGED vars
        PROVE  /\ UNCHANGED <<mode, doors, binding, remap, restarts, order, started, told>>
               /\ rebuild' = "go" <=> rebuild = "go"
    BY <2>2 DEF StopSet, RebuildRestart, rebuilds, Main, MainLaunch, MainStopped, MainEnd, Signal,
       mains, Telemetry, vars
  <2>3. QED
    BY <1>1, <1>2, <1>3, <1>4, <1>5, <1>8, <1>9, <1>10, <1>11, <1>13, <1>14, <1>15, <1>16, <2>1, <2>2
    DEF Next, Request, Worker, Rebuilder

(* The receiver implements StartAgreement for any sessions, runs, tasks and   *)
(* quotas: the steps of RescueTaskReceiver are one dialogue with one car,     *)
(* whatever its threads, other cars and signals do in between.  The rebuild's *)
(* thread reads the stop event before the call of the restart, not with it:   *)
(* a restart it has decided on is called after a STOP too, once, and no map   *)
(* comes of it.                                                               *)
THEOREM ReceiverImplementsAgreement == Spec => ImplementsAgreement
<1>1. Init => Agreement!AInit
  <2> SUFFICES ASSUME Init
               PROVE  Agreement!AInit
    OBVIOUS
  <2>1. Stage = "free"
    BY DEF Init, Stage
  <2>2. QED
    BY <2>1 DEF Init, Agreement!AInit
<1>2. IInv /\ [Next]_vars => [Agreement!ANext]_(Agreement!avars)
  BY AgreementStep
<1>3. QED
  BY <1>1, <1>2, Invariant, PTL DEF Spec, ImplementsAgreement, Agreement!ASpec
=============================================================================

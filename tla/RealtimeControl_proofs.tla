----------------------- MODULE RealtimeControl_proofs ------------------------
(* Proofs about RealtimeControl, for every set of axes and every pair of     *)
(* timeouts.                                                                 *)
EXTENDS RealtimeControl, TLAPS

(* At rest is at rest on every axis.                                         *)
LEMMA RestByAxis ==
    ASSUME NEW v \in Moves
    PROVE  v = AtRest <=> \A a \in Axes : v[a] = 0
BY DEF Moves, AtRest

-----------------------------------------------------------------------------
(* Types.                                                                    *)

LEMMA TypeInit == Init => TypeOK /\ BeatInv
<1> SUFFICES ASSUME Init
             PROVE  TypeOK /\ BeatInv
  OBVIOUS
<1>1. AtRest \in Moves
  BY DEF AtRest, Moves
<1>2. rcnt \in 0 .. ControlTicks - 1 /\ hcnt \in 0 .. HeartbeatTicks
      /\ quiet \in 0 .. QuietMax
  BY ConstantsAssumption DEF ConstantsAssumption, Init, QuietMax
<1>3. QED
  BY <1>1, <1>2 DEF Init, TypeOK, BeatInv, YawSources, Places

LEMMA TypeStep ==
    ASSUME TypeOK, BeatInv, [Next]_vars
    PROVE  TypeOK' /\ BeatInv'
<1> USE ConstantsAssumption
    DEF ConstantsAssumption, TypeOK, BeatInv, pilot, companion, target, state, out
<1>1. CASE Heartbeat
  BY <1>1 DEF Heartbeat
<1>2. ASSUME NEW v \in Moves, NEW turn \in {"zero", "companion"}, Control(v, turn)
      PROVE  TypeOK' /\ BeatInv'
  <2>1. enable' \in BOOLEAN /\ wts' \in BOOLEAN /\ cut' \in BOOLEAN
    BY <1>2, Zenon DEF Control, Arms
  <2>2. vel' \in Moves /\ yaw' \in YawSources /\ rcnt' \in 0 .. ControlTicks - 1
        /\ quiet' \in 0 .. QuietMax
    BY <1>2 DEF Control, YawSources, QuietMax
  <2>3. QED
    BY <1>2, <2>1, <2>2 DEF Control
<1>3. CASE TickTasks \/ TickOnly
  BY <1>3 DEF TickTasks, TickOnly, Places, QuietMax
<1>4. CASE RemoteLost \/ RemoteMasked \/ MaskDone
  <2>1. CASE RemoteMasked
    <3>1. CASE ignored
      BY <2>1, <3>1 DEF RemoteMasked, Places
    <3>2. CASE ~ignored
      BY <2>1, <3>2 DEF RemoteMasked, Places
    <3>3. QED
      BY <3>1, <3>2
  <2>2. CASE RemoteLost
    BY <2>2 DEF RemoteLost, Places
  <2>3. CASE MaskDone
    BY <2>3 DEF MaskDone, Places, YawSources
  <2>4. QED
    BY <1>4, <2>1, <2>2, <2>3
<1>5. ASSUME NEW turn \in {"zero", "stick"}, RemoteSticks(turn)
      PROVE  TypeOK' /\ BeatInv'
  BY <1>5 DEF RemoteSticks, Places, YawSources
<1>6. ASSUME NEW a \in Axes, MaskClears(a) \/ StopClears(a)
      PROVE  TypeOK' /\ BeatInv'
  BY <1>6 DEF MaskClears, StopClears, Moves
<1>7. CASE Beat \/ BeatStore
  BY <1>7 DEF Beat, BeatStore, Places
<1>8. CASE Drop
  BY <1>8 DEF Drop, Places
<1>9. CASE CutControl
  <2>1. enable' \in BOOLEAN /\ cut' \in BOOLEAN
    BY <1>9, Zenon DEF CutControl
  <2>2. QED
    BY <1>9, <2>1 DEF CutControl, Places
<1>10. CASE Watch
  BY <1>10 DEF Watch, Places
<1>11. CASE WatchStore
  <2>1. CASE Expired
    BY <1>11, <2>1 DEF WatchStore, Places
  <2>2. CASE ~Expired
    <3>1. rcnt' \in 0 .. ControlTicks - 1
      BY <1>11, <2>2 DEF WatchStore, Expired
    <3>2. QED
      BY <1>11, <2>2, <3>1 DEF WatchStore, Places
  <2>3. QED
    BY <2>1, <2>2
<1>12. CASE Disarm \/ StopDone
  <2>1. CASE Disarm
    BY <2>1 DEF Disarm, Places
  <2>2. CASE StopDone
    BY <2>2 DEF StopDone, Places, YawSources
  <2>3. QED
    BY <1>12, <2>1, <2>2
<1>13. ASSUME NEW u \in BOOLEAN, NEW p \in BOOLEAN, Report(u, p)
       PROVE  TypeOK' /\ BeatInv'
  <2>1. unlocked' \in BOOLEAN /\ program' \in BOOLEAN
    BY <1>13, Zenon DEF Report
  <2>2. QED
    BY <1>13, <2>1 DEF Report
<1>14. CASE CheckToSend
  BY <1>14 DEF CheckToSend, Places
<1>15. ASSUME NEW a \in Axes, Copy(a)
       PROVE  TypeOK' /\ BeatInv'
  BY <1>15 DEF Copy, Moves
<1>16. CASE Send
  BY <1>16 DEF Send, Places
<1>17. CASE UNCHANGED vars
  BY <1>17 DEF vars
<1>18. QED
  BY <1>1, <1>2, <1>3, <1>4, <1>5, <1>6, <1>7, <1>8, <1>9, <1>10, <1>11,
     <1>12, <1>13, <1>14, <1>15, <1>16, <1>17
     DEF Next, Usb, Tim, Remote, UserComTask, DataExchange

(* Every variable keeps its type, the counters included, whatever resets     *)
(* the USB interrupt slips between a load and its store.                     *)
THEOREM TypeCorrect == Spec => []TypeOK
  BY TypeInit, TypeStep, PTL DEF Spec

-----------------------------------------------------------------------------
(* The inductive invariant, one lemma for each of its parts.                 *)

(* The control watchdog's counter keeps up with the silence.                 *)
LEMMA CountStep ==
    ASSUME TypeOK, CountInv, [Next]_vars
    PROVE  CountInv'
<1> USE ConstantsAssumption
    DEF ConstantsAssumption, TypeOK, CountInv, Uncounted, QuietMax,
        pilot, companion, target, state, out
<1>1. CASE Usb
  BY <1>1 DEF Usb, Heartbeat, Control
<1>2. CASE TickTasks \/ TickOnly
  BY <1>2 DEF TickTasks, TickOnly
<1>3. CASE Remote
  BY <1>3 DEF Remote, RemoteLost, RemoteSticks, RemoteMasked, MaskClears, MaskDone
<1>4. CASE Beat \/ BeatStore \/ Drop
  BY <1>4 DEF Beat, BeatStore, Drop
<1>5. CASE CutControl
  BY <1>5 DEF CutControl
<1>6. CASE Watch \/ WatchStore
  BY <1>6 DEF Watch, WatchStore
<1>7. CASE Disarm \/ StopDone \/ \E a \in Axes : StopClears(a)
  BY <1>7 DEF Disarm, StopDone, StopClears
<1>8. CASE DataExchange
  BY <1>8 DEF DataExchange, Report, CheckToSend, Copy, Send
<1>9. CASE UNCHANGED vars
  BY <1>9 DEF vars
<1>10. QED
  BY <1>1, <1>2, <1>3, <1>4, <1>5, <1>6, <1>7, <1>8, <1>9
     DEF Next, Tim, UserComTask

\* The parts of Inv about the targets in rt_tar.
Watched == MovingIsWatched /\ TurnIsWatched /\ ClearInv

(* A target that is not at rest keeps its watchdog: only a control frame     *)
(* sets one, and it arms the watchdog in the same interrupt; the stop drops  *)
(* the flag before it clears, so a frame in its middle re-arms.              *)
LEMMA WatchedStep ==
    ASSUME TypeOK, Watched, [Next]_vars
    PROVE  Watched'
<1> USE DEF TypeOK, Watched, MovingIsWatched, TurnIsWatched, ClearInv,
            pilot, companion, target, state, out
<1>1. ASSUME NEW v \in Moves, NEW turn \in {"zero", "companion"}, Control(v, turn)
      PROVE  Watched'
  <2>1. ~enable' => v = AtRest /\ turn = "zero"
    BY <1>1 DEF Control, Arms
  <2>2. QED
    BY <1>1, <2>1 DEF Control, AtRest
<1>2. CASE Heartbeat \/ TickTasks \/ TickOnly
  BY <1>2 DEF Heartbeat, TickTasks, TickOnly
<1>3. CASE RemoteLost \/ RemoteMasked \/ MaskDone
      \/ \E turn \in {"zero", "stick"} : RemoteSticks(turn)
  BY <1>3 DEF RemoteLost, RemoteMasked, MaskDone, RemoteSticks
<1>4. ASSUME NEW a \in Axes, MaskClears(a) \/ StopClears(a)
      PROVE  Watched'
  <2>1. vel' \in Moves /\ \A b \in Axes : vel'[b] = IF b = a THEN 0 ELSE vel[b]
    BY <1>4 DEF MaskClears, StopClears, Moves
  <2>2. vel' # AtRest => vel # AtRest
    BY <2>1, RestByAxis
  <2>3. QED
    BY <1>4, <2>1, <2>2 DEF MaskClears, StopClears
<1>5. CASE Beat \/ BeatStore \/ Drop \/ Watch \/ WatchStore
  BY <1>5 DEF Beat, BeatStore, Drop, Watch, WatchStore
<1>6. CASE CutControl
  BY <1>6 DEF CutControl
<1>7. CASE Disarm
  BY <1>7 DEF Disarm
<1>8. CASE StopDone
  <2>1. ~enable => vel = AtRest
    BY <1>8, RestByAxis DEF StopDone
  <2>2. QED
    BY <1>8, <2>1 DEF StopDone
<1>9. CASE DataExchange
  BY <1>9 DEF DataExchange, Report, CheckToSend, Copy, Send
<1>10. CASE UNCHANGED vars
  BY <1>10 DEF vars
<1>11. QED
  BY <1>1, <1>2, <1>3, <1>4, <1>5, <1>6, <1>7, <1>8, <1>9, <1>10
     DEF Next, Usb, Tim, Remote, UserComTask

(* After ControlTicks ticks of silence the watchdog has fired.               *)
LEMMA SilenceStops ==
    ASSUME TypeOK, CountInv, Watched, pc \in {"idle", "copy"},
           quiet >= ControlTicks, ~cut
    PROVE  vel = AtRest /\ yaw # "companion"
BY ConstantsAssumption
   DEF ConstantsAssumption, TypeOK, CountInv, Watched, MovingIsWatched,
       TurnIsWatched, QuietMax

\* The parts of Inv about the frame.
Told == SendInv /\ UnitStopsWhenSilentUnlessCut

(* The frame that ends a tick of tasks carries what the tasks left: after    *)
(* ControlTicks ticks of silence, a target at rest on every axis.            *)
LEMMA ToldStep ==
    ASSUME TypeOK, CountInv, Watched, Told, [Next]_vars
    PROVE  Told'
<1> USE ConstantsAssumption
    DEF ConstantsAssumption, TypeOK, Told, SendInv, UnitStopsWhenSilentUnlessCut,
        QuietMax, pilot, companion, target, state, out
<1>1. CASE Usb
  BY <1>1 DEF Usb, Heartbeat, Control
<1>2. CASE TickTasks \/ TickOnly
  BY <1>2 DEF TickTasks, TickOnly
<1>3. CASE Remote
  BY <1>3 DEF Remote, RemoteLost, RemoteSticks, RemoteMasked, MaskClears, MaskDone
<1>4. CASE UserComTask
  BY <1>4 DEF UserComTask, Beat, BeatStore, Drop, CutControl, Watch, WatchStore,
     Disarm, StopClears, StopDone
<1>5. CASE CheckToSend \/ \E u, p \in BOOLEAN : Report(u, p)
  BY <1>5 DEF CheckToSend, Report
<1>6. ASSUME NEW a \in Axes, Copy(a)
      PROVE  Told'
  <2>1. buf' \in Moves /\ \A b \in Axes : buf'[b] = IF b = a THEN vel[a] ELSE buf[b]
    BY <1>6 DEF Copy, Moves
  <2>2. quiet >= ControlTicks /\ ~cut => vel[a] = 0
    BY <1>6, SilenceStops, RestByAxis DEF Copy
  <2>3. QED
    BY <1>6, <2>1, <2>2 DEF Copy
<1>7. CASE Send
  <2>1. quiet >= ControlTicks /\ ~cut => buf = AtRest
    BY <1>7, RestByAxis DEF Send
  <2>2. QED
    BY <1>7, <2>1 DEF Send
<1>8. CASE UNCHANGED vars
  BY <1>8 DEF vars
<1>9. QED
  BY <1>1, <1>2, <1>3, <1>4, <1>5, <1>6, <1>7, <1>8 DEF Next, Tim, DataExchange

LEMMA InvInit == Init => Inv
<1> SUFFICES ASSUME Init
             PROVE  Inv
  OBVIOUS
<1>1. TypeOK /\ BeatInv
  BY TypeInit
<1>2. CountInv /\ Watched /\ Told
  BY ConstantsAssumption
     DEF ConstantsAssumption, Init, CountInv, Watched, MovingIsWatched,
         TurnIsWatched, ClearInv, Told, SendInv, UnitStopsWhenSilentUnlessCut
<1>3. QED
  BY <1>1, <1>2 DEF Inv, Watched, Told

THEOREM InvHolds == Spec => []Inv
<1>1. Inv /\ [Next]_vars => Inv'
  BY TypeStep, CountStep, WatchedStep, ToldStep DEF Inv, Watched, Told
<1>2. QED
  BY InvInit, <1>1, PTL DEF Spec

(* No target without its watchdog, whatever frame arrives inside the tasks.  *)
THEOREM MovingIsAlwaysWatched == Spec => []MovingIsWatched
<1>1. Inv => MovingIsWatched
  BY DEF Inv
<1>2. QED
  BY InvHolds, <1>1, PTL

(* The promise of option 0x04, up to the heartbeat watchdog's interference:  *)
(* silence stops the vehicle, for every timeout and every set of axes.       *)
THEOREM SilenceStopsMotion == Spec => []StopsWhenSilentUnlessCut
<1>1. Inv => StopsWhenSilentUnlessCut
  BY SilenceStops DEF Inv, Watched, StopsWhenSilentUnlessCut, StopsWhenSilent
<1>2. QED
  BY InvHolds, <1>1, PTL

(* And the inertial unit has been sent a target at rest by then.             *)
THEOREM SilenceStopsUnit == Spec => []UnitStopsWhenSilentUnlessCut
<1>1. Inv => UnitStopsWhenSilentUnlessCut
  BY DEF Inv
<1>2. QED
  BY InvHolds, <1>1, PTL

(* Nor does a turn the companion asked for outlive its stream.               *)
THEOREM SilenceStopsTurning == Spec => []TurnStopsUnlessCut
<1>1. Inv => TurnStopsUnlessCut
  BY SilenceStops DEF Inv, Watched, TurnStopsUnlessCut
<1>2. QED
  BY InvHolds, <1>1, PTL
=============================================================================

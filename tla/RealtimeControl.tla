--------------------------- MODULE RealtimeControl ---------------------------
(***************************************************************************)
(* The velocity targets the companion computer streams to the flight       *)
(* controller, and the two watchdogs over them (FcSrc/User_Com.c,          *)
(* FcSrc/ANO_LX.c).                                                        *)
(*                                                                         *)
(* The USB interrupt takes a control frame (option 0x04) into rt_tar and   *)
(* arms the control watchdog; a heartbeat frame (option 0x00) resets the   *)
(* heartbeat watchdog.  Every 10 ms the TIM7 interrupt, of a lower         *)
(* priority, lets the pilot's transmitter into rt_tar (RC_Data_Task), runs *)
(* both watchdogs (UserCom_Task) and hands rt_tar to the inertial unit as  *)
(* frame 0x41.  The USB interrupt may fall between any two accesses of the *)
(* TIM7 code to shared memory; those accesses are separate steps here.     *)
(*                                                                         *)
(* Each velocity is abstracted to "moving" (1) or "at rest" (0), the yaw   *)
(* rate to who asked for it.                                               *)
(***************************************************************************)
EXTENDS Naturals

CONSTANTS
    Axes,            \* vel_x, vel_y, vel_z
    HeartbeatTicks,  \* 100: USER_HEARTBEAT_TIMEOUT_S in ticks of 10 ms
    ControlTicks     \* 100: REALTIME_CONTROL_TIMEOUT_S in ticks of 10 ms

ASSUME ConstantsAssumption ==
    /\ HeartbeatTicks \in Nat \ {0}
    /\ ControlTicks \in Nat \ {0}

VARIABLES
    vel,        \* rt_tar.st_data.vel_x, vel_y, vel_z
    yaw,        \* rt_tar.st_data.yaw_dps: "zero", or who set it
    enable,     \* realtime_control_enable
    rcnt,       \* realtime_control_cnt
    connected,  \* user_connected
    hcnt,       \* user_heartbeat_cnt
    ignored,    \* remote_ignored: channel 8 masks the sticks
    wts,        \* dt.fun[0x41].WTS
    unlocked,   \* fc_sta.unlock_sta, as the unit last reported it
    program,    \* fc_sta.fc_mode_sta == 3, as the unit last reported it
    pc,         \* where the TIM7 handler is
    reg,        \* the counter value it has loaded and will store
    todo,       \* axes it has still to clear or to copy
    buf,        \* send_buffer: the axes copied so far
    imu,        \* the velocities of the last frame 0x41 sent
    quiet,      \* history: ticks begun since the last control frame
    cut         \* history: a heartbeat timeout disarmed the control watchdog

pilot == <<ignored>>
companion == <<connected, hcnt, enable, rcnt>>
target == <<vel, yaw>>
state == <<unlocked, program>>
out == <<buf, imu>>
vars == <<pilot, companion, target, state, wts, pc, reg, todo, out, quiet, cut>>

Moves == [Axes -> {0, 1}]
AtRest == [a \in Axes |-> 0]
YawSources == {"zero", "companion", "stick"}
Places == {"idle", "remote", "mask", "beat", "beatStore", "drop", "cut", "watch",
           "watchStore", "disarm", "clear", "uart", "copy"}

\* The bound of quiet: nothing below tells longer silences apart.
QuietMax == ControlTicks

TypeOK ==
    /\ vel \in Moves
    /\ yaw \in YawSources
    /\ enable \in BOOLEAN
    /\ rcnt \in 0 .. ControlTicks - 1
    /\ connected \in BOOLEAN
    /\ hcnt \in 0 .. HeartbeatTicks
    /\ ignored \in BOOLEAN
    /\ wts \in BOOLEAN
    /\ unlocked \in BOOLEAN
    /\ program \in BOOLEAN
    /\ pc \in Places
    /\ reg \in Nat
    /\ todo \in SUBSET Axes
    /\ buf \in Moves
    /\ imu \in Moves
    /\ quiet \in 0 .. QuietMax
    /\ cut \in BOOLEAN

Init ==
    /\ vel = AtRest
    /\ yaw = "zero"
    /\ enable = FALSE
    /\ rcnt = 0
    /\ connected = FALSE
    /\ hcnt = 0
    /\ ignored = FALSE
    /\ wts = FALSE
    /\ unlocked = FALSE
    /\ program = FALSE
    /\ pc = "idle"
    /\ reg = 0
    /\ todo = {}
    /\ buf = AtRest
    /\ imu = AtRest
    /\ quiet = 0
    /\ cut = FALSE

-----------------------------------------------------------------------------
(* The USB interrupt, UserCom_DataAnl.  It runs to completion.             *)

Heartbeat ==
    /\ connected' = TRUE
    /\ hcnt' = 0
    /\ UNCHANGED <<pilot, enable, rcnt, target, state, wts, pc, reg, todo, out,
                   quiet, cut>>

ArmsMutant(v, turn) == \A a \in Axes : v[a] # 0    \* || where the code has &&

\* A target other than all zero arms the control watchdog, zero disarms it.
Arms(v, turn) == v # AtRest \/ turn # "zero"

Control(v, turn) ==
    /\ vel' = v
    /\ yaw' = turn
    /\ wts' = TRUE
    /\ enable' = Arms(v, turn)
    /\ rcnt' = 0
    /\ quiet' = 0
    /\ cut' = FALSE
    /\ UNCHANGED <<pilot, connected, hcnt, state, pc, reg, todo, out>>

Usb ==
    \/ Heartbeat
    \/ \E v \in Moves, turn \in {"zero", "companion"} : Control(v, turn)

-----------------------------------------------------------------------------
(* The TIM7 interrupt: RC_Data_Task.                                       *)

\* Every tenth interrupt runs the tasks; the others only transmit.
TickTasks ==
    /\ pc = "idle"
    /\ pc' = "remote"
    /\ quiet' = IF quiet < QuietMax THEN quiet + 1 ELSE quiet
    /\ UNCHANGED <<pilot, companion, target, state, wts, reg, todo, out, cut>>

TickOnly ==
    /\ pc = "idle"
    /\ wts
    /\ pc' = "uart"
    /\ UNCHANGED <<pilot, companion, target, state, wts, reg, todo, out, quiet, cut>>

\* rc_in.fail_safe: the sticks are centred, the targets left as they are.
RemoteLost ==
    /\ pc = "remote"
    /\ wts' = TRUE
    /\ pc' = "beat"
    /\ UNCHANGED <<pilot, companion, target, state, reg, todo, out, quiet, cut>>

\* The sticks command: they own the yaw rate.
RemoteSticks(turn) ==
    /\ pc = "remote"
    /\ ignored' = FALSE
    /\ yaw' = turn
    /\ wts' = TRUE
    /\ pc' = "beat"
    /\ UNCHANGED <<companion, vel, state, reg, todo, out, quiet, cut>>

\* Channel 8 masks the sticks: as it does so, every target is cleared.
RemoteMasked ==
    /\ pc = "remote"
    /\ ignored' = TRUE
    /\ IF ignored
         THEN wts' = TRUE /\ pc' = "beat" /\ UNCHANGED todo
         ELSE todo' = Axes /\ pc' = "mask" /\ UNCHANGED wts
    /\ UNCHANGED <<companion, target, state, reg, out, quiet, cut>>

MaskClears(a) ==
    /\ pc = "mask"
    /\ a \in todo
    /\ vel' = [vel EXCEPT ![a] = 0]
    /\ todo' = todo \ {a}
    /\ UNCHANGED <<pilot, companion, yaw, state, wts, pc, reg, out, quiet, cut>>

MaskDone ==
    /\ pc = "mask"
    /\ todo = {}
    /\ yaw' = "zero"
    /\ wts' = TRUE
    /\ pc' = "beat"
    /\ UNCHANGED <<pilot, companion, vel, state, reg, todo, out, quiet, cut>>

Remote ==
    \/ RemoteLost
    \/ \E turn \in {"zero", "stick"} : RemoteSticks(turn)
    \/ RemoteMasked
    \/ \E a \in Axes : MaskClears(a)
    \/ MaskDone

-----------------------------------------------------------------------------
(* The TIM7 interrupt: UserCom_Task.  Each counter is loaded, then stored: *)
(* a reset by the USB interrupt in between is lost.                        *)

Beat ==
    /\ pc = "beat"
    /\ IF connected
         THEN reg' = hcnt + 1 /\ pc' = "beatStore"
         ELSE pc' = "watch" /\ UNCHANGED reg
    /\ UNCHANGED <<pilot, companion, target, state, wts, todo, out, quiet, cut>>

BeatStore ==
    /\ pc = "beatStore"
    /\ hcnt' = reg
    /\ pc' = IF reg >= HeartbeatTicks THEN "drop" ELSE "watch"
    /\ UNCHANGED <<pilot, connected, enable, rcnt, target, state, wts, reg, todo,
                   out, quiet, cut>>

\* A heartbeat timeout; it disarms the control watchdog of a flying vehicle.
Drop ==
    /\ pc = "drop"
    /\ connected' = FALSE
    /\ pc' = IF unlocked THEN "cut" ELSE "watch"
    /\ UNCHANGED <<pilot, hcnt, enable, rcnt, target, state, wts, reg, todo, out,
                   quiet, cut>>

CutControl ==
    /\ pc = "cut"
    /\ enable' = FALSE
    /\ cut' = (cut \/ enable)
    /\ pc' = "watch"
    /\ UNCHANGED <<pilot, connected, hcnt, rcnt, target, state, wts, reg, todo,
                   out, quiet>>

Watch ==
    /\ pc = "watch"
    /\ IF enable
         THEN reg' = rcnt + 1 /\ pc' = "watchStore"
         ELSE pc' = "uart" /\ UNCHANGED reg
    /\ UNCHANGED <<pilot, companion, target, state, wts, todo, out, quiet, cut>>

ExpiredMutant == reg > ControlTicks \/ program

\* The stream has stopped, or the vehicle flies a program of its own.
Expired == reg >= ControlTicks \/ program

WatchStore ==
    /\ pc = "watchStore"
    /\ rcnt' = IF Expired THEN 0 ELSE reg
    /\ pc' = IF Expired THEN "disarm" ELSE "uart"
    /\ UNCHANGED <<pilot, connected, hcnt, enable, target, state, wts, reg, todo,
                   out, quiet, cut>>

\* The stop: first the flag, then the targets, then the frame.
Disarm ==
    /\ pc = "disarm"
    /\ enable' = FALSE
    /\ todo' = Axes
    /\ pc' = "clear"
    /\ UNCHANGED <<pilot, connected, hcnt, rcnt, target, state, wts, reg, out,
                   quiet, cut>>

StopClears(a) ==
    /\ pc = "clear"
    /\ a \in todo
    /\ vel' = [vel EXCEPT ![a] = 0]
    /\ todo' = todo \ {a}
    /\ UNCHANGED <<pilot, companion, yaw, state, wts, pc, reg, out, quiet, cut>>

StopDoneMutant ==    \* the flag last
    /\ pc = "clear"
    /\ todo = {}
    /\ yaw' = "zero"
    /\ wts' = TRUE
    /\ enable' = FALSE
    /\ pc' = "uart"
    /\ UNCHANGED <<pilot, connected, hcnt, rcnt, vel, state, reg, todo, out,
                   quiet, cut>>

StopDone ==
    /\ pc = "clear"
    /\ todo = {}
    /\ yaw' = "zero"
    /\ wts' = TRUE
    /\ pc' = "uart"
    /\ UNCHANGED <<pilot, companion, vel, state, reg, todo, out, quiet, cut>>

UserComTask ==
    \/ Beat \/ BeatStore \/ Drop \/ CutControl
    \/ Watch \/ WatchStore \/ Disarm \/ StopDone
    \/ \E a \in Axes : StopClears(a)

-----------------------------------------------------------------------------
(* The TIM7 interrupt: what the unit reports, and frame 0x41.              *)

Report(isUnlocked, isProgram) ==
    /\ pc = "uart"
    /\ unlocked' = isUnlocked
    /\ program' = isProgram
    /\ UNCHANGED <<pilot, companion, target, wts, pc, reg, todo, out, quiet, cut>>

CheckToSend ==
    /\ pc = "uart"
    /\ pc' = IF wts THEN "copy" ELSE "idle"
    /\ todo' = IF wts THEN Axes ELSE {}
    /\ wts' = FALSE
    /\ UNCHANGED <<pilot, companion, target, state, reg, out, quiet, cut>>

Copy(a) ==
    /\ pc = "copy"
    /\ a \in todo
    /\ buf' = [buf EXCEPT ![a] = vel[a]]
    /\ todo' = todo \ {a}
    /\ UNCHANGED <<pilot, companion, target, state, wts, pc, reg, imu, quiet, cut>>

Send ==
    /\ pc = "copy"
    /\ todo = {}
    /\ imu' = buf
    /\ pc' = "idle"
    /\ UNCHANGED <<pilot, companion, target, state, wts, reg, todo, buf, quiet, cut>>

DataExchange ==
    \/ \E u, p \in BOOLEAN : Report(u, p)
    \/ CheckToSend
    \/ \E a \in Axes : Copy(a)
    \/ Send

Tim == TickTasks \/ TickOnly \/ Remote \/ UserComTask \/ DataExchange

Next == Usb \/ Tim

Spec == Init /\ [][Next]_vars
-----------------------------------------------------------------------------
(* Properties.                                                             *)

(* "The stream must keep coming at less than a second's interval; on a     *)
(* timeout motion stops by itself" (option 0x04 of UserCom_DataAnl): once  *)
(* the companion has been silent for ControlTicks ticks, no velocity       *)
(* target is left.                                                         *)
StopsWhenSilent == pc = "idle" /\ quiet >= ControlTicks => vel = AtRest

(* The same, unless the heartbeat watchdog disarmed the control watchdog.  *)
StopsWhenSilentUnlessCut == StopsWhenSilent \/ cut

(* And the unit itself has been told: the last frame 0x41 holds no         *)
(* velocity either, however the copy of rt_tar was interrupted.            *)
UnitStopsWhenSilentUnlessCut ==
    pc = "idle" /\ quiet >= ControlTicks => imu = AtRest \/ cut

(* Outside the stop itself a velocity target is never without the control  *)
(* watchdog, whatever frame arrives in the middle of UserCom_Task.         *)
MovingIsWatched == vel # AtRest => enable \/ pc = "clear" \/ cut

(* A yaw rate the companion asked for does not outlive its stream, whoever *)
(* holds the sticks.                                                       *)
TurnStopsUnlessCut ==
    pc = "idle" /\ quiet >= ControlTicks => yaw # "companion" \/ cut

-----------------------------------------------------------------------------
(* The inductive invariant behind them.                                    *)

\* In a tick that has begun and not yet counted itself.
Uncounted == {"remote", "mask", "beat", "beatStore", "drop", "cut", "watch"}

\* The control watchdog never lags behind the silence it measures.
CountInv ==
    /\ enable /\ pc \in Uncounted => quiet <= rcnt + 1
    /\ pc = "watchStore" => quiet <= reg
    /\ enable /\ pc \in {"clear", "uart", "copy", "idle"} => quiet <= rcnt

\* A connected companion's counter is below the limit, up to the store that
\* ends the connection.
BeatInv ==
    /\ pc = "beatStore" => reg <= HeartbeatTicks
    /\ connected /\ pc # "drop" => hcnt < HeartbeatTicks

TurnIsWatched == yaw = "companion" => enable \/ pc = "clear" \/ cut

\* Under way with the stop: a cleared axis moves again only under the watchdog.
ClearInv ==
    pc = "clear" /\ ~enable => \A a \in Axes \ todo : vel[a] = 0

\* Every tick of tasks ends in a transmission of what they left.
SendInv ==
    /\ pc \notin {"idle", "remote", "mask", "copy"} => wts
    /\ pc = "copy" /\ quiet >= ControlTicks /\ ~cut =>
          \A a \in Axes \ todo : buf[a] = 0

Inv ==
    /\ TypeOK
    /\ BeatInv
    /\ CountInv
    /\ MovingIsWatched
    /\ TurnIsWatched
    /\ ClearInv
    /\ SendInv
    /\ UnitStopsWhenSilentUnlessCut
=============================================================================

-------------------------------- MODULE Pilot ---------------------------------
(***************************************************************************)
(* The pilot's controls: the TIM7 task turns the transmitter's channels    *)
(* into mode changes, return home and the unlock and lock gestures         *)
(* (DrvRcInputTask, RC_Data_Task, LX_FC_State_Task); the main loop turns   *)
(* two more switches into landing, take-off and the emergency stop         *)
(* (UserTask_OneKeyCmd), and the interrupt may fall between any two of     *)
(* its reads.                                                              *)
(*                                                                         *)
(* All of them, and the companion, share one command slot (LxCommand): a   *)
(* command is refused while another is unconfirmed, or taken to the        *)
(* inertial unit, or given up.  The transmitter, the companion and the     *)
(* unit are external.                                                      *)
(***************************************************************************)
EXTENDS Naturals

CONSTANTS
    Scenes,      \* what pilot and companion may do: the transmitter's inputs, the commands
    UnlockHold,  \* UNLOCK_HOLD_TIME_MS, in calls of LX_FC_State_Task
    LockHold,    \* LOCK_HOLD_TIME_MS
    Window       \* the 2000 ms of RC_Data_Task, in calls

Modes == {"attitude", "position", "program"}    \* 1, 2, 3
None == "none"

\* link: fail_safe is 0; 1 by the bands of channels 5 and 8; 1 because no signal comes.
Input == [link : {"ok", "failsafe", "lost"}, mode : Modes,
          stick : {"centre", "toe_out", "corner", "other"},
          switch : {"takeoff", "middle", "land"}, stop : BOOLEAN]

ASSUME ConstantsAssumption ==
    /\ Scenes \subseteq [inputs : SUBSET Input, others : SUBSET {"unlock", "lock", "theirs"}]
    /\ {UnlockHold, LockHold, Window} \subseteq Nat \ {0}

VARIABLES
    scene,  \* what they do
    rc,     \* rc_in
    at,     \* where the TIM7 task is
    mode,   \* RC_Data_Task and LX_Change_Mode: old_mode, mod_f[1], mod_f[2], mod_f_time_cnt
    stick,  \* LX_FC_State.c: unlock_lock_flag, time_dly_cnt_ms, cali_f
    user,   \* UserTask_OneKeyCmd: its place and its three flags
    slot,   \* the command that is not confirmed, as long as wait_ck is not 0
    unit,   \* the inertial unit: its mode, whether it is unlocked, what it told (unlock_sta)
    seen    \* history of the controls, for the properties

vars == <<scene, rc, at, mode, stick, user, slot, unit, seen>>

Commands == Modes \cup {"home", "unlock", "lock", "calibrate", "takeoff", "land",
                     "stop", "theirs"}    \* the emergency stop's lock; the companion's mode

Longest == IF UnlockHold < LockHold THEN LockHold ELSE UnlockHold

TypeOK ==
    /\ scene \in Scenes
    /\ rc \in Input
    /\ at \in {"idle", "mode", "home", "gesture"}
    /\ mode \in [old : Modes \cup {None}, last : Modes \cup {None},
                 count : 0 .. 3, time : 0 .. Window]
    /\ stick \in [armed : BOOLEAN, time : 0 .. Longest, cali : BOOLEAN]
    /\ user \in [at : {"idle", "land", "takeoff", "stop"},
                 takeoff : BOOLEAN, land : BOOLEAN, stop : BOOLEAN]
    /\ slot \in Commands \cup {None}
    /\ unit \in [mode : Modes \cup {None, "theirs"}, unlocked : BOOLEAN,
                 told : BOOLEAN]
    /\ seen \in [entered : 0 .. 3, age : 0 .. Window + 1, quick : BOOLEAN, kept : BOOLEAN,
                 out : 0 .. Longest, centred : BOOLEAN, flipped : BOOLEAN, torn : BOOLEAN,
                 astray : BOOLEAN, missed : BOOLEAN]

(* seen.entered: the switches into program mode since their count was reset; *)
(*   age: calls since the first; quick: three came within the window; kept:  *)
(*   the count outlived its window                                           *)
(* seen.out: calls for which the sticks have been out; centred: the yaw      *)
(*   stick has been, since the last command of the gesture                   *)
(* seen.flipped: the switch has been off take-off since the last take-off;   *)
(*   torn: the signal went while the main loop was reading it                *)
(* seen.astray: the last mode was given up, or set by the companion          *)
(* seen.missed: the lock of the emergency stop was refused or given up       *)
NewSeen == [entered |-> 0, age |-> 0, quick |-> FALSE, kept |-> FALSE,
            out |-> 0, centred |-> FALSE, flipped |-> FALSE, torn |-> FALSE,
            astray |-> FALSE, missed |-> FALSE]

\* FC_Unlock, OneKey_Takeoff and their like: refused unless no command is waiting.
Accepted == slot = None
Issue(command) == slot' = IF Accepted THEN command ELSE slot

\* No signal leaves the channels at 0, and fail_safe the sticks at 1500.
Received(input) ==
    IF input.link = "ok" THEN input
    ELSE IF input.link = "failsafe" THEN [input EXCEPT !.stick = "centre"]
    ELSE [input EXCEPT !.stick = "centre", !.switch = "middle", !.stop = FALSE]

-----------------------------------------------------------------------------
(* The TIM7 task, every 10 ms.                                             *)

\* DrvRcInputTask; with fail_safe the other two do nothing that counts here.
RcInput(input) ==
    /\ at = "idle"
    /\ rc' = Received(input)
    /\ at' = IF input.link = "ok" THEN "mode" ELSE "idle"
    /\ seen' = [seen EXCEPT
                  !.flipped = @ \/ (input.link # "lost" /\ input.switch # "takeoff"),
                  !.torn = @ \/ (input.link = "lost" /\ user.at \in {"land", "takeoff"})]
    /\ UNCHANGED <<scene, mode, stick, user, slot, unit>>

\* RC_Data_Task: LX_Change_Mode remembers the mode once the command is in the slot;
\* each switch into program mode is counted (more than three are as good as three).
RemembersMutant == mode.old # rc.mode    \* also a mode that was refused
Remembers == mode.old # rc.mode /\ Accepted

ChangeMode ==
    LET entered == rc.mode = "program" /\ mode.last # "program"
    IN /\ at = "mode"
       /\ IF mode.old # rc.mode THEN Issue(rc.mode) ELSE UNCHANGED slot
       /\ mode' = [mode EXCEPT !.old = IF Remembers THEN rc.mode ELSE @, !.last = rc.mode,
                               !.count = IF entered /\ @ < 3 THEN @ + 1 ELSE @]
       /\ seen' = IF ~entered \/ seen.entered = 3 THEN seen
                  ELSE [seen EXCEPT !.entered = @ + 1,
                                    !.quick = seen.entered = 2 /\ seen.age <= Window]
       /\ at' = "home"
       /\ UNCHANGED <<scene, rc, stick, user, unit>>

\* Three within the window are a return home.  With fewer, tmp has no value: the
\* count is reset or kept.
EnoughMutant == mode.count >= 2
Enough == mode.count >= 3
ElapsedMutant == mode.time > Window
Elapsed == mode.time >= Window

ReturnHome ==
    LET older == IF seen.entered # 0 /\ seen.age <= Window THEN seen.age + 1 ELSE seen.age
        Reset(resets) ==
            /\ mode' = IF resets THEN [mode EXCEPT !.count = 0, !.time = 0] ELSE mode
            /\ seen' = IF resets
                       THEN [seen EXCEPT !.entered = 0, !.age = 0,
                                         !.quick = FALSE, !.kept = FALSE]
                       ELSE [seen EXCEPT !.age = older, !.kept = @ \/ ~Enough]
    IN /\ at = "home"
       /\ \/ /\ mode.count # 0 /\ Elapsed
             /\ \/ Enough /\ Issue("home") /\ Reset(Accepted)
                \/ ~Enough /\ UNCHANGED slot /\ \E tmp \in BOOLEAN : Reset(tmp)
          \/ /\ ~(mode.count # 0 /\ Elapsed)
             /\ mode' = [mode EXCEPT !.time = IF mode.count # 0 THEN @ + 1 ELSE @]
             /\ seen' = [seen EXCEPT !.age = older]
             /\ UNCHANGED slot
       /\ at' = "gesture"
       /\ UNCHANGED <<scene, rc, stick, user, unit>>

\* LX_Unlock_Lock_Check: one counter for both gestures, which are the same.
Hold == IF unit.told THEN LockHold ELSE UnlockHold
ArmedMutant == stick.armed \/ rc.stick # "toe_out"    \* any other position re-arms
Armed == stick.armed \/ rc.stick = "centre"
Complete == Armed /\ rc.stick = "toe_out" /\ stick.time >= Hold

\* LX_Cali_Trig_Check: once for each visit to a corner, when locked.
Calibrates == ~unit.told /\ rc.stick = "corner" /\ ~stick.cali

\* LX_FC_State_Task.  What it returns is not looked at, here and there.
Gesture ==
    /\ at = "gesture"
    /\ at' = "idle"
    /\ stick' = [armed |-> Armed /\ ~Complete,
                 time |-> IF ~Armed THEN stick.time
                          ELSE IF rc.stick # "toe_out" \/ Complete THEN 0
                          ELSE stick.time + 1,
                 cali |-> IF unit.told THEN stick.cali ELSE rc.stick = "corner"]
    /\ IF Complete THEN Issue(IF unit.told THEN "lock" ELSE "unlock")
       ELSE IF Calibrates THEN Issue("calibrate")
       ELSE UNCHANGED slot
    /\ seen' = [seen EXCEPT !.out = IF rc.stick # "toe_out" \/ Complete THEN 0
                                    ELSE IF @ < Longest THEN @ + 1 ELSE @,
                            !.centred = (@ \/ rc.stick = "centre") /\ ~Complete]
    /\ UNCHANGED <<scene, rc, mode, user, unit>>

-----------------------------------------------------------------------------
(* The main loop, every 50 ms: UserTask_OneKeyCmd, as the interrupt leaves   *)
(*   it time.                                                                *)

\* Without signal only the emergency stop is looked at.
UserBeginMutant ==    \* and the flags are cleared
    /\ at = "idle" /\ user.at = "idle"
    /\ user' = IF rc.link = "ok" THEN [user EXCEPT !.at = "land"]
               ELSE [user EXCEPT !.at = "stop", !.takeoff = FALSE, !.land = FALSE]
    /\ UNCHANGED <<scene, rc, at, mode, stick, slot, unit, seen>>
UserBegin ==
    /\ at = "idle" /\ user.at = "idle"
    /\ user' = [user EXCEPT !.at = IF rc.link = "ok" THEN "land" ELSE "stop"]
    /\ UNCHANGED <<scene, rc, at, mode, stick, slot, unit, seen>>

UserLand ==
    /\ at = "idle" /\ user.at = "land"
    /\ IF rc.switch = "land" /\ ~user.land THEN Issue("land") ELSE UNCHANGED slot
    /\ user' = [user EXCEPT !.at = "takeoff",
                            !.land = rc.switch = "land" /\ (@ \/ Accepted)]
    /\ UNCHANGED <<scene, rc, at, mode, stick, unit, seen>>

UserTakeoff ==
    LET takesOff == rc.switch = "takeoff" /\ ~user.takeoff
    IN /\ at = "idle" /\ user.at = "takeoff"
       /\ IF takesOff THEN Issue("takeoff") ELSE UNCHANGED slot
       /\ user' = [user EXCEPT !.at = "stop",
                               !.takeoff = rc.switch = "takeoff" /\ (@ \/ Accepted)]
       /\ seen' = IF takesOff /\ Accepted
                  THEN [seen EXCEPT !.flipped = FALSE, !.torn = FALSE] ELSE seen
       /\ UNCHANGED <<scene, rc, at, mode, stick, unit>>

\* Latched whatever FC_Lock returns.  (The zeros in pwm_to_esc last until the next
\* frame 0x20 of the unit: ESC_Output writes what that says as long as it is unlocked.)
StopsMutant == rc.stop /\ ~user.stop /\ rc.link = "ok"
Stops == rc.stop /\ ~user.stop

UserStop ==
    /\ at = "idle" /\ user.at = "stop"
    /\ IF Stops THEN Issue("stop") ELSE UNCHANGED slot
    /\ user' = [user EXCEPT !.at = "idle", !.stop = IF rc.stop THEN @ \/ Stops ELSE FALSE]
    /\ seen' = [seen EXCEPT !.missed = IF Stops THEN ~Accepted ELSE @]
    /\ UNCHANGED <<scene, rc, at, mode, stick, unit>>

-----------------------------------------------------------------------------
(* The inertial unit and the companion.                                    *)

\* The command is carried out and confirmed (CK_Back_Check).
Deliver ==
    /\ slot # None
    /\ unit' = [unit EXCEPT !.mode = IF slot \in Modes \cup {"theirs"} THEN slot ELSE @,
                            !.unlocked = IF slot = "unlock" THEN TRUE
                                         ELSE IF slot \in {"lock", "stop"} THEN FALSE ELSE @]
    /\ seen' = [seen EXCEPT !.astray = IF slot \in Modes THEN FALSE
                                       ELSE @ \/ slot = "theirs"]
    /\ slot' = None
    /\ UNCHANGED <<scene, rc, at, mode, stick, user>>

\* Not confirmed in any of its repetitions (CK_Back_Check); the unit may have heard it.
GiveUp ==
    /\ slot # None
    /\ seen' = [seen EXCEPT !.astray = @ \/ slot \in Modes, !.missed = @ \/ slot = "stop"]
    /\ slot' = None
    /\ UNCHANGED <<scene, rc, at, mode, stick, user, unit>>

\* A command of the companion, through the same functions.
OtherCommand(command) ==
    /\ slot = None
    /\ slot' = command
    /\ UNCHANGED <<scene, rc, at, mode, stick, user, unit, seen>>

\* On the ground the unit locks itself.
UnitLocks ==
    /\ unit.unlocked
    /\ unit' = [unit EXCEPT !.unlocked = FALSE]
    /\ UNCHANGED <<scene, rc, at, mode, stick, user, slot, seen>>

\* Frame 0x06 says whether it is unlocked.
Report ==
    /\ unit' = [unit EXCEPT !.told = unit.unlocked]
    /\ UNCHANGED <<scene, rc, at, mode, stick, user, slot, seen>>

-----------------------------------------------------------------------------
\* No signal when it starts, and the three flags of UserTask_OneKeyCmd are 1.
Init ==
    /\ scene \in Scenes
    /\ rc = [link |-> "lost", mode |-> "attitude", stick |-> "centre",
             switch |-> "middle", stop |-> FALSE]
    /\ at = "idle"
    /\ mode = [old |-> None, last |-> None, count |-> 0, time |-> 0]
    /\ stick = [armed |-> FALSE, time |-> 0, cali |-> FALSE]
    /\ user = [at |-> "idle", takeoff |-> TRUE, land |-> TRUE, stop |-> TRUE]
    /\ slot = None
    /\ unit = [mode |-> None, unlocked |-> FALSE, told |-> FALSE]
    /\ seen = NewSeen

Inputs == \E input \in scene.inputs : RcInput(input)
Others == \E command \in scene.others : OtherCommand(command)
Resolve == Deliver \/ GiveUp

Next ==
    \/ Inputs \/ ChangeMode \/ ReturnHome \/ Gesture
    \/ UserBegin \/ UserLand \/ UserTakeoff \/ UserStop
    \/ Deliver \/ GiveUp \/ Others \/ UnitLocks \/ Report

\* The timer ticks; the main loop comes to run between its interrupts; a command is
\* confirmed or given up.
Fairness ==
    /\ WF_vars(Inputs) /\ WF_vars(ChangeMode) /\ WF_vars(ReturnHome) /\ WF_vars(Gesture)
    /\ SF_vars(UserBegin) /\ SF_vars(UserLand) /\ SF_vars(UserTakeoff) /\ SF_vars(UserStop)
    /\ WF_vars(Resolve)

Spec == Init /\ [][Next]_vars /\ Fairness

-----------------------------------------------------------------------------
\* A take-off is asked for once for each time the switch was away from it, over any
\* loss of the signal, except one that falls between UserTask_OneKeyCmd's test of
\* fail_safe and its reads of channel 6, which find 0 and clear the flag.
TakeoffNeedsFlip ==
    [][slot' = "takeoff" /\ slot # "takeoff" => seen.flipped \/ seen.torn]_vars

\* The gesture locks or unlocks only when the sticks were out for as many calls as it
\* takes, and the yaw stick centred since it last did; with one counter for both, a
\* state that changes under it, and no signal in between.
GestureIsHeld ==
    [][at = "gesture" /\ at' = "idle" /\ slot # slot' /\ slot' \in {"unlock", "lock"} =>
         seen.centred /\ seen.out >= Hold]_vars

\* The craft is sent home only when program mode was entered three times within the
\* window, unless an uninitialised tmp has kept the count of an earlier window.
ReturnHomeIsEarned ==
    [][slot' = "home" /\ slot # "home" => seen.quick \/ seen.kept]_vars

\* When pilot and companion leave the controls alone, the unit is in the mode of the
\* switch in the end, however often the command was refused; unless it was given up,
\* which nobody notices, or the companion has chosen another.
ModeFollows ==
    <>[][rc' = rc /\ ~Others]_vars =>
        <>[](rc.link = "ok" => unit.mode = rc.mode \/ seen.astray)

\* The emergency stop locks the unit, with fail_safe too, unless its one command is
\* refused or given up.
StopIsHeard ==
    rc.stop /\ ~user.stop ~> ~unit.unlocked \/ seen.missed \/ ~rc.stop
=============================================================================

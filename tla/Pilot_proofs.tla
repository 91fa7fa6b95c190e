---------------------------- MODULE Pilot_proofs -----------------------------
(***************************************************************************)
(* For every hold time, every window and whatever pilot and companion do:  *)
(* the state is well typed, a take-off is earned by a flip of the switch,  *)
(* a gesture by its hold, a return home by its three switches.             *)
(***************************************************************************)
EXTENDS Pilot, TLAPS

Users == [at : {"idle", "land", "takeoff", "stop"},
          takeoff : BOOLEAN, land : BOOLEAN, stop : BOOLEAN]
Seen == [entered : 0 .. 3, age : 0 .. Window + 1, quick : BOOLEAN, kept : BOOLEAN,
         out : 0 .. Longest, centred : BOOLEAN, flipped : BOOLEAN, torn : BOOLEAN,
         astray : BOOLEAN, missed : BOOLEAN]

\* A cleared take-off flag remembers the switch that cleared it.
Flags ==
    /\ ~user.takeoff => seen.flipped \/ seen.torn
    /\ rc.link # "lost" /\ rc.switch # "takeoff" => seen.flipped
    /\ rc.link = "lost" /\ user.at \in {"land", "takeoff"} => seen.torn

\* The counter of the gestures never runs ahead of the sticks.
Sticks ==
    /\ stick.armed => seen.centred
    /\ stick.time <= seen.out
    /\ ~stick.armed => stick.time = 0

\* The count is that of the switches, and its clock that since the first of them.
Homes ==
    /\ mode.count = seen.entered
    /\ seen.entered = 3 => seen.quick \/ seen.kept
    /\ seen.entered < 3 /\ ~seen.kept => seen.age = mode.time

IInv == TypeOK /\ Flags /\ Sticks /\ Homes

USE ConstantsAssumption

LEMMA LongestIsLonger ==
    Longest \in Nat /\ UnlockHold <= Longest /\ LockHold <= Longest
BY DEF Longest

\* The parts of the invariant that a step does not touch.
LEMMA Stutter ==
    ASSUME IInv, UNCHANGED vars
    PROVE  IInv'
BY DEF IInv, TypeOK, Flags, Sticks, Homes, vars

LEMMA InitInv == Init => IInv
<1> SUFFICES ASSUME Init PROVE IInv
    OBVIOUS
<1> USE DEF Init, NewSeen
<1>1. rc \in Input
    BY DEF Input, Modes
<1>2. seen \in Seen
    BY LongestIsLonger DEF Seen
<1>3. TypeOK
    BY <1>1, <1>2, LongestIsLonger DEF TypeOK, Seen
<1>4. Flags /\ Sticks /\ Homes
    BY DEF Flags, Sticks, Homes
<1> QED
    BY <1>3, <1>4 DEF IInv

LEMMA InputStep ==
    ASSUME IInv, Inputs
    PROVE  IInv'
<1> PICK input \in scene.inputs : RcInput(input)
    BY DEF Inputs
<1> USE DEF IInv, RcInput
<1>1. input \in Input
    BY DEF TypeOK
<1>2. Received(input) \in Input
    BY <1>1 DEF Received, Input
<1> DEFINE flipped == seen.flipped \/ (input.link # "lost" /\ input.switch # "takeoff")
           torn == seen.torn \/ (input.link = "lost" /\ user.at \in {"land", "takeoff"})
<1>3. flipped \in BOOLEAN /\ torn \in BOOLEAN
    BY DEF TypeOK
<1>4. seen' = [seen EXCEPT !.flipped = flipped, !.torn = torn]
    OBVIOUS
<1>5. /\ flipped <=> seen.flipped \/ (input.link # "lost" /\ input.switch # "takeoff")
      /\ torn <=> seen.torn \/ (input.link = "lost" /\ user.at \in {"land", "takeoff"})
    BY DEF TypeOK
<1> HIDE DEF flipped, torn
<1>6. TypeOK'
  <2>1. rc' \in Input
    BY <1>2
  <2>2. seen' \in Seen
    BY <1>3, <1>4 DEF TypeOK, Seen
  <2> QED
    BY <2>1, <2>2 DEF TypeOK, Seen
<1>7. rc'.link = input.link /\ (rc'.link # "lost" => rc'.switch = input.switch)
    BY <1>1 DEF Received, Input
<1>8. seen'.flipped = flipped /\ seen'.torn = torn
    BY <1>4 DEF TypeOK
<1>9. Flags'
    BY <1>5, <1>7, <1>8 DEF Flags
<1>10. Sticks' /\ Homes'
    BY <1>4 DEF Sticks, Homes, TypeOK
<1> QED
    BY <1>6, <1>9, <1>10

LEMMA ChangeModeStep ==
    ASSUME IInv, ChangeMode
    PROVE  IInv'
<1> USE DEF IInv
<1> DEFINE enters == rc.mode = "program" /\ mode.last # "program"
<1>1. slot' \in Commands \cup {None}
    BY DEF ChangeMode, Issue, TypeOK, Input, Commands
<1>2. mode' \in [old : Modes \cup {None}, last : Modes \cup {None},
                 count : 0 .. 3, time : 0 .. Window]
  <2> DEFINE old == IF Remembers THEN rc.mode ELSE mode.old
             count == IF enters /\ mode.count < 3 THEN mode.count + 1 ELSE mode.count
  <2>1. old \in Modes \cup {None} /\ rc.mode \in Modes /\ count \in 0 .. 3
    BY DEF TypeOK, Input
  <2>2. mode' = [mode EXCEPT !.old = old, !.last = rc.mode, !.count = count]
    BY DEF ChangeMode
  <2> HIDE DEF old, count
  <2> QED
    BY <2>1, <2>2 DEF TypeOK
<1>3. /\ mode'.count = IF enters /\ mode.count < 3 THEN mode.count + 1 ELSE mode.count
      /\ mode'.time = mode.time
    BY DEF ChangeMode, TypeOK
<1>4. CASE ~enters \/ seen.entered = 3
    <2>1. seen' = seen
        BY <1>4 DEF ChangeMode
    <2>2. TypeOK'
        BY <1>1, <1>2, <2>1 DEF TypeOK, ChangeMode
    <2>3. Homes'
        BY <1>3, <1>4, <2>1 DEF Homes, TypeOK
    <2> QED
        BY <2>1, <2>2, <2>3 DEF Flags, Sticks, ChangeMode
<1>5. CASE enters /\ seen.entered # 3
    <2> DEFINE quick == seen.entered = 2 /\ seen.age <= Window
               entered == seen.entered + 1
    <2>1. quick \in BOOLEAN /\ entered \in 0 .. 3
        BY <1>5 DEF TypeOK
    <2>2. seen' = [seen EXCEPT !.entered = entered, !.quick = quick]
        BY <1>5 DEF ChangeMode
    <2>3. (quick <=> seen.entered = 2 /\ seen.age <= Window) /\ entered = seen.entered + 1
        OBVIOUS
    <2> HIDE DEF quick, entered
    <2>4. seen' \in Seen
        BY <1>5, <2>1, <2>2 DEF TypeOK, Seen
    <2>5. TypeOK'
        BY <1>1, <1>2, <2>4 DEF TypeOK, ChangeMode, Seen
    <2>6. /\ seen'.entered = seen.entered + 1 /\ seen'.quick = quick
          /\ seen'.kept = seen.kept /\ seen'.age = seen.age
        BY <2>2, <2>3 DEF TypeOK
    <2>7. Homes'
        BY <1>3, <1>5, <2>3, <2>6 DEF Homes, TypeOK
    <2>8. Flags' /\ Sticks'
        BY <2>2 DEF Flags, Sticks, TypeOK, ChangeMode
    <2> QED
        BY <2>5, <2>7, <2>8
<1> QED
    BY <1>4, <1>5

LEMMA ReturnHomeStep ==
    ASSUME IInv, ReturnHome
    PROVE  IInv'
<1> USE DEF IInv
<1> DEFINE older == IF seen.entered # 0 /\ seen.age <= Window THEN seen.age + 1 ELSE seen.age
<1>1. /\ older \in 0 .. Window + 1
      /\ seen.age = mode.time /\ ~Elapsed /\ seen.entered # 0 => older = mode.time + 1
      /\ seen.entered = 0 => older = seen.age
    BY DEF TypeOK, Elapsed
<1>2. slot' \in Commands \cup {None}
    BY DEF ReturnHome, Issue, TypeOK, Commands
<1>3. CASE /\ mode' = [mode EXCEPT !.count = 0, !.time = 0]
           /\ seen' = [seen EXCEPT !.entered = 0, !.age = 0, !.quick = FALSE, !.kept = FALSE]
    <2>1. TypeOK'
      <3>0. 0 \in 0 .. 3 /\ 0 \in 0 .. Window /\ 0 \in 0 .. Window + 1
        OBVIOUS
      <3>1. seen' \in Seen
        BY <1>3, <3>0 DEF TypeOK, Seen
      <3>2. mode' \in [old : Modes \cup {None}, last : Modes \cup {None},
                       count : 0 .. 3, time : 0 .. Window]
        BY <1>3, <3>0 DEF TypeOK
      <3> QED
        BY <1>2, <3>1, <3>2 DEF TypeOK, ReturnHome, Seen
    <2>2. Homes'
        BY <1>3 DEF Homes, TypeOK
    <2> QED
        BY <1>3, <2>1, <2>2 DEF Flags, Sticks, TypeOK, ReturnHome
<1>4. CASE /\ mode' = mode
           /\ seen' = [seen EXCEPT !.age = older, !.kept = @ \/ ~Enough]
    <2> DEFINE kept == seen.kept \/ ~Enough
    <2>1. kept \in BOOLEAN /\ (kept <=> seen.kept \/ ~(mode.count >= 3))
        BY DEF Enough, TypeOK
    <2>2. seen' = [seen EXCEPT !.age = older, !.kept = kept]
        BY <1>4
    <2> HIDE DEF kept, older
    <2>3. seen' \in Seen
        BY <1>1, <2>1, <2>2 DEF TypeOK, Seen
    <2>4. TypeOK'
        BY <1>2, <1>4, <2>3 DEF TypeOK, ReturnHome, Seen
    <2>5. Homes'
      <3>1. /\ seen'.entered = seen.entered /\ seen'.quick = seen.quick
            /\ seen'.kept = kept /\ mode'.count = mode.count
        BY <1>4, <2>2 DEF TypeOK
      <3>2. seen'.entered < 3 => seen'.kept
        BY <2>1, <3>1 DEF Homes, TypeOK
      <3> QED
        BY <2>1, <3>1, <3>2 DEF Homes, TypeOK
    <2>6. Flags' /\ Sticks'
        BY <2>2 DEF Flags, Sticks, TypeOK, ReturnHome
    <2> QED
        BY <2>4, <2>5, <2>6
<1>5. CASE /\ ~(mode.count # 0 /\ Elapsed)
           /\ mode' = [mode EXCEPT !.time = IF mode.count # 0 THEN @ + 1 ELSE @]
           /\ seen' = [seen EXCEPT !.age = older]
    <2> HIDE DEF older
    <2>1. seen' \in Seen
        BY <1>1, <1>5 DEF TypeOK, Seen
    <2>2. mode' \in [old : Modes \cup {None}, last : Modes \cup {None},
                     count : 0 .. 3, time : 0 .. Window]
        BY <1>5 DEF TypeOK, Elapsed
    <2>3. TypeOK'
        BY <1>2, <2>1, <2>2 DEF TypeOK, ReturnHome, Seen
    <2>4. Homes'
        BY <1>1, <1>5 DEF Homes, TypeOK
    <2>5. Flags' /\ Sticks'
        BY <1>5 DEF Flags, Sticks, TypeOK, ReturnHome
    <2> QED
        BY <2>3, <2>4, <2>5
<1> QED
    BY <1>3, <1>4, <1>5 DEF ReturnHome

LEMMA GestureStep ==
    ASSUME IInv, Gesture
    PROVE  IInv'
<1> USE DEF IInv
<1> DEFINE armed == Armed /\ ~Complete
           centred == (seen.centred \/ rc.stick = "centre") /\ ~Complete
           corner == IF unit.told THEN stick.cali ELSE rc.stick = "corner"
           time == IF ~Armed THEN stick.time
                   ELSE IF rc.stick # "toe_out" \/ Complete THEN 0 ELSE stick.time + 1
           out == IF rc.stick # "toe_out" \/ Complete THEN 0
                  ELSE IF seen.out < Longest THEN seen.out + 1 ELSE seen.out
<1>1. armed \in BOOLEAN /\ centred \in BOOLEAN /\ corner \in BOOLEAN
    BY DEF TypeOK
<1>2. armed => centred
    BY DEF Sticks, Armed, TypeOK
<1>3. Hold \in Nat /\ Hold <= Longest
    BY LongestIsLonger DEF Hold
<1>4. time \in 0 .. Longest /\ out \in 0 .. Longest
    BY <1>3, LongestIsLonger DEF TypeOK, Complete, Armed, Hold
<1>5. time <= out /\ (~armed => time = 0)
    BY <1>3, LongestIsLonger DEF TypeOK, Sticks, Complete, Armed
<1>6. /\ stick' = [armed |-> armed, time |-> time, cali |-> corner]
      /\ seen' = [seen EXCEPT !.out = out, !.centred = centred]
    BY DEF Gesture
<1>7. slot' \in Commands \cup {None}
    BY DEF Gesture, Issue, TypeOK, Commands
<1> HIDE DEF armed, centred, corner, time, out
<1>8. seen' \in Seen
    BY <1>1, <1>4, <1>6 DEF TypeOK, Seen
<1>9. TypeOK'
    BY <1>1, <1>4, <1>6, <1>7, <1>8 DEF TypeOK, Gesture, Seen
<1>10. Sticks'
    BY <1>2, <1>5, <1>6 DEF Sticks, TypeOK
<1>11. Flags' /\ Homes'
    BY <1>6 DEF Flags, Homes, TypeOK, Gesture
<1> QED
    BY <1>9, <1>10, <1>11

LEMMA UserStep ==
    ASSUME IInv, UserBegin \/ UserLand \/ UserTakeoff \/ UserStop
    PROVE  IInv'
<1> USE DEF IInv
<1>1. slot' \in Commands \cup {None}
    BY DEF UserBegin, UserLand, UserTakeoff, UserStop, Issue, TypeOK, Commands
<1>2. CASE UserBegin
    BY <1>2, <1>1 DEF UserBegin, TypeOK, Flags, Sticks, Homes
<1>3. CASE UserLand
    <2> DEFINE land == rc.switch = "land" /\ (user.land \/ Accepted)
    <2>1. land \in BOOLEAN
        BY DEF TypeOK
    <2>2. user' = [user EXCEPT !.at = "takeoff", !.land = land] /\ user.at = "land"
        BY <1>3 DEF UserLand
    <2> HIDE DEF land
    <2>3. user' \in Users
        BY <2>1, <2>2 DEF TypeOK, Users
    <2>4. TypeOK'
        BY <1>3, <1>1, <2>3 DEF TypeOK, UserLand, Users
    <2> QED
        BY <1>3, <2>2, <2>4 DEF UserLand, TypeOK, Flags, Sticks, Homes
<1>4. CASE UserTakeoff
    <2> DEFINE takeoff == rc.switch = "takeoff" /\ (user.takeoff \/ Accepted)
               takesOff == rc.switch = "takeoff" /\ ~user.takeoff
    <2>1. takeoff \in BOOLEAN /\ (~takeoff => rc.switch # "takeoff" \/ ~user.takeoff)
        BY DEF TypeOK
    <2>2. user' = [user EXCEPT !.at = "stop", !.takeoff = takeoff] /\ user.at = "takeoff"
        BY <1>4 DEF UserTakeoff
    <2>3. CASE takesOff /\ Accepted
        <3>1. takeoff = TRUE /\ rc.switch = "takeoff"
            BY <2>3 DEF TypeOK
        <3>2. seen' = [seen EXCEPT !.flipped = FALSE, !.torn = FALSE]
            BY <1>4, <2>3 DEF UserTakeoff
        <3>3. TypeOK'
            BY <1>4, <1>1, <2>2, <3>1, <3>2 DEF TypeOK, UserTakeoff
        <3>4. Flags'
            BY <1>4, <2>2, <3>1, <3>2 DEF Flags, TypeOK, UserTakeoff
        <3> QED
            BY <1>4, <3>2, <3>3, <3>4 DEF UserTakeoff, TypeOK, Sticks, Homes
    <2>4. CASE ~(takesOff /\ Accepted)
        <3>1. seen' = seen
            BY <1>4, <2>4 DEF UserTakeoff
        <3>2. ~takeoff => seen.flipped \/ seen.torn
            BY <2>1, <2>2 DEF Flags, TypeOK, Input
        <3> HIDE DEF takeoff
        <3>3. user' \in Users
            BY <2>1, <2>2 DEF TypeOK, Users
        <3>5. TypeOK'
            BY <1>4, <1>1, <3>1, <3>3 DEF TypeOK, UserTakeoff, Users
        <3>4. Flags'
            BY <1>4, <2>2, <3>1, <3>2 DEF Flags, TypeOK, UserTakeoff
        <3> QED
            BY <1>4, <3>1, <3>4, <3>5 DEF UserTakeoff, Sticks, Homes
    <2> QED
        BY <2>3, <2>4
<1>5. CASE UserStop
    <2> DEFINE latch == IF rc.stop THEN user.stop \/ Stops ELSE FALSE
               missed == IF Stops THEN ~Accepted ELSE seen.missed
    <2>1. latch \in BOOLEAN /\ missed \in BOOLEAN
        BY DEF TypeOK
    <2>2. /\ user' = [user EXCEPT !.at = "idle", !.stop = latch]
          /\ seen' = [seen EXCEPT !.missed = missed]
        BY <1>5 DEF UserStop
    <2> HIDE DEF latch, missed
    <2>3. user' \in Users
        BY <2>1, <2>2 DEF TypeOK, Users
    <2>4. TypeOK'
        BY <1>5, <1>1, <2>1, <2>2, <2>3 DEF TypeOK, UserStop, Users
    <2> QED
        BY <1>5, <2>2, <2>4 DEF UserStop, TypeOK, Flags, Sticks, Homes
<1> QED
    BY <1>2, <1>3, <1>4, <1>5

LEMMA OutsideStep ==
    ASSUME IInv, Deliver \/ GiveUp \/ Others \/ UnitLocks \/ Report
    PROVE  IInv'
<1> USE DEF IInv
<1>1. /\ UNCHANGED <<scene, rc, at, mode, stick, user>>
      /\ slot' \in Commands \cup {None}
    BY DEF Deliver, GiveUp, Others, OtherCommand, UnitLocks, Report, TypeOK, Commands
<1>2. unit' \in [mode : Modes \cup {None, "theirs"}, unlocked : BOOLEAN, told : BOOLEAN]
  <2>1. CASE Deliver
    <3> DEFINE setMode == IF slot \in Modes \cup {"theirs"} THEN slot ELSE unit.mode
               unlocked == IF slot = "unlock" THEN TRUE
                           ELSE IF slot \in {"lock", "stop"} THEN FALSE ELSE unit.unlocked
    <3>1. setMode \in Modes \cup {None, "theirs"} /\ unlocked \in BOOLEAN
        BY DEF TypeOK
    <3>2. unit' = [unit EXCEPT !.mode = setMode, !.unlocked = unlocked]
        BY <2>1 DEF Deliver
    <3> HIDE DEF setMode, unlocked
    <3> QED
        BY <3>1, <3>2 DEF TypeOK
  <2> QED
    BY <2>1 DEF GiveUp, Others, OtherCommand, UnitLocks, Report, TypeOK
<1>3. CASE seen' = seen
    BY <1>1, <1>2, <1>3 DEF TypeOK, Flags, Sticks, Homes
<1>4. CASE \E astray, missed \in BOOLEAN :
             seen' = [seen EXCEPT !.astray = astray, !.missed = missed]
    <2> PICK astray, missed \in BOOLEAN :
             seen' = [seen EXCEPT !.astray = astray, !.missed = missed]
        BY <1>4
    <2>1. seen' \in Seen
        BY DEF TypeOK, Seen
    <2>2. TypeOK'
        BY <1>1, <1>2, <2>1 DEF TypeOK, Seen
    <2> QED
        BY <1>1, <2>2 DEF TypeOK, Flags, Sticks, Homes
<1>5. CASE Deliver
    <2> DEFINE astray == IF slot \in Modes THEN FALSE ELSE seen.astray \/ slot = "theirs"
    <2>1. astray \in BOOLEAN /\ seen.missed \in BOOLEAN
        BY DEF TypeOK
    <2>2. seen' = [seen EXCEPT !.astray = astray]
        BY <1>5 DEF Deliver
    <2> HIDE DEF astray
    <2>3. seen' = [seen EXCEPT !.astray = astray, !.missed = seen.missed]
        BY <2>2 DEF TypeOK
    <2> QED
        BY <1>4, <2>1, <2>3
<1>6. CASE GiveUp
    <2> DEFINE astray == seen.astray \/ slot \in Modes
               missed == seen.missed \/ slot = "stop"
    <2>1. astray \in BOOLEAN /\ missed \in BOOLEAN
        BY DEF TypeOK
    <2>2. seen' = [seen EXCEPT !.astray = astray, !.missed = missed]
        BY <1>6 DEF GiveUp
    <2> HIDE DEF astray, missed
    <2> QED
        BY <1>4, <2>1, <2>2
<1> QED
    BY <1>3, <1>5, <1>6 DEF Others, OtherCommand, UnitLocks, Report

-----------------------------------------------------------------------------
\* The inductive invariant: flags, counters and clocks of the code agree with what
\* the pilot did.
THEOREM Invariance == Spec => []IInv
<1>1. IInv /\ [Next]_vars => IInv'
    BY Stutter, InputStep, ChangeModeStep, ReturnHomeStep, GestureStep, UserStep,
       OutsideStep DEF Next
<1> QED
    BY InitInv, <1>1, PTL DEF Spec

\* Every reachable state is well typed: the hold counter stays within the longer of
\* its two limits, the window's clock within the window.
THEOREM TypeCorrect == Spec => []TypeOK
<1>1. IInv => TypeOK
    BY DEF IInv
<1> QED
    BY Invariance, <1>1, PTL

\* A take-off is issued only after a flip of the switch or a torn read of it.
THEOREM TakeoffIsEarned == Spec => TakeoffNeedsFlip
<1>1. ASSUME IInv, [Next]_vars, slot' = "takeoff", slot # "takeoff"
      PROVE  seen.flipped \/ seen.torn
    <2>1. UserTakeoff
        <3>1. ~UNCHANGED slot
            BY <1>1
        <3>2. ~Inputs /\ ~UserBegin /\ ~UnitLocks /\ ~Report
            BY <3>1 DEF Inputs, RcInput, UserBegin, UnitLocks, Report
        <3>3. ~ChangeMode
            BY <1>1, <3>1 DEF ChangeMode, Issue, IInv, TypeOK, Input, Modes
        <3>4. ~ReturnHome /\ ~Gesture /\ ~UserLand /\ ~UserStop
            BY <1>1, <3>1 DEF ReturnHome, Gesture, UserLand, UserStop, Issue
        <3>5. ~Deliver /\ ~GiveUp /\ ~Others
            BY <1>1, <3>1 DEF Deliver, GiveUp, Others, OtherCommand, None, IInv, TypeOK
        <3> QED
            BY <1>1, <3>1, <3>2, <3>3, <3>4, <3>5 DEF Next, vars
    <2>2. ~user.takeoff
        BY <1>1, <2>1 DEF UserTakeoff
    <2> QED
        BY <1>1, <2>2 DEF IInv, Flags
<1> QED
    BY Invariance, <1>1, PTL DEF TakeoffNeedsFlip, Spec

\* The lock and unlock of the sticks are issued only after their whole hold.
THEOREM GestureIsEarned == Spec => GestureIsHeld
<1>1. ASSUME IInv, [Next]_vars, at = "gesture", at' = "idle",
             slot # slot', slot' \in {"unlock", "lock"}
      PROVE  seen.centred /\ seen.out >= Hold
    <2>1. Gesture
        BY <1>1 DEF Next, vars, Inputs, RcInput, ChangeMode, ReturnHome, UserBegin, UserLand,
           UserTakeoff, UserStop, Deliver, GiveUp, Others, OtherCommand, UnitLocks, Report
    <2>2. Complete
        BY <1>1, <2>1 DEF Gesture, Issue
    <2>3. seen.centred
        BY <1>1, <2>2 DEF Complete, Armed, IInv, Sticks, TypeOK
    <2>4. Hold \in Nat
        BY DEF Hold
    <2>5. seen.out >= Hold
        BY <1>1, <2>2, <2>4, LongestIsLonger DEF Complete, IInv, Sticks, TypeOK
    <2> QED
        BY <2>3, <2>5
<1> QED
    BY Invariance, <1>1, PTL DEF GestureIsHeld, Spec

\* A return home is issued only for three switches within a window, or a kept count.
THEOREM HomeIsEarned == Spec => ReturnHomeIsEarned
<1>1. ASSUME IInv, [Next]_vars, slot' = "home", slot # "home"
      PROVE  seen.quick \/ seen.kept
    <2>1. ReturnHome
        <3>1. ~UNCHANGED slot
            BY <1>1
        <3>2. ~Inputs /\ ~UserBegin /\ ~UnitLocks /\ ~Report
            BY <3>1 DEF Inputs, RcInput, UserBegin, UnitLocks, Report
        <3>3. ~ChangeMode
            BY <1>1, <3>1 DEF ChangeMode, Issue, IInv, TypeOK, Input, Modes
        <3>4. ~Gesture /\ ~UserLand /\ ~UserTakeoff /\ ~UserStop
            BY <1>1, <3>1 DEF Gesture, UserLand, UserTakeoff, UserStop, Issue
        <3>5. ~Deliver /\ ~GiveUp /\ ~Others
            BY <1>1, <3>1 DEF Deliver, GiveUp, Others, OtherCommand, None, IInv, TypeOK
        <3> QED
            BY <1>1, <3>1, <3>2, <3>3, <3>4, <3>5 DEF Next, vars
    <2>2. Enough
        BY <1>1, <2>1 DEF ReturnHome
    <2>3. seen.entered = 3
        BY <1>1, <2>2 DEF Enough, IInv, Homes, TypeOK
    <2> QED
        BY <1>1, <2>3 DEF IInv, Homes
<1> QED
    BY Invariance, <1>1, PTL DEF ReturnHomeIsEarned, Spec
===============================================================================

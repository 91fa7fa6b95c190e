--------------------------- MODULE LxCommand_proofs ---------------------------
(* Theorems about LxCommand, for every set of commands, every resend         *)
(* interval and every limit: its types, and what the guard on dt.wait_ck     *)
(* does and does not protect.                                                *)
EXTENDS LxCommand, TLAPS

(* An answer or a frame put on a wire leaves a sequence of frames.           *)
LEMMA PutType ==
    ASSUME NEW S, NEW wire \in Seq(S), NEW f \in S
    PROVE  Put(wire, f) \in Seq(S)
BY DEF Put

(* A wire of whole commands stays one when a whole command is put on it.     *)
LEMMA PutIntact ==
    ASSUME NEW wire \in Seq(Frames), NEW f \in Frames, Intact(f),
           \A i \in 1 .. Len(wire) : Intact(wire[i])
    PROVE  \A i \in 1 .. Len(Put(wire, f)) : Intact(Put(wire, f)[i])
BY DEF Put

(* The power-on values have their types.                                     *)
LEMMA TypeInit == Init => TypeOK
<1> SUFFICES ASSUME Init
             PROVE  TypeOK
  OBVIOUS
<1>1. NoFrame \in Frames
  BY DEF NoFrame, Whole, Frames, Bytes
<1>2. iss \in [Contexts -> [cmd : Bytes, todo : SUBSET Stores]]
  BY DEF Init, Free, Bytes
<1>3. time_dly \in 0 .. ResendTicks /\ repeat_cnt \in 0 .. RepeatLimit - 1
  BY ConstantsAssumption DEF ConstantsAssumption, Init
<1>4. toImu \in Seq(Frames) /\ fromImu \in Seq(Frames)
  BY DEF Init
<1>5. QED
  BY <1>1, <1>2, <1>3, <1>4 DEF Init, TypeOK, Ticks

(* Every step keeps the types, in all three contexts.                        *)
LEMMA TypeStep == TypeOK /\ [Next]_vars => TypeOK'
<1> SUFFICES ASSUME TypeOK, [Next]_vars
             PROVE  TypeOK'
  OBVIOUS
<1> USE ConstantsAssumption DEF ConstantsAssumption, TypeOK, link, wires, hist
<1>1. ASSUME NEW ctx \in Contexts, NEW c \in Cmd, Begin(ctx, c)
      PROVE  TypeOK'
  BY <1>1 DEF Begin, Admits, Bytes, InUse, Busy, Unsettled, Copying
<1>2. ASSUME NEW ctx \in Contexts, NEW s \in Stores, Store(ctx, s)
      PROVE  TypeOK'
  <2>1. iss' \in [Contexts -> [cmd : Bytes, todo : SUBSET Stores]]
    BY <1>2 DEF Store, InOrder, Free, Bytes
  <2>2. slot' \in Frames
    BY <1>2 DEF Store, InOrder, Frames
  <2>3. sends' \in Nat
    BY <1>2 DEF Store, InOrder
  <2>4. QED
    BY <1>2, <2>1, <2>2, <2>3 DEF Store, InOrder
<1>3. ASSUME NEW c \in UserCmd, UserForward(c)
      PROVE  TypeOK'
  BY <1>3 DEF UserForward, Admits, Frames, Whole, Bytes, Cmd, InUse, Busy,
     Unsettled, Copying
<1>4. CASE TimStart
  BY <1>4 DEF TimStart, Ticks
<1>5. CASE TimTasksDone
  BY <1>5 DEF TimTasksDone, Ticks
<1>6. CASE TimReceive
  BY <1>6 DEF TimReceive
<1>7. CASE TimReceiveDone
  BY <1>7 DEF TimReceiveDone, Ticks
<1>8. CASE TimCheck
  <2>1. time_dly' \in 0 .. ResendTicks
    BY <1>8 DEF TimCheck, NothingAwaited, Count, Resend, Abandon, LastTry,
       ResendDue
  <2>2. repeat_cnt' \in 0 .. RepeatLimit - 1
    BY <1>8 DEF TimCheck, NothingAwaited, Count, Resend, Abandon, LastTry,
       ResendDue
  <2>3. wts' \in BOOLEAN /\ wait_ck' \in BOOLEAN
    BY <1>8 DEF TimCheck, NothingAwaited, Count, Resend, Abandon, LastTry
  <2>4. QED
    BY <1>8, <2>1, <2>2, <2>3 DEF TimCheck, NothingAwaited, Count, Resend,
       Abandon, LastTry, Ticks
<1>9. CASE TimTestWTS
  BY <1>9 DEF TimTestWTS, Ticks
<1>10. CASE TimCopy
  BY <1>10 DEF TimCopy, Ticks, Frames
<1>11. CASE TimSend
  <2>1. toImu' \in Seq(Frames)
    BY <1>11, PutType DEF TimSend, KeepsChecksum
  <2>2. QED
    BY <1>11, <2>1 DEF TimSend, KeepsChecksum, Ticks
<1>12. CASE ImuHear
  <2>1. Head(toImu) \in Frames /\ Tail(toImu) \in Seq(Frames)
    BY <1>12 DEF ImuHear
  <2>2. fromImu' \in Seq(Frames)
    BY <1>12, <2>1, PutType DEF ImuHear
  <2>3. heard' \in BOOLEAN
    BY <1>12 DEF ImuHear
  <2>4. QED
    BY <1>12, <2>1, <2>2, <2>3 DEF ImuHear
<1>13. CASE Lose
  <2>1. toImu' \in Seq(Frames)
    <3>1. CASE toImu # <<>> /\ toImu' = Tail(toImu)
      BY <3>1
    <3>2. QED
      BY <1>13, <3>1 DEF Lose
  <2>2. fromImu' \in Seq(Frames)
    <3>1. CASE fromImu # <<>> /\ fromImu' = Tail(fromImu)
      BY <3>1
    <3>2. QED
      BY <1>13, <3>1 DEF Lose
  <2>3. QED
    BY <1>13, <2>1, <2>2 DEF Lose
<1>14. CASE UNCHANGED vars
  BY <1>14 DEF vars
<1>15. QED
  BY <1>1, <1>2, <1>3, <1>4, <1>5, <1>6, <1>7, <1>8, <1>9, <1>10, <1>11,
     <1>12, <1>13, <1>14 DEF Next, Tim, Cmd, Contexts

(* Every variable keeps its type through the stores of all three contexts.   *)
THEOREM TypeCorrect == Spec => []TypeOK
  BY TypeInit, TypeStep, PTL DEF Spec

-----------------------------------------------------------------------------
(* The inductive invariant.  Once two contexts have met in the slot nothing  *)
(* more is claimed, so a step only has to keep SlotInv and BudgetInv while   *)
(* clash stays FALSE.                                                        *)

\* The part of Inv that the theorems below add to TypeOK.
Race == clash \/ (SlotInv /\ BudgetInv)

Issuers ==
    /\ \A ctx \in Contexts : IssuerOK(ctx)
    /\ Busy("tim") => tick = "tasks"

(* The bookkeeping of the issuers is kept by every step: a context is inside *)
(* an issue as long as it has stores to come, and the flags come last.       *)
LEMMA IssuersStep ==
    ASSUME TypeOK, Issuers, [Next]_vars
    PROVE  Issuers'
<1> USE ConstantsAssumption
    DEF ConstantsAssumption, TypeOK, Issuers, IssuerOK, Busy, Contexts, Stores,
        SlotStores, SendStores, link, wires, hist
<1>1. ASSUME NEW ctx \in Contexts, NEW c \in Cmd, Begin(ctx, c)
      PROVE  Issuers'
  BY <1>1 DEF Begin, Admits, Running
<1>2. ASSUME NEW ctx \in Contexts, NEW s \in Stores, Store(ctx, s)
      PROVE  Issuers'
  BY <1>2 DEF Store, InOrder, Running, Free
<1>3. CASE UNCHANGED iss /\ (tick = "tasks" => tick' = "tasks" \/ ~Busy("tim"))
  BY <1>3
<1>4. QED
  BY <1>1, <1>2, <1>3
  DEF Next, Tim, Cmd, UserForward, Admits, TimStart, TimTasksDone, TimReceive,
      TimReceiveDone, TimCheck, NothingAwaited, Count, Resend, Abandon,
      LastTry, TimTestWTS, TimCopy, TimSend, KeepsChecksum, ImuHear, Lose, vars

(* They hold at power-on, when no context is inside an issue.                *)
LEMMA InitInv == Init => Issuers /\ Race
<1> SUFFICES ASSUME Init
             PROVE  Issuers /\ Race
  OBVIOUS
<1> USE DEF Init, Free, Contexts, Busy
<1>1. Issuers
  BY DEF Issuers, IssuerOK, SlotStores
<1>2. SlotInv
  BY DEF SlotInv, Writing, Intact, NoFrame, Whole, Copying
<1>3. BudgetInv
  BY ConstantsAssumption DEF ConstantsAssumption, BudgetInv, Owed, Copying
<1>4. QED
  BY <1>1, <1>2, <1>3 DEF Race

(* The race conditions are kept by every step that does not set clash.       *)
LEMMA RaceStep ==
    ASSUME TypeOK, Issuers, Race, [Next]_vars
    PROVE  Race'
<1> SUFFICES ASSUME ~clash', SlotInv, BudgetInv
             PROVE  SlotInv' /\ BudgetInv'
  BY DEF Race, TypeOK, Next, Tim, Begin, Admits, Store, InOrder, UserForward,
     TimStart,
     TimTasksDone, TimReceive, TimReceiveDone, TimCheck, NothingAwaited, Count,
     Resend, Abandon, LastTry, TimTestWTS, TimCopy,
     TimSend, KeepsChecksum, ImuHear, Lose, vars, link, wires, hist
<1> USE ConstantsAssumption
    DEF ConstantsAssumption, TypeOK, Issuers, IssuerOK, Busy, Contexts, Stores,
        SlotStores, SendStores, link, wires, hist, Writing, Copying, Owed,
        Frames
<1>1. ASSUME NEW ctx \in Contexts, NEW c \in CmdsOf(ctx), Begin(ctx, c)
      PROVE  SlotInv' /\ BudgetInv'
  <2>1. SlotInv'
    BY <1>1 DEF Begin, Admits, Running, SlotInv, InUse, Unsettled
  <2>2. BudgetInv'
    BY <1>1 DEF Begin, Admits, Running, BudgetInv, InUse, Unsettled
  <2>3. QED
    BY <2>1, <2>2
<1>2. ASSUME NEW ctx \in Contexts, NEW s \in Stores, Store(ctx, s)
      PROVE  SlotInv' /\ BudgetInv'
  <2>1. SlotInv'
    BY <1>2 DEF Store, InOrder, Running, SlotInv, Free, Intact
  <2>2. BudgetInv'
    BY <1>2 DEF Store, InOrder, Running, SlotInv, BudgetInv, Free
  <2>3. QED
    BY <2>1, <2>2
<1>3. ASSUME NEW c \in UserCmd, UserForward(c)
      PROVE  SlotInv' /\ BudgetInv'
  <2>1. SlotInv'
    BY <1>3 DEF UserForward, Admits, SlotInv, InUse, Intact, Whole
  <2>2. /\ ~Busy("main") /\ ~Busy("tim") /\ ~Copying
        /\ repeat_cnt = 0
    BY <1>3 DEF UserForward, Admits, InUse, Unsettled
  <2>3. Owed' = 1 /\ sends' = 0 /\ repeat_cnt' = 0
    BY <1>3, <2>2 DEF UserForward, Admits
  <2>4. ~Busy("main")' /\ ~Busy("tim")'
    BY <1>3, <2>2 DEF UserForward, Admits
  <2>5. BudgetInv'
    BY <2>3, <2>4 DEF BudgetInv
  <2>6. QED
    BY <2>1, <2>5
<1>4. CASE TimStart
  BY <1>4 DEF TimStart, SlotInv, BudgetInv, Intact
<1>5. CASE TimTasksDone
  BY <1>5 DEF TimTasksDone, SlotInv, BudgetInv, Intact
<1>6. CASE TimReceive
  BY <1>6 DEF TimReceive, SlotInv, BudgetInv, Intact
<1>7. CASE TimReceiveDone
  BY <1>7 DEF TimReceiveDone, SlotInv, BudgetInv, Intact
<1>8. CASE TimCheck
  <2>1. SlotInv'
    BY <1>8 DEF TimCheck, NothingAwaited, Count, Resend, Abandon, LastTry,
       ResendDue, SlotInv, BudgetInv, Intact
  <2>2. BudgetInv'
    BY <1>8 DEF TimCheck, NothingAwaited, Count, Resend, Abandon, LastTry,
       ResendDue, SlotInv, BudgetInv
  <2>3. QED
    BY <2>1, <2>2
<1>9. CASE TimTestWTS
  BY <1>9 DEF TimTestWTS, SlotInv, BudgetInv, Intact
<1>10. CASE TimCopy
  BY <1>10 DEF TimCopy, SlotInv, BudgetInv, Intact
<1>11. CASE TimSend
  <2>1. \A i \in 1 .. Len(toImu') : Intact(toImu'[i])
    <3>1. Intact(frame) /\ \A i \in 1 .. Len(toImu) : Intact(toImu[i])
      BY <1>11 DEF TimSend, KeepsChecksum, SlotInv
    <3>2. toImu' = Put(toImu, frame)
      BY <1>11 DEF TimSend, KeepsChecksum
    <3>3. QED
      BY <3>1, <3>2, PutIntact
  <2>2. SlotInv'
    BY <1>11, <2>1 DEF TimSend, KeepsChecksum, SlotInv, Intact
  <2>3. BudgetInv'
    BY <1>11 DEF TimSend, KeepsChecksum, SlotInv, BudgetInv
  <2>4. QED
    BY <2>2, <2>3
<1>12. CASE ImuHear
  <2>1. \A i \in 1 .. Len(toImu') : Intact(toImu'[i])
    BY <1>12 DEF ImuHear, SlotInv
  <2>2. QED
    BY <1>12, <2>1 DEF ImuHear, SlotInv, BudgetInv, Intact
<1>13. CASE Lose
  <2>1. \A i \in 1 .. Len(toImu') : Intact(toImu'[i])
    <3>1. \A i \in 1 .. Len(toImu) : Intact(toImu[i])
      BY DEF SlotInv
    <3>2. CASE toImu' = Tail(toImu) /\ toImu # <<>>
      BY <3>1, <3>2
    <3>3. CASE UNCHANGED toImu
      BY <3>1, <3>3
    <3>4. QED
      BY <1>13, <3>2, <3>3 DEF Lose
  <2>2. QED
    BY <1>13, <2>1 DEF Lose, SlotInv, BudgetInv, Intact
<1>14. CASE UNCHANGED vars
  BY <1>14 DEF vars, SlotInv, BudgetInv, Intact
<1>15. QED
  BY <1>1, <1>2, <1>3, <1>4, <1>5, <1>6, <1>7, <1>8, <1>9, <1>10, <1>11,
     <1>12, <1>13, <1>14 DEF Next, Tim, CmdsOf

(* The inductive invariant of the command link.                              *)
THEOREM InvHolds == Spec => []Inv
<1>1. Init => Inv
  BY InitInv, TypeInit DEF Inv, Issuers, Race
<1>2. Inv /\ [Next]_vars => Inv'
  BY IssuersStep, RaceStep, TypeStep DEF Inv, Issuers, Race
<1>3. QED
  BY <1>1, <1>2, PTL DEF Spec

(* Unless two contexts met in the slot, every frame on the UART is one       *)
(* command: no CID of one command with the body of another.                  *)
THEOREM WireIsIntact == Spec => []WireIntact
<1>1. Inv => WireIntact
  BY DEF Inv, SlotInv, WireIntact
<1>2. QED
  BY <1>1, InvHolds, PTL

(* Unless two contexts met in the slot, no command is transmitted more than  *)
(* RepeatLimit times.                                                        *)
THEOREM RetriesAreBounded == Spec => []RetryBudget
<1>1. Inv => RetryBudget
  BY ConstantsAssumption
  DEF ConstantsAssumption, Inv, TypeOK, BudgetInv, Owed, RetryBudget
<1>2. QED
  BY <1>1, InvHolds, PTL

(* The guard of LX_FC_Fun.c protects a command that awaits its answer from   *)
(* every issuer, except across the race.                                     *)
THEOREM WaitingIsProtected == Spec => NoOverwriteUnlessClash
<1>1. Inv /\ [Next]_vars => [slot' # slot => ~wait_ck \/ clash]_vars
  <2> SUFFICES ASSUME Inv, Next, slot' # slot, wait_ck, ~clash
               PROVE  FALSE
    BY DEF vars
  <2>1. ASSUME NEW ctx \in Contexts, NEW s \in Stores, Store(ctx, s)
        PROVE  FALSE
    BY <2>1 DEF Store, InOrder, Inv, SlotInv, Writing, SlotStores
  <2>2. ASSUME NEW c \in UserCmd, UserForward(c)
        PROVE  FALSE
    BY <2>2 DEF UserForward, Admits
  <2>3. QED
    BY <2>1, <2>2 DEF Next, Tim, Begin, Admits, TimStart, TimTasksDone,
       TimReceive,
       TimReceiveDone, TimCheck, NothingAwaited, Count, Resend, Abandon,
       LastTry, TimTestWTS, TimCopy, TimSend, KeepsChecksum, ImuHear, Lose,
       Contexts
<1>2. QED
  BY <1>1, InvHolds, PTL DEF Spec, NoOverwriteUnlessClash

-----------------------------------------------------------------------------
(* The count of transmissions is exact, and a resend is not due while main   *)
(* is inside an issuer or a first transmission is still owed.                *)
CountInv ==
    /\ wait_ck /\ (\A ctx \in Contexts : Busy(ctx) => "wts" \notin iss[ctx].todo) =>
          sends + Owed = repeat_cnt + 1
    /\ wait_ck /\ wts /\ tick # "send" => time_dly < ResendTicks
    /\ \A ctx \in Contexts : Busy(ctx) =>
          /\ "wts" \in iss[ctx].todo => Owed = 0 /\ (~Writing(ctx) => sends = 0)
          /\ "wts" \notin iss[ctx].todo => sends + Owed = 1
          /\ "wait" \in iss[ctx].todo => ~wait_ck /\ time_dly = 0
          /\ wait_ck => time_dly < ResendTicks
    /\ wait_ck /\ Busy("main") /\ tick \in {"tasks", "uart", "check"} =>
          time_dly + 1 < ResendTicks

Counted == clash \/ CountInv

LEMMA CountStep ==
    ASSUME TypeOK, Issuers, Race, Counted, [Next]_vars
    PROVE  Counted'
<1> SUFFICES ASSUME ~clash', SlotInv, BudgetInv, CountInv
             PROVE  CountInv'
  BY DEF Race, Counted, TypeOK, Next, Tim, Begin, Admits, Store, InOrder, UserForward,
     TimStart, TimTasksDone, TimReceive, TimReceiveDone, TimCheck, NothingAwaited, Count,
     Resend, Abandon, LastTry, TimTestWTS, TimCopy,
     TimSend, KeepsChecksum, ImuHear, Lose, vars, link, wires, hist
<1> USE ConstantsAssumption
    DEF ConstantsAssumption, TypeOK, Issuers, IssuerOK, Busy, Contexts, Stores,
        SlotStores, SendStores, link, wires, hist, Writing, Copying, Owed, CountInv
<1>1. ASSUME NEW ctx \in Contexts, NEW c \in CmdsOf(ctx), Begin(ctx, c)
      PROVE  CountInv'
  <2>1. ~wait_ck /\ ~wait_ck' /\ ~wts' /\ ~Copying' /\ time_dly' = 0
    BY <1>1 DEF Begin, Admits, InUse, Unsettled
  <2>2. /\ iss'[ctx].todo = Stores
        /\ \A other \in Contexts \ {ctx} : ~Busy(other) /\ iss'[other] = iss[other]
    BY <1>1 DEF Begin, InUse
  <2>3. Owed' = 0 /\ "cid" \in iss'[ctx].todo
    BY <2>1, <2>2
  <2>4. \A other \in Contexts : other = ctx \/ ~Busy(other)'
    BY <2>2
  <2>5. Busy(ctx)' => Writing(ctx)'
    BY <2>3
  <2>6. \A other \in Contexts : Busy(other)' =>
          /\ "wts" \in iss'[other].todo => Owed' = 0 /\ Writing(other)'
          /\ "wts" \in iss'[other].todo
    BY <2>2, <2>3, <2>4, <2>5
  <2>7. QED
    BY <2>1, <2>6
<1>2. ASSUME NEW ctx \in Contexts, NEW s \in Stores, Store(ctx, s)
      PROVE  CountInv'
  <2>1. \A other \in Contexts \ {ctx} : ~Busy(other) /\ iss'[other] = iss[other]
    BY <1>2 DEF Store, SlotInv
  <2>2. /\ s \in iss[ctx].todo /\ iss[ctx].cmd # NoCmd
        /\ iss'[ctx] = IF iss[ctx].todo \ {s} = {} THEN Free
                       ELSE [cmd |-> iss[ctx].cmd, todo |-> iss[ctx].todo \ {s}]
        /\ s \in SendStores => iss[ctx].todo \subseteq SendStores
        /\ wts' = (wts \/ s = "wts") /\ wait_ck' = (wait_ck \/ s = "wait")
        /\ sends' = IF s \in SlotStores THEN 0 ELSE sends
        /\ UNCHANGED <<time_dly, repeat_cnt, tick>>
        /\ tick = IF ctx = "main" THEN "idle" ELSE "tasks"
    BY <1>2 DEF Store, InOrder, Running
  <2>3. repeat_cnt = 0 /\ ~Copying /\ Copying' = Copying
    BY <1>2, <2>2 DEF BudgetInv
  <2>4. CASE s \in SlotStores
    <3>1. /\ ~wts /\ ~wait_ck /\ time_dly = 0 /\ "wts" \in iss[ctx].todo /\ "wait" \in iss[ctx].todo
      BY <1>2, <2>2, <2>4
    <3>2. /\ iss'[ctx].todo = iss[ctx].todo \ {s}
          /\ "wts" \in iss'[ctx].todo /\ "wait" \in iss'[ctx].todo
      BY <2>2, <2>4, <3>1
    <3>3. ~wts' /\ ~wait_ck' /\ time_dly' = 0 /\ sends' = 0
      BY <2>2, <2>4, <3>1
    <3>4. QED
      BY <2>1, <2>3, <3>2, <3>3
  <2>5. CASE s = "wts"
    <3>0. Busy(ctx) /\ ~Writing(ctx) /\ "wts" \in iss[ctx].todo
      BY <2>2, <2>5
    <3>1. sends' = 0 /\ Owed' = 1
      <4>1. sends = 0
        BY <3>0
      <4>2. wts' /\ sends' = sends
        BY <2>2, <2>5
      <4>3. QED
        BY <2>3, <4>1, <4>2
    <3>2. "wts" \notin iss'[ctx].todo
      BY <2>2, <2>5 DEF Free
    <3>3. ("wait" \in iss'[ctx].todo => "wait" \in iss[ctx].todo) /\ wait_ck' = wait_ck
      BY <2>2, <2>5 DEF Free
    <3>4. wait_ck => time_dly < ResendTicks
      BY <1>2, <2>2
    <3>5. QED
      BY <2>1, <2>2, <2>3, <3>1, <3>2, <3>3, <3>4
  <2>6. CASE s = "wait"
    <3>1. time_dly' = 0 /\ Owed' = Owed /\ sends' = sends
      BY <1>2, <2>2, <2>3, <2>6
    <3>2. "wait" \notin iss'[ctx].todo /\ ("wts" \in iss'[ctx].todo <=> "wts" \in iss[ctx].todo)
      BY <2>2, <2>6 DEF Free
    <3>3. Owed' = Owed /\ wts' = wts
      BY <2>2, <2>3, <2>6
    <3>4. iss'[ctx].cmd # NoCmd /\ "wts" \in iss'[ctx].todo => Owed' = 0 /\ sends' = 0
      BY <1>2, <2>2, <2>6, <3>1, <3>2, <3>3
    <3>5. "wts" \notin iss'[ctx].todo => sends' + Owed' = 1
      BY <1>2, <2>2, <2>6, <3>1, <3>2, <3>3
    <3>6. QED
      BY <2>1, <2>2, <2>3, <3>1, <3>2, <3>3, <3>4, <3>5
  <2>7. QED
    BY <2>4, <2>5, <2>6
<1>3. ASSUME NEW c \in UserCmd, UserForward(c)
      PROVE  CountInv'
  <2>1. /\ ~wait_ck /\ ~wts /\ ~Copying /\ time_dly = 0 /\ repeat_cnt = 0
        /\ \A ctx \in Contexts : ~Busy(ctx)
    BY <1>3 DEF UserForward, Admits, InUse, Unsettled
  <2>2. /\ UNCHANGED <<time_dly, repeat_cnt, iss, tick>> /\ wts' = TRUE /\ sends' = 0
    BY <1>3 DEF UserForward
  <2>3. sends' + Owed' = 1 /\ time_dly' = 0 /\ repeat_cnt' = 0
    BY <2>1, <2>2
  <2>4. \A ctx \in Contexts : ~Busy(ctx)'
    BY <2>1, <2>2
  <2>5. QED
    BY <2>3, <2>4
<1>4. CASE TimStart
  BY <1>4 DEF TimStart
<1>5. CASE TimTasksDone
  BY <1>5 DEF TimTasksDone
<1>6. CASE TimReceive
  BY <1>6 DEF TimReceive
<1>7. CASE TimReceiveDone
  BY <1>7 DEF TimReceiveDone
<1>8. CASE TimCheck
  BY <1>8 DEF TimCheck, NothingAwaited, Count, Resend, Abandon, LastTry, ResendDue, Ticks
<1>9. CASE TimTestWTS
  BY <1>9 DEF TimTestWTS
<1>10. CASE TimCopy
  BY <1>10 DEF TimCopy
<1>11. CASE TimSend
  BY <1>11 DEF TimSend, KeepsChecksum
<1>12. CASE UNCHANGED <<link, iss, tick, sends>>
  BY <1>12
<1>13. QED
  BY <1>1, <1>2, <1>3, <1>4, <1>5, <1>6, <1>7, <1>8, <1>9, <1>10, <1>11,
     <1>12 DEF Next, Tim, CmdsOf, ImuHear, Lose, vars

LEMMA CountHolds == Spec => [](Inv /\ Counted)
<1>1. Init => Counted
  BY DEF Init, Counted, CountInv, Contexts, Busy, Free
<1>2. Inv /\ Counted /\ [Next]_vars => Counted'
  BY CountStep DEF Inv, Issuers, Race
<1>3. QED
  BY <1>1, <1>2, InvHolds, PTL DEF Spec

(* CK_Back_Check gives a command up after all its transmissions, unless two  *)
(* contexts met in the slot.                                                 *)
THEOREM GivenUpAfterAllSends == Spec => GiveUpAfterAllSendsUnlessClash
<1>1. Inv /\ Counted /\ [Next]_vars => [GiveUp => sends = RepeatLimit \/ clash]_vars
  <2> SUFFICES ASSUME Inv, Counted, Next, GiveUp, ~clash
               PROVE  sends = RepeatLimit
    BY DEF vars
  <2>1. TimCheck
    BY DEF GiveUp, Next, Tim, Begin, Store, Running, UserForward, TimStart, TimTasksDone,
       TimReceive, TimReceiveDone, TimTestWTS, TimCopy, TimSend, ImuHear, Lose, link, Inv,
       TypeOK, Contexts
  <2>2. Abandon /\ tick = "check"
    BY <2>1 DEF TimCheck, NothingAwaited, Count, Resend, GiveUp
  <2>3. wait_ck /\ time_dly >= ResendTicks /\ repeat_cnt + 1 = RepeatLimit
    BY <2>2, ConstantsAssumption DEF Abandon, ResendDue, LastTry, Inv, TypeOK
  <2>4. ~Busy("main") /\ ~Busy("tim")
    BY <2>2, <2>3, ConstantsAssumption DEF Inv, TypeOK, Counted, CountInv, Contexts
  <2>5. ~wts /\ ~Copying
    BY <2>2, <2>3, ConstantsAssumption DEF Inv, TypeOK, Counted, CountInv, Copying
  <2>6. sends + Owed = repeat_cnt + 1 /\ Owed = 0
    BY <2>3, <2>4, <2>5 DEF Counted, CountInv, Contexts, Owed
  <2>7. QED
    BY <2>3, <2>6 DEF Inv, TypeOK
<1>2. QED
  BY <1>1, CountHolds, PTL DEF Spec, GiveUpAfterAllSendsUnlessClash

-----------------------------------------------------------------------------
(* With a unit that answers within the resend interval or not at all, one    *)
(* transmission at a time is owed or under way, and it is one of the command *)
(* that is in the slot.                                                      *)
Quiet == toImu = <<>> /\ fromImu = <<>>

WiresInv ==
    /\ Len(toImu) + Len(fromImu) + Owed <= 1
    /\ \A ctx \in Contexts : Busy(ctx) /\ "wts" \in iss[ctx].todo =>
          Quiet /\ ("wait" \notin iss[ctx].todo => wait_ck)
    /\ ~wait_ck /\ ~Busy("main") /\ ~Busy("tim") => Quiet /\ Owed = 0
    /\ tick = "check" /\ ResendDue => Quiet
    /\ fromImu # <<>> => heard
    /\ toImu # <<>> => sends > 0
    /\ \A i \in 1 .. Len(toImu) : toImu[i] = slot
    /\ tick = "out" => frame = slot

Prompt == clash \/ WiresInv

LEMMA TakeOff ==
    ASSUME NEW S, NEW wire \in Seq(S), wire # <<>>
    PROVE  /\ Head(wire) = wire[1] /\ 1 \in 1 .. Len(wire) /\ Head(wire) \in S
           /\ Tail(wire) \in Seq(S) /\ Len(Tail(wire)) = Len(wire) - 1
           /\ \A i \in 1 .. Len(Tail(wire)) :
                 i + 1 \in 1 .. Len(wire) /\ Tail(wire)[i] = wire[i + 1]
OBVIOUS

LEMMA PutOn ==
    ASSUME NEW S, NEW wire \in Seq(S), NEW f \in S
    PROVE  /\ Len(Put(wire, f)) \in {Len(wire), Len(wire) + 1}
           /\ \A i \in 1 .. Len(Put(wire, f)) :
                 Put(wire, f)[i] = f \/ (i \in 1 .. Len(wire) /\ Put(wire, f)[i] = wire[i])
BY DEF Put

\* Only an empty wire has no frame.
LEMMA Emptiness ==
    ASSUME NEW S, NEW wire \in Seq(S)
    PROVE  Len(wire) \in Nat /\ (wire = <<>> <=> Len(wire) = 0)
OBVIOUS

LEMMA WiresStep ==
    ASSUME PromptAck, TypeOK, Issuers, Race, Counted, Prompt, [Next]_vars
    PROVE  Prompt'
<1> SUFFICES ASSUME ~clash', SlotInv, BudgetInv, CountInv, WiresInv
             PROVE  WiresInv'
  BY DEF Race, Counted, Prompt, TypeOK, Next, Tim, Begin, Admits, Store, InOrder, UserForward,
     TimStart, TimTasksDone, TimReceive, TimReceiveDone, TimCheck, NothingAwaited, Count,
     Resend, Abandon, LastTry, TimTestWTS, TimCopy,
     TimSend, KeepsChecksum, ImuHear, Lose, vars, link, wires, hist
<1> USE ConstantsAssumption DEF ConstantsAssumption, Contexts, Quiet
<1>1. /\ toImu \in Seq(Frames) /\ Len(toImu) \in Nat /\ (toImu = <<>> <=> Len(toImu) = 0)
      /\ fromImu \in Seq(Frames) /\ Len(fromImu) \in Nat /\ (fromImu = <<>> <=> Len(fromImu) = 0)
      /\ slot \in Frames /\ frame \in Frames /\ sends \in Nat
      /\ wts \in BOOLEAN /\ wait_ck \in BOOLEAN /\ time_dly \in Nat /\ repeat_cnt \in Nat
  BY Emptiness DEF TypeOK
<1>2. Owed \in Nat /\ (wts \/ Copying => Owed >= 1) /\ (~wts /\ ~Copying => Owed = 0)
  BY <1>1 DEF Owed
<1> DEFINE a == Len(toImu)
           b == Len(fromImu)
<1>a. /\ a \in Nat /\ b \in Nat /\ a + b + Owed <= 1
      /\ (toImu = <<>> <=> a = 0) /\ (fromImu = <<>> <=> b = 0)
  BY <1>1 DEF WiresInv
<1> HIDE DEF a, b
<1>b. a = Len(toImu) /\ b = Len(fromImu)
  BY DEF a, b
<1>3. ASSUME NEW ctx \in Contexts, NEW c \in CmdsOf(ctx), Begin(ctx, c)
      PROVE  WiresInv'
  <2>1. /\ ~wait_ck /\ ~Busy("main") /\ ~Busy("tim")
        /\ UNCHANGED <<slot, link, tick, frame, wires, sends, heard>>
    BY <1>3 DEF Begin, Admits, InUse
  <2>2. Quiet /\ Owed = 0
    BY <2>1 DEF WiresInv
  <2>3. Quiet' /\ Owed' = 0 /\ UNCHANGED <<tick, frame, slot, wait_ck, time_dly>>
    BY <2>1, <2>2 DEF Owed, Copying, link, wires
  <2>4. iss'[ctx].todo = Stores /\ \A o \in Contexts : o = ctx \/ ~Busy(o)'
    BY <1>3, <2>1 DEF Begin, Busy, TypeOK
  <2>5. QED
    BY <2>1, <2>2, <2>3, <2>4 DEF WiresInv, Stores, SendStores, ResendDue
<1>4. ASSUME NEW ctx \in Contexts, NEW s \in Stores, Store(ctx, s)
      PROVE  WiresInv'
  <2>1. \A o \in Contexts \ {ctx} : ~Busy(o) /\ iss'[o] = iss[o]
    BY <1>4 DEF Store, SlotInv, TypeOK
  <2>2. /\ s \in iss[ctx].todo /\ Busy(ctx)
        /\ iss'[ctx] = IF iss[ctx].todo \ {s} = {} THEN Free
                       ELSE [cmd |-> iss[ctx].cmd, todo |-> iss[ctx].todo \ {s}]
        /\ s \in SendStores => iss[ctx].todo \subseteq SendStores
        /\ wts' = (wts \/ s = "wts") /\ wait_ck' = (wait_ck \/ s = "wait")
        /\ UNCHANGED <<time_dly, repeat_cnt, tick, frame, toImu, fromImu>>
        /\ tick \in {"idle", "tasks"}
    BY <1>4 DEF Store, InOrder, Running, link, wires, TypeOK
  <2>3. ~Copying' /\ ~Copying
    BY <2>2 DEF Copying
  <2>4. CASE s \in SlotStores
    <3>1. /\ "wts" \in iss[ctx].todo /\ "wait" \in iss[ctx].todo /\ ~wts
      BY <2>2, <2>4 DEF Issuers, IssuerOK, SlotInv, Writing, SendStores, SlotStores
    <3>2. Quiet /\ ~wts' /\ ~wait_ck
      BY <2>2, <2>4, <3>1 DEF WiresInv, CountInv, SlotStores
    <3>3. /\ "wts" \in iss'[ctx].todo /\ "wait" \in iss'[ctx].todo /\ Busy(ctx)'
      BY <2>2, <2>4, <3>1 DEF SlotStores, Busy
    <3>4. Quiet' /\ Owed' = 0
      BY <2>2, <2>3, <3>2 DEF Owed
    <3>5. \A o \in Contexts : o = ctx \/ ~Busy(o)'
      BY <2>1 DEF Busy
    <3>6. QED
      BY <2>2, <3>3, <3>4, <3>5 DEF WiresInv
  <2>5. CASE s = "wts"
    <3>1. Quiet
      BY <2>2, <2>5 DEF WiresInv
    <3>2. Quiet' /\ Owed' = 1
      <4>1. wts' = TRUE
        BY <2>2, <2>5
      <4>2. QED
        BY <2>2, <2>3, <3>1, <4>1 DEF Owed
    <3>3. "wts" \notin iss'[ctx].todo /\ (Busy(ctx)' \/ wait_ck')
      <4>1. CASE iss[ctx].todo \ {s} = {}
        <5>1. "wait" \notin iss[ctx].todo /\ iss'[ctx] = Free
          BY <2>2, <2>5, <4>1
        <5>2. wait_ck
          BY <2>2, <2>5, <5>1 DEF WiresInv
        <5>3. "wts" \notin iss'[ctx].todo
          BY <5>1 DEF Free
        <5>4. QED
          BY <2>2, <5>2, <5>3
      <4>2. CASE iss[ctx].todo \ {s} # {}
        BY <2>2, <2>5, <4>2 DEF Busy
      <4>3. QED
        BY <4>1, <4>2
    <3>4. \A o \in Contexts : o = ctx \/ ~Busy(o)'
      BY <2>1 DEF Busy
    <3>5. QED
      BY <2>2, <3>2, <3>3, <3>4 DEF WiresInv
  <2>6. CASE s = "wait"
    <3>1. /\ wait_ck' /\ Owed' = Owed
          /\ UNCHANGED <<slot, sends, heard>>
      BY <1>4, <2>2, <2>3, <2>6 DEF Owed, Store, SlotStores, SendStores, TypeOK
    <3>2. "wts" \in iss'[ctx].todo => "wts" \in iss[ctx].todo
      BY <2>2, <2>6 DEF Free
    <3>3. \A o \in Contexts : o = ctx \/ ~Busy(o)'
      BY <2>1 DEF Busy
    <3>4. QED
      BY <2>2, <3>1, <3>2, <3>3 DEF WiresInv
  <2>7. QED
    BY <2>4, <2>5, <2>6 DEF Stores, SlotStores, SendStores
<1>5. ASSUME NEW c \in UserCmd, UserForward(c)
      PROVE  WiresInv'
  <2>1. /\ ~wait_ck /\ ~Busy("main") /\ ~Busy("tim") /\ ~Copying /\ time_dly = 0
        /\ UNCHANGED <<time_dly, iss, tick, frame, toImu, fromImu>> /\ wait_ck'
    BY <1>1, <1>5 DEF UserForward, Admits, InUse, Unsettled, wires
  <2>2. Quiet' /\ Owed' \in {0, 1}
    BY <2>1 DEF WiresInv, Owed, Copying
  <2>3. \A o \in Contexts : ~Busy(o)'
    BY <2>1 DEF Busy
  <2>4. tick' # "out"
    BY <2>1 DEF Copying
  <2>5. Len(toImu') = 0 /\ Len(fromImu') = 0
    BY <2>2, Emptiness
  <2>6. Len(toImu') + Len(fromImu') + Owed' <= 1
    <3>1. CASE Owed' = 0
      BY <2>5, <3>1
    <3>2. CASE Owed' = 1
      BY <2>5, <3>2
    <3>3. QED
      BY <2>2, <3>1, <3>2
  <2>7. \A i \in 1 .. Len(toImu') : toImu'[i] = slot'
    BY <2>5
  <2>8. QED
    BY <2>1, <2>2, <2>3, <2>4, <2>6, <2>7 DEF WiresInv
<1>6. CASE TimStart \/ TimTasksDone
  <2>1. /\ UNCHANGED <<slot, link, iss, frame, wires, hist>>
        /\ tick \in {"idle", "tasks"} /\ tick' \in {"tasks", "uart"}
    BY <1>6 DEF TimStart, TimTasksDone
  <2>2. Owed' = Owed
    BY <2>1 DEF Owed, Copying, link
  <2>3. QED
    BY <2>1, <2>2 DEF WiresInv, link, wires, hist, Busy
<1>7. CASE TimReceive
  <2>1. /\ fromImu # <<>> /\ fromImu' = Tail(fromImu) /\ tick = "uart"
        /\ wait_ck' => wait_ck
        /\ UNCHANGED <<slot, wts, time_dly, iss, tick, frame, toImu, sends, heard>>
    BY <1>1, <1>7 DEF TimReceive
  <2>2. Len(fromImu) = 1 /\ Len(toImu) = 0 /\ Owed = 0 /\ heard
    <3>1. b = 1 /\ a = 0 /\ Owed = 0
      BY <1>2, <1>a, <2>1
    <3>2. QED
      BY <1>b, <2>1, <3>1 DEF WiresInv
  <2>3. Quiet'
    BY <1>1, <2>1, <2>2, TakeOff, Emptiness
  <2>4. Owed' = 0
    BY <2>1, <2>2 DEF Owed, Copying
  <2>5. \A o \in Contexts : Busy(o)' => "wts" \notin iss'[o].todo
    BY <2>1 DEF WiresInv, Busy
  <2>6. Len(toImu') + Len(fromImu') + Owed' <= 1
    <3>1. Len(toImu') = 0 /\ Len(fromImu') = 0
      BY <2>3
    <3>2. QED
      BY <2>4, <3>1
  <2>7. \A i \in 1 .. Len(toImu') : toImu'[i] = slot'
    BY <2>3
  <2>8. tick' \notin {"check", "out"} /\ fromImu' = <<>> /\ toImu' = <<>>
    BY <2>1, <2>3
  <2> HIDE DEF Quiet
  <2>9. QED
    BY <2>3, <2>4, <2>5, <2>6, <2>7, <2>8 DEF WiresInv
<1>8. CASE TimReceiveDone
  <2>1. /\ UNCHANGED <<slot, link, iss, frame, wires, hist>>
        /\ tick = "uart" /\ tick' = "check" /\ (ResendDue => Quiet)
    BY <1>8 DEF TimReceiveDone
  <2>2. Owed' = Owed /\ ResendDue' = ResendDue
    BY <2>1 DEF Owed, Copying, link, ResendDue
  <2>3. QED
    BY <2>1, <2>2 DEF WiresInv, link, wires, hist, Busy
<1>9. CASE TimCheck
  <2>1. /\ UNCHANGED <<slot, iss, frame, toImu, fromImu, heard, sends>>
        /\ tick = "check" /\ tick' = "send" /\ ~Copying /\ ~Copying'
    BY <1>9 DEF TimCheck, wires, hist, Copying
  <2>2. CASE NothingAwaited \/ Count
    <3>1. UNCHANGED <<wts, wait_ck>>
      BY <2>2 DEF NothingAwaited, Count
    <3>2. Owed' = Owed
      BY <2>1, <3>1 DEF Owed
    <3>3. QED
      BY <2>1, <3>1, <3>2 DEF WiresInv, Busy
  <2>3. CASE Resend \/ Abandon
    <3>1. Quiet /\ wait_ck /\ ~(time_dly < ResendTicks)
      BY <1>1, <2>1, <2>3 DEF WiresInv, Resend, Abandon, ResendDue
    <3>2. ~wts
      BY <2>1, <3>1 DEF CountInv
    <3>3. \A o \in Contexts : ~Busy(o)
      BY <3>1 DEF CountInv
    <3>4. Quiet' /\ \A o \in Contexts : ~Busy(o)'
      BY <2>1, <3>1, <3>3 DEF Busy
    <3>5. (wait_ck' /\ Owed' = 1) \/ Owed' = 0
      <4>1. CASE Resend
        <5>1. wts' = TRUE /\ wait_ck'
          BY <3>1, <4>1 DEF Resend
        <5>2. QED
          BY <2>1, <5>1 DEF Owed
      <4>2. CASE Abandon
        <5>1. ~wts'
          BY <3>2, <4>2 DEF Abandon
        <5>2. QED
          BY <2>1, <5>1 DEF Owed
      <4>3. QED
        BY <2>3, <4>1, <4>2
    <3>6. QED
      BY <2>1, <3>4, <3>5 DEF WiresInv
  <2>4. QED
    BY <1>9, <2>2, <2>3 DEF TimCheck
<1>10. CASE TimTestWTS \/ TimCopy
  <2>1. /\ UNCHANGED <<slot, wait_ck, iss, toImu, fromImu, heard, sends>> /\ tick' # "check"
    BY <1>10 DEF TimTestWTS, TimCopy, wires, hist, link
  <2>2. Owed' = Owed
    BY <1>1, <1>10 DEF TimTestWTS, TimCopy, Owed, Copying, link
  <2>3. tick' = "out" => frame' = slot'
    BY <1>1, <1>10 DEF TimTestWTS, TimCopy, SlotInv, Frames
  <2>4. QED
    BY <2>1, <2>2, <2>3 DEF WiresInv, Busy
<1>11. CASE TimSend
  <2>1. /\ UNCHANGED <<slot, wait_ck, wts, iss, fromImu, heard>>
        /\ tick = "out" /\ tick' = "idle" /\ toImu' = Put(toImu, frame) /\ sends' = sends + 1
    BY <1>11 DEF TimSend
  <2>2. frame = slot /\ Owed >= 1
    BY <1>2, <2>1 DEF WiresInv, Copying
  <2>3. Len(toImu) = 0 /\ Len(fromImu) = 0 /\ Owed = 1 /\ ~wts
    BY <1>1, <1>2, <2>1, <2>2 DEF WiresInv, Owed, Copying
  <2>4. Owed' = 0
    BY <2>1, <2>3 DEF Owed, Copying
  <2>5. /\ Len(toImu') \in {0, 1} /\ \A i \in 1 .. Len(toImu') : toImu'[i] = slot
    <3>1. /\ Len(toImu') \in {Len(toImu), Len(toImu) + 1}
          /\ \A i \in 1 .. Len(toImu') :
                toImu'[i] = frame \/ (i \in 1 .. Len(toImu) /\ toImu'[i] = toImu[i])
      BY <1>1, <2>1, PutOn
    <3>2. QED
      BY <2>2, <2>3, <3>1
  <2>6. \A o \in Contexts : Busy(o) => "wts" \notin iss[o].todo
    BY <2>2 DEF CountInv
  <2>7. wait_ck \/ Busy("main") \/ Busy("tim")
    BY <2>2 DEF WiresInv
  <2>8. fromImu' = <<>>
    BY <1>1, <2>1, <2>3
  <2>9. QED
    BY <1>1, <2>1, <2>4, <2>5, <2>6, <2>7, <2>8 DEF WiresInv, Busy
<1>12. CASE ImuHear
  <2>1. /\ UNCHANGED <<slot, link, iss, tick, frame, sends>>
        /\ toImu # <<>> /\ toImu' = Tail(toImu) /\ fromImu' = Put(fromImu, Head(toImu))
    BY <1>12 DEF ImuHear
  <2>2. Len(toImu) = 1 /\ Len(fromImu) = 0 /\ Owed = 0
    BY <1>2, <1>a, <1>b, <2>1
  <2>3. heard'
    BY <1>1, <1>12, <2>1, <2>2, TakeOff DEF ImuHear, WiresInv
  <2>4. toImu' = <<>> /\ Len(toImu') = 0
    BY <1>1, <2>1, <2>2, TakeOff, Emptiness
  <2>5. Len(fromImu') \in {0, 1}
    <3>1. Head(toImu) \in Frames
      BY <1>1, <2>1, TakeOff
    <3>2. Len(fromImu') \in {Len(fromImu), Len(fromImu) + 1}
      BY <1>1, <2>1, <3>1, PutOn
    <3>3. QED
      BY <2>2, <3>2
  <2>6. Owed' = 0 /\ ResendDue' = ResendDue
    BY <2>1, <2>2 DEF Owed, Copying, link, ResendDue
  <2>7. \A o \in Contexts : Busy(o)' => "wts" \notin iss'[o].todo
    BY <2>1 DEF WiresInv, Busy
  <2>8. wait_ck \/ Busy("main") \/ Busy("tim")
    BY <2>1 DEF WiresInv
  <2>9. ~(tick = "check" /\ ResendDue)
    BY <2>1 DEF WiresInv
  <2>10. Len(toImu') + Len(fromImu') + Owed' <= 1
    BY <2>4, <2>5, <2>6
  <2>11. ~(tick' = "check" /\ ResendDue')
    BY <2>1, <2>6, <2>9
  <2>12. (wait_ck \/ Busy("main") \/ Busy("tim"))'
    BY <2>1, <2>8 DEF Busy, link
  <2>13. tick' = "out" => frame' = slot'
    BY <2>1 DEF WiresInv
  <2>14. QED
    BY <2>3, <2>4, <2>7, <2>10, <2>11, <2>12, <2>13 DEF WiresInv
<1>13. CASE Lose
  <2>1. /\ UNCHANGED <<slot, link, iss, tick, frame, hist>>
        /\ \/ toImu # <<>> /\ toImu' = Tail(toImu) /\ UNCHANGED fromImu
           \/ fromImu # <<>> /\ fromImu' = Tail(fromImu) /\ UNCHANGED toImu
    BY <1>13 DEF Lose
  <2>2. Len(toImu) + Len(fromImu) = 1 /\ Owed = 0
    BY <1>2, <1>a, <1>b, <2>1
  <2>3. Quiet'
    BY <1>1, <2>1, <2>2, TakeOff, Emptiness
  <2>4. Owed' = 0
    BY <2>1, <2>2 DEF Owed, Copying, link
  <2>5. \A o \in Contexts : Busy(o)' => "wts" \notin iss'[o].todo
    BY <2>1 DEF WiresInv, Busy
  <2>6. QED
    BY <2>1, <2>3, <2>4, <2>5 DEF WiresInv
<1>14. CASE UNCHANGED vars
  <2>1. UNCHANGED <<slot, link, iss, tick, frame, wires, hist>>
    BY <1>14 DEF vars
  <2>2. Owed' = Owed /\ ResendDue' = ResendDue
    BY <2>1 DEF Owed, Copying, link, ResendDue
  <2>3. QED
    BY <2>1, <2>2 DEF WiresInv, link, wires, hist, Busy
<1>15. QED
  BY <1>3, <1>4, <1>5, <1>6, <1>7, <1>8, <1>9, <1>10, <1>11,
     <1>12, <1>13, <1>14 DEF Next, Tim, CmdsOf

LEMMA WiresHolds ==
    ASSUME PromptAck
    PROVE  Spec => [](Inv /\ Counted /\ Prompt)
<1>1. Init => Prompt
  <2> SUFFICES ASSUME Init
               PROVE  WiresInv
    BY DEF Prompt
  <2>1. Quiet /\ Owed = 0 /\ Len(toImu) = 0 /\ Len(fromImu) = 0 /\ tick = "idle"
    BY DEF Init, Quiet, Owed, Copying
  <2>2. \A ctx \in Contexts : ~Busy(ctx)
    BY DEF Init, Busy, Free
  <2>3. QED
    BY <2>1, <2>2 DEF WiresInv, Quiet
<1>2. Inv /\ Counted /\ Prompt /\ [Next]_vars => Prompt'
  BY WiresStep DEF Inv, Issuers, Race
<1>3. QED
  BY <1>1, <1>2, CountHolds, PTL DEF Spec

(* If the unit answers in time or not at all, the answer that ends a wait is *)
(* one to the command in the slot: the unit has heard that command and not   *)
(* only one before it, unless two contexts met in the slot.                  *)
THEOREM AnswersAreForThisCommand ==
    ASSUME PromptAck
    PROVE  Spec => AnswerIsForThisCommand
<1>1. Inv /\ Counted /\ Prompt /\ [Next]_vars =>
        [tick = "uart" /\ wait_ck /\ ~wait_ck' => heard \/ clash]_vars
  <2> SUFFICES ASSUME Inv, Prompt, Next, tick = "uart", wait_ck, ~wait_ck', ~clash
               PROVE  heard
    BY DEF vars
  <2>1. TimReceive
    BY DEF Next, Tim, Begin, Store, Running, UserForward, TimStart, TimTasksDone,
       TimReceiveDone, TimCheck, TimTestWTS, TimCopy, TimSend, ImuHear, Lose, link, Inv,
       TypeOK, Contexts
  <2>2. QED
    BY <2>1 DEF TimReceive, Prompt, WiresInv
<1>2. QED
  BY <1>1, WiresHolds, PTL DEF Spec, AnswerIsForThisCommand

-----------------------------------------------------------------------------
(* While a command is on the wires, it is awaited and its checksum is the one *)
(* that is kept: its answer ends the wait.  Main can be held up between the  *)
(* two flags of CMD_Send, and then its frame may leave, and be answered,     *)
(* before it is awaited: that is "early".                                    *)
AnsweredInv ==
    /\ Quiet \/ (wait_ck /\ ck_back = slot)
    /\ \A i \in 1 .. Len(fromImu) : fromImu[i] = slot
    /\ wait_ck => ~answered
    /\ \A ctx \in Contexts : Busy(ctx) =>
          /\ Writing(ctx) \/ ~answered
          /\ "wait" \in iss[ctx].todo => ~wait_ck

Answered == clash \/ early \/ AnsweredInv

(* With bytes in the slot that are new, nothing is on the wires.              *)
LEMMA AnsweredStep ==
    ASSUME PromptAck, TypeOK, Issuers, Race, Counted, Prompt, Answered, [Next]_vars
    PROVE  Answered'
<1> SUFFICES ASSUME ~clash', ~early', SlotInv, WiresInv
             PROVE  AnsweredInv'
  BY DEF Answered, Race, Prompt, TypeOK, Next, Tim, Begin, Admits, Store, InOrder,
     UserForward,
     TimStart, TimTasksDone, TimReceive, TimReceiveDone, TimCheck, NothingAwaited, Count,
     Resend, Abandon, LastTry, TimTestWTS, TimCopy,
     TimSend, KeepsChecksum, ImuHear, Lose, vars, link, wires, hist
<1>1. ~clash
  BY DEF TypeOK, Next, Tim, Begin, Admits, Store, InOrder, UserForward,
     TimStart, TimTasksDone, TimReceive, TimReceiveDone, TimCheck, TimTestWTS, TimCopy,
     TimSend, ImuHear, Lose, vars, link, wires, hist
<1>2. /\ ~early => AnsweredInv
      /\ toImu \in Seq(Frames) /\ fromImu \in Seq(Frames) /\ slot \in Frames
      /\ wait_ck \in BOOLEAN /\ answered \in BOOLEAN /\ early \in BOOLEAN
  BY <1>1 DEF Answered, TypeOK
<1>3. ASSUME NEW ctx \in Contexts, NEW c \in CmdsOf(ctx), Begin(ctx, c)
      PROVE  AnsweredInv'
  <2>1. /\ UNCHANGED <<slot, ck_back, wires, answered, wait_ck, early>> /\ ~wait_ck
        /\ iss'[ctx].todo = Stores /\ \A o \in Contexts \ {ctx} : iss'[o] = iss[o]
    BY <1>3 DEF Begin, Admits, link, TypeOK, Contexts
  <2>2. Writing(ctx)' \/ ~Busy(ctx)'
    BY <2>1 DEF Writing, Stores, SlotStores
  <2>3. AnsweredInv
    BY <1>2, <2>1
  <2>4. QED
    BY <2>1, <2>2, <2>3 DEF AnsweredInv, Quiet, wires, Busy, Writing
<1>4. ASSUME NEW ctx \in Contexts, NEW s \in Stores, Store(ctx, s)
      PROVE  AnsweredInv'
  <2>1. /\ s \in iss[ctx].todo /\ Busy(ctx)
        /\ s \in SendStores => iss[ctx].todo \subseteq SendStores
        /\ UNCHANGED <<ck_back, wires>> /\ wait_ck' = (wait_ck \/ s = "wait")
        /\ answered' = (answered /\ s \in SendStores)
        /\ early' = (early /\ s \in SendStores)
        /\ s \in SendStores => UNCHANGED slot
    BY <1>4 DEF Store, InOrder, SendStores
  <2>2. \A o \in Contexts \ {ctx} : ~Busy(o) /\ ~Busy(o)'
    BY <1>4, <2>1 DEF Store, SlotInv, Contexts, TypeOK, Busy
  <2>3. iss'[ctx].todo = iss[ctx].todo \ {s}
    BY <1>4 DEF Store, Free, TypeOK, Contexts
  <2>4. CASE s \in SlotStores
    <3>1. Writing(ctx) /\ "wts" \in iss[ctx].todo
      BY <2>1, <2>4 DEF Issuers, IssuerOK, Writing, SendStores
    <3>2. Quiet /\ ~wait_ck
      BY <2>1, <3>1 DEF WiresInv, SlotInv
    <3>3. ~answered' /\ Quiet' /\ ~wait_ck'
      BY <2>1, <2>4, <3>2 DEF SlotStores, SendStores, Quiet, wires
    <3>4. QED
      BY <3>3 DEF AnsweredInv, Quiet
  <2>5. CASE s \in SendStores
    <3>1. AnsweredInv
      BY <1>2, <2>1, <2>5
    <3>2. ~Writing(ctx)
      BY <2>1, <2>5 DEF Writing, SlotStores, SendStores
    <3>3. ~answered /\ ~answered'
      BY <2>1, <3>1, <3>2 DEF AnsweredInv
    <3>4. s # "wait" => wait_ck' = wait_ck
      BY <1>2, <2>1
    <3>5. "wait" \in iss'[ctx].todo => ~wait_ck'
      BY <2>1, <2>3, <3>1, <3>4 DEF AnsweredInv
    <3>6. Quiet' \/ (wait_ck' /\ ck_back' = slot')
      BY <2>1, <2>5, <3>1 DEF AnsweredInv, Quiet, wires
    <3>7. \A i \in 1 .. Len(fromImu') : fromImu'[i] = slot'
      BY <2>1, <2>5, <3>1 DEF AnsweredInv, wires
    <3>8. QED
      BY <2>2, <3>3, <3>5, <3>6, <3>7 DEF AnsweredInv
  <2>6. QED
    BY <2>4, <2>5 DEF Stores
<1>5. ASSUME NEW c \in UserCmd, UserForward(c)
      PROVE  AnsweredInv'
  <2>1. Quiet /\ \A o \in Contexts : ~Busy(o)
    BY <1>1, <1>2, <1>5 DEF UserForward, Admits, InUse, WiresInv, Contexts
  <2>2. Quiet' /\ ~answered' /\ \A o \in Contexts : ~Busy(o)'
    BY <1>5, <2>1 DEF UserForward, wires, Quiet, Busy
  <2>3. QED
    BY <2>2 DEF AnsweredInv, Quiet
<1>6. CASE TimReceive
  <2>1. /\ fromImu # <<>> /\ fromImu' = Tail(fromImu) /\ tick = "uart"
        /\ wait_ck' = (wait_ck /\ Head(fromImu) # ck_back)
        /\ UNCHANGED <<slot, ck_back, iss, toImu, early>>
    BY <1>6 DEF TimReceive
  <2>2. AnsweredInv
    BY <1>2, <2>1
  <2>3. Head(fromImu) = slot /\ ck_back = slot /\ wait_ck
    BY <1>2, <2>1, <2>2, TakeOff DEF AnsweredInv, Quiet
  <2>4. ~wait_ck'
    BY <2>1, <2>3
  <2>5. \A o \in Contexts : Busy(o) => Writing(o)
    <3> SUFFICES ASSUME NEW o \in Contexts, Busy(o), ~Writing(o)
                 PROVE  FALSE
      OBVIOUS
    <3>1. "wts" \notin iss[o].todo
      BY <2>1 DEF WiresInv, Quiet
    <3>2. "wait" \notin iss[o].todo
      BY <2>2, <2>3 DEF AnsweredInv
    <3>3. iss[o].todo \subseteq Stores /\ iss[o].todo # {}
      BY DEF TypeOK, Issuers, IssuerOK
    <3>4. QED
      BY <3>1, <3>2, <3>3 DEF Writing, Stores, SlotStores, SendStores
  <2>6. Quiet'
    <3>1. Len(toImu) = 0 /\ Len(fromImu) = 1
      <4>1. Len(toImu) \in Nat /\ Len(fromImu) \in Nat /\ Len(fromImu) # 0
        BY <1>2, <2>1, Emptiness
      <4>2. Owed \in Nat
        BY DEF Owed
      <4>3. Len(toImu) + Len(fromImu) + Owed <= 1
        BY DEF WiresInv
      <4>4. \A m, n, o \in Nat : m + n + o <= 1 /\ n # 0 => m = 0 /\ n = 1
        OBVIOUS
      <4>5. QED
        BY <4>1, <4>2, <4>3, <4>4, Zenon
    <3>2. QED
      BY <1>2, <2>1, <3>1, TakeOff, Emptiness DEF Quiet
  <2>7. QED
    BY <2>1, <2>4, <2>5, <2>6 DEF AnsweredInv, Quiet, Busy, Writing
<1>7. CASE TimSend
  <2>1. /\ tick = "out" /\ ck_back' = IF wait_ck THEN frame ELSE ck_back
        /\ early' = (early \/ ~wait_ck)
        /\ UNCHANGED <<slot, wait_ck, iss, fromImu, answered>>
    BY <1>7 DEF TimSend, KeepsChecksum
  <2>2. AnsweredInv /\ wait_ck /\ frame = slot
    BY <1>2, <2>1 DEF WiresInv
  <2>3. QED
    BY <2>1, <2>2 DEF AnsweredInv, Busy, Writing
<1>8. CASE ImuHear
  <2>1. /\ toImu # <<>> /\ fromImu' = Put(fromImu, Head(toImu))
        /\ UNCHANGED <<slot, ck_back, wait_ck, iss, answered, early>>
    BY <1>8 DEF ImuHear, link
  <2>2. AnsweredInv /\ Head(toImu) = slot
    BY <1>2, <2>1, TakeOff DEF WiresInv
  <2>3. \A i \in 1 .. Len(fromImu') : fromImu'[i] = slot'
    <3>1. \A i \in 1 .. Len(fromImu') :
            fromImu'[i] = slot \/ (i \in 1 .. Len(fromImu) /\ fromImu'[i] = fromImu[i])
      BY <1>2, <2>1, <2>2, PutOn
    <3>2. QED
      BY <2>1, <2>2, <3>1 DEF AnsweredInv
  <2>4. wait_ck' /\ ck_back' = slot'
    BY <2>1, <2>2 DEF AnsweredInv, Quiet
  <2>5. QED
    BY <2>1, <2>2, <2>3, <2>4 DEF AnsweredInv, Busy, Writing
<1>9. CASE Lose
  <2>1. /\ UNCHANGED <<slot, ck_back, wait_ck, iss, answered, early>>
        /\ \/ toImu # <<>> /\ UNCHANGED fromImu
           \/ fromImu # <<>> /\ fromImu' = Tail(fromImu)
    BY <1>9 DEF Lose, link, hist
  <2>2. AnsweredInv /\ wait_ck' /\ ck_back' = slot'
    BY <1>2, <2>1 DEF AnsweredInv, Quiet
  <2>3. \A i \in 1 .. Len(fromImu') : fromImu'[i] = slot'
    <3>1. CASE UNCHANGED fromImu
      BY <2>1, <2>2, <3>1 DEF AnsweredInv
    <3>2. CASE fromImu # <<>> /\ fromImu' = Tail(fromImu)
      <4>1. \A i \in 1 .. Len(fromImu') :
              i + 1 \in 1 .. Len(fromImu) /\ fromImu'[i] = fromImu[i + 1]
        BY <1>2, <3>2, TakeOff
      <4>2. QED
        BY <2>1, <2>2, <4>1 DEF AnsweredInv
    <3>3. QED
      BY <2>1, <3>1, <3>2
  <2>4. QED
    BY <2>1, <2>2, <2>3 DEF AnsweredInv, Busy, Writing
<1>10. CASE TimCheck
  <2>1. UNCHANGED <<slot, ck_back, iss, toImu, fromImu, answered, early>>
    BY <1>10 DEF TimCheck, wires, hist
  <2>2. AnsweredInv
    BY <1>2, <2>1
  <2>3. wait_ck' = wait_ck \/ (~wait_ck' /\ Quiet)
    BY <1>10 DEF TimCheck, NothingAwaited, Count, Resend, Abandon, WiresInv
  <2>4. QED
    BY <2>1, <2>2, <2>3 DEF AnsweredInv, Quiet, Busy, Writing
<1>11. CASE UNCHANGED <<slot, ck_back, iss, toImu, fromImu, answered, wait_ck, early>>
  BY <1>2, <1>11 DEF AnsweredInv, Quiet, Busy, Writing
<1>12. QED
  <2>1. CASE TimStart \/ TimTasksDone \/ TimReceiveDone \/ TimTestWTS \/ TimCopy
    BY <1>11, <2>1 DEF TimStart, TimTasksDone, TimReceiveDone, TimTestWTS, TimCopy, link,
       wires, hist
  <2>2. CASE UNCHANGED vars
    BY <1>11, <2>2 DEF vars, link, wires, hist
  <2>3. QED
    BY <1>3, <1>4, <1>5, <1>6, <1>7, <1>8, <1>9, <1>10, <2>1, <2>2
    DEF Next, Tim, CmdsOf, Contexts

(* If the unit answers in time or not at all, a command whose answer was read *)
(* is not transmitted again, unless two contexts met in the slot or the tick *)
(* fell between the two flags of CMD_Send: the only two ways, for any        *)
(* commands of all three contexts.                                           *)
THEOREM AnsweredIsNotResent ==
    ASSUME PromptAck
    PROVE  Spec => ResendOnlyUnansweredUnlessEarly
<1>1. Init => Answered
  BY DEF Init, Answered, AnsweredInv, Quiet, Contexts, Busy, Free
<1>2. Inv /\ Counted /\ Prompt /\ Answered /\ [Next]_vars => Answered'
  BY AnsweredStep DEF Inv, Issuers, Race
<1>3. Inv /\ Answered /\ [Next]_vars
        => [repeat_cnt' > repeat_cnt => ~answered \/ clash \/ early]_vars
  <2> SUFFICES ASSUME Inv, Answered, Next, repeat_cnt' > repeat_cnt, ~clash, ~early
               PROVE  ~answered
    BY DEF vars
  <2>1. repeat_cnt \in Nat
    BY ConstantsAssumption DEF Inv, TypeOK
  <2>2. repeat_cnt' # repeat_cnt /\ repeat_cnt' # 0
    BY <2>1
  <2>3. TimCheck
    BY <2>2 DEF Next, Tim, Begin, Store, UserForward, TimStart, TimTasksDone, TimReceive,
       TimReceiveDone, TimTestWTS, TimCopy, TimSend, ImuHear, Lose, link
  <2>4. wait_ck
    BY <2>2, <2>3 DEF TimCheck, NothingAwaited, Count, Resend, Abandon, ResendDue
  <2>5. QED
    BY <2>4 DEF Answered, AnsweredInv
<1>4. QED
  BY <1>1, <1>2, <1>3, WiresHolds, PTL DEF Spec, ResendOnlyUnansweredUnlessEarly

-----------------------------------------------------------------------------
(* The link implements CommandSlot.  A command takes the slot at the test it *)
(* passed, its history begins when its bytes are written, and what the link  *)
(* does until the answer or the last resend is Transmit and Hear.            *)

(* Before a race the context inside an issuer is alone and holds the slot.   *)
LEMMA HolderIs ==
    ASSUME NEW ctx \in Contexts, Busy(ctx), \A o \in Contexts \ {ctx} : ~Busy(o)
    PROVE  Holder = iss[ctx].cmd /\ (Filled <=> ~Writing(ctx))
BY DEF Holder, Filled, Busy, Writing, Contexts

(* With nobody inside an issuer the command that awaits its answer does.     *)
LEMMA HolderWaits ==
    ASSUME \A o \in Contexts : ~Busy(o)
    PROVE  /\ Holder = IF wait_ck THEN slot.body ELSE NoCmd
           /\ Filled <=> Holder # NoCmd
BY DEF Holder, Filled, Busy, Writing, Contexts

LEMMA SlotStep ==
    ASSUME PromptAck, TypeOK, Issuers, Race, Counted, Prompt, [Next]_vars
    PROVE  [Slot!SNext]_(Slot!svars)
<1>1. CASE clash'
  BY <1>1 DEF Slot!SNext
<1>2. CASE ~clash'
  <2> SUFFICES ASSUME SlotInv, BudgetInv, CountInv, WiresInv, UNCHANGED clash
               PROVE  [Slot!SNext]_(Slot!svars)
    BY <1>2 DEF Race, Counted, Prompt, TypeOK, Next, Tim, Begin, Admits, Store, InOrder,
       UserForward, TimStart, TimTasksDone, TimReceive, TimReceiveDone, TimCheck, TimTestWTS,
       TimCopy, TimSend, ImuHear, Lose, vars, link, wires, hist
  <2> USE DEF Contexts
  <2>1. CASE UNCHANGED <<Holder, Filled>> /\ (Filled => UNCHANGED <<sends, heard>>)
    BY <2>1 DEF Slot!svars
  <2>2. CASE UNCHANGED <<slot, iss, wait_ck>> /\ (Filled => UNCHANGED <<sends, heard>>)
    <3>1. UNCHANGED <<Holder, Filled>>
      BY <2>2 DEF Holder, Filled, Busy, Writing
    <3>2. QED
      BY <2>1, <2>2, <3>1
  <2>3. ASSUME NEW ctx \in Contexts, NEW c \in CmdsOf(ctx), Begin(ctx, c)
        PROVE  Slot!SNext
    <3>1. /\ ~wait_ck /\ \A o \in Contexts : ~Busy(o)
          /\ iss'[ctx] = [cmd |-> c, todo |-> Stores]
          /\ \A o \in Contexts \ {ctx} : iss'[o] = iss[o]
      BY <1>2, <2>3 DEF Begin, Admits, InUse, TypeOK
    <3>2. Holder = NoCmd /\ ~Filled
      BY <3>1, HolderWaits
    <3>3. c \in Cmd /\ c # NoCmd
      BY <2>3, ConstantsAssumption DEF ConstantsAssumption, CmdsOf, Cmd
    <3>4. Holder' = c /\ ~Filled'
      BY <3>1, <3>3 DEF Holder, Filled, Busy, Writing, Stores, SlotStores
    <3>5. Slot!Take(c)
      BY <3>2, <3>4 DEF Slot!Take
    <3>6. QED
      BY <3>3, <3>5 DEF Slot!SNext
  <2>4. ASSUME NEW ctx \in Contexts, NEW s \in Stores, Store(ctx, s)
        PROVE  UNCHANGED Slot!svars
    <3>1. /\ s \in iss[ctx].todo /\ Busy(ctx)
          /\ \A o \in Contexts \ {ctx} : ~Busy(o) /\ iss'[o] = iss[o]
          /\ iss'[ctx] = IF iss[ctx].todo \ {s} = {} THEN Free
                         ELSE [cmd |-> iss[ctx].cmd, todo |-> iss[ctx].todo \ {s}]
          /\ s \in SendStores => iss[ctx].todo \subseteq SendStores
      BY <2>4 DEF Store, InOrder, SlotInv, TypeOK
    <3>2. Holder = iss[ctx].cmd /\ (Filled <=> ~Writing(ctx)) /\ Holder # NoCmd
      BY <3>1, HolderIs DEF Busy
    <3>3. CASE s \in SlotStores
      <4>1. SendStores \subseteq iss[ctx].todo /\ "wts" \notin SlotStores
        BY <3>1, <3>3 DEF Issuers, IssuerOK, SlotStores
      <4>2. iss'[ctx].cmd = iss[ctx].cmd
        BY <3>1, <3>3, <4>1 DEF SendStores
      <4>3. Holder' = Holder
        BY <3>1, <3>2, <4>2 DEF Holder, Busy
      <4>4. ~Filled /\ sends' = 0 /\ ~heard'
        BY <2>4, <3>1, <3>2, <3>3 DEF Store, Writing, SlotStores, SendStores
      <4>5. QED
        BY <4>3, <4>4 DEF Slot!svars
    <3>4. CASE s \in SendStores
      <4>1. UNCHANGED <<slot, sends, heard>>
        BY <2>4, <3>4 DEF Store, SlotStores, SendStores, TypeOK
      <4>2. ~Writing(ctx) /\ Filled
        BY <3>1, <3>2, <3>4 DEF Writing, SlotStores, SendStores
      <4>3. CASE iss[ctx].todo \ {s} = {}
        <5>1. wait_ck'
          BY <2>4, <3>1, <3>4, <4>3 DEF Store, WiresInv, SendStores
        <5>2. \A o \in Contexts : ~Busy(o)'
          BY <3>1, <4>3 DEF Busy, Free
        <5>3. slot.body = iss[ctx].cmd
          BY <3>1, <3>4, <4>2 DEF SlotInv, SendStores
        <5>4. Holder' = Holder /\ Filled'
          BY <3>2, <4>1, <5>1, <5>2, <5>3 DEF Holder, Filled, Busy, Writing
        <5>5. QED
          BY <4>1, <4>2, <5>4 DEF Slot!svars
      <4>4. CASE iss[ctx].todo \ {s} # {}
        <5>1. iss'[ctx].cmd = iss[ctx].cmd /\ ~Writing(ctx)'
          BY <3>1, <4>2, <4>4 DEF Writing, Busy
        <5>2. Holder' = Holder /\ Filled'
          BY <3>1, <3>2, <5>1 DEF Holder, Filled, Busy, Writing
        <5>3. QED
          BY <4>1, <4>2, <5>2 DEF Slot!svars
      <4>5. QED
        BY <4>3, <4>4
    <3>5. QED
      BY <3>3, <3>4 DEF Stores
  <2>5. ASSUME NEW c \in UserCmd, UserForward(c)
        PROVE  Slot!SNext
    <3>1. ~wait_ck /\ \A o \in Contexts : ~Busy(o)
      BY <1>2, <2>5 DEF UserForward, Admits, InUse
    <3>2. /\ UNCHANGED iss /\ wait_ck' = TRUE /\ slot'.body = c
          /\ sends' = 0 /\ heard' = FALSE
      BY <2>5 DEF UserForward, Whole
    <3>3. Holder = NoCmd /\ ~Filled
      BY <3>1, HolderWaits
    <3>4. Holder' = c
      BY <3>1, <3>2 DEF Holder, Busy
    <3>5. Slot!Take(c)
      BY <3>2, <3>3, <3>4 DEF Slot!Take
    <3>6. QED
      BY <3>5 DEF Slot!SNext, Cmd
  <2>6. CASE TimReceive
    <3>1. /\ UNCHANGED <<slot, iss, sends, heard>> /\ fromImu # <<>>
          /\ wait_ck' => wait_ck
      BY <2>6 DEF TimReceive, TypeOK
    <3>2. CASE ~Filled \/ ~(\A o \in Contexts : ~Busy(o)) \/ wait_ck' = wait_ck
      <4>1. CASE (Filled /\ ~(\A o \in Contexts : ~Busy(o))) \/ wait_ck' = wait_ck
        BY <2>1, <3>1, <4>1 DEF Holder, Filled, Busy, Writing
      <4>2. CASE ~Filled
        <5>1. ~Filled' /\ Holder' = Holder
          BY <3>1, <4>2 DEF Holder, Filled, Busy, Writing
        <5>2. QED
          BY <2>1, <4>2, <5>1 DEF Filled
      <4>3. QED
        BY <3>2, <4>1, <4>2
    <3>3. CASE Filled /\ (\A o \in Contexts : ~Busy(o)) /\ wait_ck' # wait_ck
      <4>1. ~wait_ck' /\ heard
        BY <3>1, <3>3 DEF TypeOK, WiresInv
      <4>2. Holder' = NoCmd /\ ~Filled'
        BY <3>1, <3>3, <4>1 DEF Holder, Filled, Busy
      <4>3. Slot!Confirm
        BY <3>3, <4>1, <4>2 DEF Slot!Confirm, Slot!Release
      <4>4. QED
        BY <4>3 DEF Slot!SNext
    <3>4. QED
      BY <3>2, <3>3
  <2>7. CASE TimCheck
    <3>1. UNCHANGED <<slot, iss, sends, heard>> /\ tick = "check"
      BY <2>7 DEF TimCheck, hist
    <3>2. CASE NothingAwaited \/ Count \/ Resend
      BY <2>2, <3>1, <3>2 DEF NothingAwaited, Count, Resend
    <3>3. CASE Abandon
      <4>1. /\ wait_ck /\ ~wait_ck' /\ ~(time_dly < ResendTicks)
            /\ repeat_cnt + 1 = RepeatLimit
        BY <3>3, ConstantsAssumption
        DEF ConstantsAssumption, Abandon, ResendDue, LastTry, TypeOK
      <4>2. \A o \in Contexts : ~Busy(o)
        BY <4>1 DEF CountInv
      <4>3. ~wts /\ ~Copying
        BY <3>1, <4>1 DEF CountInv, Copying
      <4>4. sends = RepeatLimit
        BY <4>1, <4>2, <4>3 DEF CountInv, Owed, TypeOK
      <4>5. Holder' = NoCmd /\ ~Filled'
        BY <3>1, <4>1, <4>2 DEF Holder, Filled, Busy
      <4>6. CASE Filled
        <5>1. Slot!GiveUp
          BY <4>4, <4>5, <4>6 DEF Slot!GiveUp, Slot!Release
        <5>2. QED
          BY <5>1 DEF Slot!SNext
      <4>7. CASE ~Filled
        <5>1. Holder = NoCmd
          BY <4>2, <4>7, HolderWaits
        <5>2. QED
          BY <2>1, <4>5, <4>7, <5>1 DEF Filled
      <4>8. QED
        BY <4>6, <4>7
    <3>4. QED
      BY <2>7, <3>2, <3>3 DEF TimCheck
  <2>8. CASE TimSend
    <3>1. UNCHANGED <<slot, iss, wait_ck, heard>> /\ tick = "out" /\ sends' = sends + 1
      BY <2>8 DEF TimSend
    <3>2. UNCHANGED <<Holder, Filled>>
      BY <3>1 DEF Holder, Filled, Busy, Writing
    <3>3. CASE Filled
      <4>1. sends \in Nat /\ RepeatLimit \in Nat /\ Owed \in {1, 2} /\ sends + Owed <= RepeatLimit
        BY <3>1, ConstantsAssumption
        DEF ConstantsAssumption, TypeOK, BudgetInv, Owed, Copying
      <4>2. sends < RepeatLimit
        BY <4>1
      <4>3. Slot!Transmit
        BY <3>1, <3>2, <3>3, <4>2 DEF Slot!Transmit, Filled
      <4>4. QED
        BY <4>3 DEF Slot!SNext
    <3>4. CASE ~Filled
      BY <2>1, <3>2, <3>4
    <3>5. QED
      BY <3>3, <3>4
  <2>9. CASE ImuHear
    <3>1. /\ UNCHANGED <<slot, iss, wait_ck, sends>> /\ toImu # <<>>
          /\ heard' = (heard \/ Head(toImu) = slot)
      BY <2>9 DEF ImuHear, link
    <3>2. UNCHANGED <<Holder, Filled>>
      BY <3>1 DEF Holder, Filled, Busy, Writing
    <3>3. heard' /\ sends > 0
      BY <3>1, TakeOff DEF WiresInv, TypeOK
    <3>4. CASE Filled
      <4>1. Slot!Hear
        BY <3>1, <3>2, <3>3, <3>4 DEF Slot!Hear, Filled
      <4>2. QED
        BY <4>1 DEF Slot!SNext
    <3>5. CASE ~Filled
      BY <2>1, <3>2, <3>5
    <3>6. QED
      BY <3>4, <3>5
  <2>10. CASE TimStart \/ TimTasksDone \/ TimReceiveDone \/ TimTestWTS \/ TimCopy \/ Lose \/ UNCHANGED vars
    <3>1. UNCHANGED <<slot, iss, wait_ck, sends, heard>>
      BY <2>10 DEF TimStart, TimTasksDone, TimReceiveDone, TimTestWTS, TimCopy, Lose,
         vars, link, hist
    <3>2. QED
      BY <2>2, <3>1
  <2>11. QED
    BY <2>3, <2>4, <2>5, <2>6, <2>7, <2>8, <2>9, <2>10 DEF Next, Tim, CmdsOf
<1>3. QED
  BY <1>1, <1>2

(* The command link is a slot with one holder at a time, which lets a        *)
(* command go when the unit has heard it or after all its transmissions, as  *)
(* long as the unit answers in time and no two contexts met in the slot.     *)
THEOREM LinkImplementsSlot ==
    ASSUME PromptAck
    PROVE  Spec => ImplementsSlot
<1>1. Init => Slot!SInit
  <2> SUFFICES ASSUME Init
               PROVE  Slot!SInit
    OBVIOUS
  <2>1. Holder = NoCmd /\ ~Filled
    BY DEF Init, Holder, Filled, Busy, Free, Contexts
  <2>2. QED
    BY <2>1 DEF Init, Slot!SInit
<1>2. Inv /\ Counted /\ Prompt /\ [Next]_vars => [Slot!SNext]_(Slot!svars)
  BY SlotStep DEF Inv, Issuers, Race
<1>3. QED
  BY <1>1, <1>2, WiresHolds, PTL DEF Spec, ImplementsSlot, Slot!SSpec

-----------------------------------------------------------------------------
\* How many ticks the command in the slot has waited, by CK_Back_Check's counters.
Age == repeat_cnt * (ResendTicks + 1) + time_dly

(* Every tick ages a command that goes on waiting by one, and nothing else   *)
(* does: no context, no answer and no clash of contexts can turn the         *)
(* counters of CK_Back_Check back under a raised dt.wait_ck.                 *)
WaitAges ==
    [][wait_ck /\ wait_ck' =>
          Age' = Age + (IF tick = "check" /\ tick' = "send" THEN 1 ELSE 0)]_vars

(* A resend interval more or less, whatever the counter.                     *)
LEMMA Interval ==
    ASSUME NEW r \in Nat, NEW k \in Nat
    PROVE  (r + 1) * k = r * k + k
OBVIOUS

(* Both counters are below their limits, and so is the age.                  *)
LEMMA AgeIsBounded ==
    ASSUME TypeOK
    PROVE  Age \in Nat /\ Age < RepeatLimit * (ResendTicks + 1)
<1>1. /\ repeat_cnt \in Nat /\ RepeatLimit \in Nat /\ repeat_cnt + 1 <= RepeatLimit
      /\ time_dly \in Nat /\ ResendTicks \in Nat /\ time_dly < ResendTicks + 1
  BY ConstantsAssumption DEF ConstantsAssumption, TypeOK
<1>2. PICK d \in Nat : RepeatLimit = (repeat_cnt + 1) + d
  <2>1. RepeatLimit - (repeat_cnt + 1) \in Nat
    BY <1>1
  <2>2. QED
    BY <1>1, <2>1
<1> DEFINE K == ResendTicks + 1
<1>3. K \in Nat /\ time_dly < K
  BY <1>1
<1>4. RepeatLimit * K = (repeat_cnt * K + K) + d * K
  <2>1. ((repeat_cnt + 1) + d) * K = (repeat_cnt + 1) * K + d * K
    BY <1>1, <1>3
  <2>2. QED
    BY <1>1, <1>2, <1>3, <2>1, Interval
<1>5. repeat_cnt * K \in Nat /\ d * K \in Nat
  BY <1>1, <1>3
<1> HIDE DEF K
<1>6. repeat_cnt * K + time_dly < RepeatLimit * K
  BY <1>1, <1>3, <1>4, <1>5
<1>7. QED
  BY <1>1, <1>5, <1>6 DEF Age, K

(* CK_Back_Check counts a tick or starts the next interval: a tick either way.*)
LEMMA CheckAges ==
    ASSUME TypeOK, TimCheck, wait_ck, wait_ck'
    PROVE  Age' = Age + 1
<1>1. repeat_cnt \in Nat /\ time_dly \in 0 .. ResendTicks /\ ResendTicks \in Nat
  BY ConstantsAssumption DEF ConstantsAssumption, TypeOK
<1>2. CASE Count
  <2>1. repeat_cnt' = repeat_cnt /\ time_dly' = time_dly + 1
    BY <1>2 DEF Count
  <2>2. QED
    BY <1>1, <2>1 DEF Age
<1>3. CASE Resend
  <2>1. repeat_cnt' = repeat_cnt + 1 /\ time_dly' = 0 /\ time_dly = ResendTicks
    BY <1>1, <1>3 DEF Resend, ResendDue
  <2>2. (repeat_cnt + 1) * (ResendTicks + 1)
           = repeat_cnt * (ResendTicks + 1) + (ResendTicks + 1)
    BY <1>1, Interval
  <2>3. QED
    BY <1>1, <2>1, <2>2 DEF Age
<1>4. QED
  BY <1>2, <1>3 DEF TimCheck, NothingAwaited, Abandon

(* The safety half of SlotIsFreed: a command waits for at most RepeatLimit   *)
(* intervals of ResendTicks + 1 ticks, whatever main, the USB interrupt, the *)
(* wires and the unit do.                                                    *)
THEOREM WaitingRunsOut ==
    Spec => WaitAges /\ [](Age < RepeatLimit * (ResendTicks + 1))
<1>1. TypeOK /\ [Next]_vars =>
         (wait_ck /\ wait_ck' =>
            Age' = Age + (IF tick = "check" /\ tick' = "send" THEN 1 ELSE 0))
  <2> SUFFICES ASSUME TypeOK, [Next]_vars, wait_ck, wait_ck'
               PROVE  Age' = Age + (IF tick = "check" /\ tick' = "send" THEN 1 ELSE 0)
    OBVIOUS
  <2>1. Age \in Nat
    BY AgeIsBounded
  <2>2. CASE TimCheck
    <3>1. tick = "check" /\ tick' = "send"
      BY <2>2 DEF TimCheck
    <3>2. QED
      BY <2>2, <3>1, CheckAges
  <2>3. CASE ~TimCheck
    <3>1. UNCHANGED <<repeat_cnt, time_dly>> /\ ~(tick = "check" /\ tick' = "send")
      BY <2>3 DEF Next, Tim, Begin, Store, UserForward, Admits, TimStart, TimTasksDone,
         TimReceive, TimReceiveDone, TimTestWTS, TimCopy, TimSend, ImuHear, Lose,
         vars, link
    <3>2. Age' = Age
      BY <3>1 DEF Age
    <3>3. QED
      BY <2>1, <3>1, <3>2
  <2>4. QED
    BY <2>2, <2>3
<1>2. TypeOK => Age < RepeatLimit * (ResendTicks + 1)
  BY AgeIsBounded
<1>3. QED
  BY <1>1, <1>2, TypeCorrect, PTL DEF WaitAges, Spec
==============================================================================

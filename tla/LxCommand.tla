------------------------------ MODULE LxCommand ------------------------------
(***************************************************************************)
(* The command link between the flight-control MCU and the LX inertial     *)
(* unit (FcSrc/ANO_DT_LX.c, FcSrc/LX_FC_Fun.c).                            *)
(*                                                                         *)
(* There is one slot for an outgoing 0xE0 command: its bytes dt.cmd_send,  *)
(* the "want to send" flag dt.fun[0xe0].WTS, the "awaiting the check" flag *)
(* dt.wait_ck and the checksum dt.ck_back the answer is compared with.     *)
(* Three contexts fill it, each by the same test-then-write, and nothing   *)
(* masks interrupts around it:                                             *)
(*                                                                         *)
(*   main   the background loop (UserTask_OneKeyCmd, every 20 ms)          *)
(*   tim    the TIM7 interrupt (ANO_LX_Task, every ms), over main          *)
(*   usb    the USB interrupt (UserCom_DataAnl, option 0x01), over both    *)
(*                                                                         *)
(* A context of a lower priority is suspended between two of its stores    *)
(* while a higher one runs to completion.  tim also owns the link: in      *)
(* every tick it reads the answers, counts towards the next resend and     *)
(* transmits.  The unit behind the UART is external: it answers each frame *)
(* it hears with the checksum of that frame.                               *)
(***************************************************************************)
EXTENDS Naturals, Sequences

CONSTANTS
    MainCmd,      \* commands the background loop issues
    TimCmd,       \* commands the TIM7 interrupt issues
    UserCmd,      \* commands the companion computer has forwarded
    NoCmd,        \* no command: the bytes of a zeroed slot
    ResendTicks,  \* 50: ticks CK_Back_Check counts before it resends
    RepeatLimit,  \* 5: CK_Back_Check gives up at this count
    MaxWire,      \* frames or answers under way on one direction of the UART
    Lossy,        \* TRUE: a frame or an answer may be lost or corrupted
    PromptAck     \* TRUE: an answer comes within the resend interval or never

Cmd == MainCmd \cup TimCmd \cup UserCmd

ASSUME ConstantsAssumption ==
    /\ NoCmd \notin Cmd
    /\ ResendTicks \in Nat \ {0}
    /\ RepeatLimit \in Nat \ {0}
    /\ MaxWire \in Nat
    /\ Lossy \in BOOLEAN
    /\ PromptAck \in BOOLEAN

VARIABLES
    slot,        \* dt.cmd_send: whose CID byte and whose CMD bytes it holds
    wts,         \* dt.fun[0xe0].WTS
    wait_ck,     \* dt.wait_ck
    ck_back,     \* dt.ck_back: the frame whose checksum it is
    time_dly,    \* CK_Back_Check's static counter
    repeat_cnt,  \* the resends of the command in the slot
    iss,         \* the issuer main or tim is inside: its command, its stores to come
    tick,        \* where the TIM7 handler is
    frame,       \* send_buffer: the command bytes Frame_Send has copied
    toImu,       \* frames on the wire to the unit
    fromImu,     \* answers on the wire from the unit
    clash,       \* history: a context wrote the slot before another was done with it
    sends,       \* history: transmissions since the slot was last written
    heard,       \* history: the unit has heard the command that is in the slot
    answered,    \* history: its answer was read after it was put in the slot
    early        \* history: it was transmitted before it was awaited

link == <<wts, wait_ck, ck_back, time_dly, repeat_cnt>>
wires == <<toImu, fromImu>>
hist == <<clash, sends, heard, answered, early>>
vars == <<slot, link, iss, tick, frame, wires, hist>>

Contexts == {"main", "tim"}
SlotStores == {"cid", "body"}    \* dt.cmd_send.CID = ...; dt.cmd_send.CMD[i] = ...
SendStores == {"wts", "wait"}    \* CMD_Send's two flags
Stores == SlotStores \cup SendStores
Ticks == {"idle", "tasks", "uart", "check", "send", "cid", "body", "out"}

Bytes == Cmd \cup {NoCmd}
Frames == [cid : Bytes, body : Bytes]
Whole(c) == [cid |-> c, body |-> c]
NoFrame == Whole(NoCmd)
Intact(f) == f.cid = f.body

Free == [cmd |-> NoCmd, todo |-> {}]
Busy(ctx) == iss[ctx].cmd # NoCmd

TypeOK ==
    /\ slot \in Frames
    /\ wts \in BOOLEAN
    /\ wait_ck \in BOOLEAN
    /\ ck_back \in Frames
    /\ time_dly \in 0 .. ResendTicks
    /\ repeat_cnt \in 0 .. RepeatLimit - 1
    /\ iss \in [Contexts -> [cmd : Bytes, todo : SUBSET Stores]]
    /\ tick \in Ticks
    /\ frame \in Frames
    /\ toImu \in Seq(Frames)
    /\ fromImu \in Seq(Frames)
    /\ clash \in BOOLEAN
    /\ sends \in Nat
    /\ heard \in BOOLEAN
    /\ answered \in BOOLEAN
    /\ early \in BOOLEAN

Init ==
    /\ slot = NoFrame
    /\ wts = FALSE
    /\ wait_ck = FALSE
    /\ ck_back = NoFrame
    /\ time_dly = 0
    /\ repeat_cnt = 0
    /\ iss = [ctx \in Contexts |-> Free]
    /\ tick = "idle"
    /\ frame = NoFrame
    /\ toImu = <<>>
    /\ fromImu = <<>>
    /\ clash = FALSE
    /\ sends = 0
    /\ heard = FALSE
    /\ answered = FALSE
    /\ early = FALSE

-----------------------------------------------------------------------------
(* The issuers of LX_FC_Fun.c.                                             *)

CmdsOf(ctx) == IF ctx = "main" THEN MainCmd ELSE TimCmd

\* main runs between two ticks, the tasks of tim at the head of a tick.
Running(ctx) == tick = IF ctx = "main" THEN "idle" ELSE "tasks"

\* tim is transmitting: between the test of WTS and the store of the checksum.
Copying == tick \in {"cid", "body", "out"}

\* tim has read the answer to a command and not yet reset its counters.
Unsettled == ~wait_ck /\ (time_dly # 0 \/ repeat_cnt # 0)

\* dt.wait_ck is clear, and still the slot is in use: a command in it is to
\* be transmitted or is being, or another context has passed the test.
InUse(others) ==
    wts \/ Copying \/ Unsettled \/ \E ctx \in others : Busy(ctx)

AdmitsMutant == TRUE    \* the test left out

\* The test "if (dt.wait_ck == 0)" at the head of every issuer.
Admits == ~wait_ck

\* A refused command returns 0: a step that changes nothing of this model.
Begin(ctx, c) ==
    /\ Running(ctx)
    /\ ~Busy(ctx)
    /\ Admits
    /\ iss' = [iss EXCEPT ![ctx] = [cmd |-> c, todo |-> Stores]]
    /\ clash' = (clash \/ InUse(Contexts \ {ctx}))
    /\ UNCHANGED <<slot, link, tick, frame, wires, sends, heard, answered,
                   early>>

InOrderMutant(ctx, s) == TRUE    \* CMD_Send before the bytes are complete

\* A compiler may order the bytes of the command as it likes, and the two
\* flags; CMD_Send is a function of another file, so it comes after the bytes.
InOrder(ctx, s) == s \in SendStores => iss[ctx].todo \subseteq SendStores

\* One of the stores that follow the test.
Store(ctx, s) ==
    LET c == iss[ctx].cmd
        rest == iss[ctx].todo \ {s}
    IN /\ Running(ctx)
       /\ Busy(ctx)
       /\ s \in iss[ctx].todo
       /\ InOrder(ctx, s)
       /\ iss' = [iss EXCEPT ![ctx] = IF rest = {} THEN Free
                                      ELSE [cmd |-> c, todo |-> rest]]
       /\ slot' = CASE s = "cid" -> [slot EXCEPT !.cid = c]
                    [] s = "body" -> [slot EXCEPT !.body = c]
                    [] OTHER -> slot
       /\ wts' = (wts \/ s = "wts")
       /\ wait_ck' = (wait_ck \/ s = "wait")
       /\ sends' = IF s \in SlotStores THEN 0 ELSE sends
       /\ heard' = (heard /\ s \in SendStores)
       /\ answered' = (answered /\ s \in SendStores)
       /\ early' = (early /\ s \in SendStores)
       /\ UNCHANGED <<ck_back, time_dly, repeat_cnt, tick, frame, wires, clash>>

\* Option 0x01 of UserCom_DataAnl: the whole test and all its stores in the
\* USB interrupt, wherever main and tim stand.  A busy slot drops the command.
UserForward(c) ==
    /\ Admits
    /\ slot' = Whole(c)
    /\ wts' = TRUE
    /\ wait_ck' = TRUE
    /\ clash' = (clash \/ InUse(Contexts))
    /\ sends' = 0
    /\ heard' = FALSE
    /\ answered' = FALSE
    /\ early' = FALSE
    /\ UNCHANGED <<ck_back, time_dly, repeat_cnt, iss, tick, frame, wires>>

-----------------------------------------------------------------------------
(* One tick of the TIM7 interrupt, ANO_LX_Task.                            *)

ResendDueMutant == wait_ck /\ time_dly > ResendTicks

ResendDue == wait_ck /\ time_dly >= ResendTicks

\* A resend interval is long for main too: main has left the few instructions
\* between its test and the end of CMD_Send before the interval ends.
TimStart ==
    /\ tick = "idle"
    /\ wait_ck /\ Busy("main") => time_dly + 1 < ResendTicks
    /\ tick' = "tasks"
    /\ UNCHANGED <<slot, link, iss, frame, wires, hist>>

TimTasksDone ==
    /\ tick = "tasks"
    /\ ~Busy("tim")
    /\ tick' = "uart"
    /\ UNCHANGED <<slot, link, iss, frame, wires, hist>>

\* DrvUartDataCheck: an answer that has arrived by now.
TimReceive ==
    /\ tick = "uart"
    /\ fromImu # <<>>
    /\ fromImu' = Tail(fromImu)
    /\ wait_ck' = (wait_ck /\ Head(fromImu) # ck_back)
    /\ answered' = (answered \/ Head(fromImu) = slot)
    /\ UNCHANGED <<slot, wts, ck_back, time_dly, repeat_cnt, iss, tick, frame,
                   toImu, clash, sends, heard, early>>

TimReceiveDone ==
    /\ tick = "uart"
    /\ ResendDue /\ PromptAck => toImu = <<>> /\ fromImu = <<>>
    /\ tick' = "check"
    /\ UNCHANGED <<slot, link, iss, frame, wires, hist>>

\* CK_Back_Check, by its branches.
LastTryMutant == repeat_cnt + 1 > RepeatLimit
EarlyTryMutant == repeat_cnt + 2 >= RepeatLimit

LastTry == repeat_cnt + 1 >= RepeatLimit

NothingAwaited ==
    /\ ~wait_ck
    /\ time_dly' = 0
    /\ repeat_cnt' = 0
    /\ UNCHANGED <<wts, wait_ck>>

Count ==
    /\ wait_ck /\ ~ResendDue
    /\ time_dly' = time_dly + 1
    /\ UNCHANGED <<wts, wait_ck, repeat_cnt>>

Resend ==
    /\ ResendDue /\ ~LastTry
    /\ time_dly' = 0
    /\ repeat_cnt' = repeat_cnt + 1
    /\ wts' = TRUE
    /\ UNCHANGED wait_ck

AbandonMutant ==    \* the resends end, the wait goes on
    /\ ResendDue /\ LastTry
    /\ time_dly' = 0
    /\ UNCHANGED <<wts, wait_ck, repeat_cnt>>

Abandon ==
    /\ ResendDue /\ LastTry
    /\ time_dly' = 0
    /\ repeat_cnt' = 0
    /\ wait_ck' = FALSE
    /\ UNCHANGED wts

TimCheck ==
    /\ tick = "check"
    /\ tick' = "send"
    /\ NothingAwaited \/ Count \/ Resend \/ Abandon
    /\ UNCHANGED <<slot, ck_back, iss, frame, wires, hist>>

\* Check_To_Send(0xe0) and Frame_Send: the flag is cleared, the bytes are
\* copied, the checksum is kept if the command still awaits its answer.
TimTestWTS ==
    /\ tick = "send"
    /\ tick' = IF wts THEN "cid" ELSE "idle"
    /\ wts' = FALSE
    /\ UNCHANGED <<slot, wait_ck, ck_back, time_dly, repeat_cnt, iss, frame,
                   wires, hist>>

TimCopy ==
    /\ \/ tick = "cid"  /\ frame' = [frame EXCEPT !.cid = slot.cid]   /\ tick' = "body"
       \/ tick = "body" /\ frame' = [frame EXCEPT !.body = slot.body] /\ tick' = "out"
    /\ UNCHANGED <<slot, link, iss, wires, hist>>

Put(wire, f) == IF Len(wire) < MaxWire THEN Append(wire, f) ELSE wire

KeepsChecksumMutant == wait_ck /\ repeat_cnt > 0    \* of resends only

KeepsChecksum == wait_ck

TimSend ==
    /\ tick = "out"
    /\ tick' = "idle"
    /\ ck_back' = IF KeepsChecksum THEN frame ELSE ck_back
    /\ toImu' = Put(toImu, frame)
    /\ sends' = sends + 1
    /\ early' = (early \/ ~wait_ck)
    /\ UNCHANGED <<slot, wts, wait_ck, time_dly, repeat_cnt, iss, frame, fromImu,
                   clash, heard, answered>>

Tim ==
    \/ TimStart \/ TimTasksDone
    \/ \E c \in TimCmd : Begin("tim", c)
    \/ \E s \in Stores : Store("tim", s)
    \/ TimReceive \/ TimReceiveDone \/ TimCheck
    \/ TimTestWTS \/ TimCopy \/ TimSend

-----------------------------------------------------------------------------
(* The inertial unit and the UART.                                         *)

ImuHear ==
    /\ toImu # <<>>
    /\ toImu' = Tail(toImu)
    /\ fromImu' = Put(fromImu, Head(toImu))
    /\ heard' = (heard \/ Head(toImu) = slot)
    /\ UNCHANGED <<slot, link, iss, tick, frame, clash, sends, answered, early>>

Lose ==
    /\ Lossy
    /\ \/ toImu # <<>> /\ toImu' = Tail(toImu) /\ UNCHANGED fromImu
       \/ fromImu # <<>> /\ fromImu' = Tail(fromImu) /\ UNCHANGED toImu
    /\ UNCHANGED <<slot, link, iss, tick, frame, hist>>

Next ==
    \/ \E c \in MainCmd : Begin("main", c)
    \/ \E s \in Stores : Store("main", s)
    \/ \E c \in UserCmd : UserForward(c)
    \/ Tim
    \/ ImuHear
    \/ Lose

Spec == Init /\ [][Next]_vars

\* The timer interrupt keeps firing and its handler runs to its end, and so
\* does a command main has begun; what is on the UART arrives or is lost.  No
\* context is obliged to issue anything.
Fairness ==
    /\ WF_vars(Tim)
    /\ WF_vars(\E s \in Stores : Store("main", s))
    /\ WF_vars(ImuHear)

FairSpec == Spec /\ Fairness

-----------------------------------------------------------------------------
(* Properties.                                                             *)

(* A frame on the UART is one command, never the CID of one and the body   *)
(* of another, unless two contexts were in the slot at once: the guard     *)
(* "if (dt.wait_ck == 0)" of LX_FC_Fun.c keeps commands apart except in    *)
(* the window between the guard and CMD_Send.                              *)
WireIntact ==
    clash \/ \A i \in 1 .. Len(toImu) : Intact(toImu[i])

(* A command is transmitted at most RepeatLimit times before it is given   *)
(* up (CK_Back_Check), unless two contexts met in the slot.                *)
RetryBudget == clash \/ sends <= RepeatLimit

(* "Only send this CMD when no other CMD awaits its check" (LX_FC_Fun.c):  *)
(* the slot is never rewritten under a command that still awaits its       *)
(* answer, whatever runs between the test and the writes.                  *)
NoOverwrite == [][slot' # slot => ~wait_ck]_vars

(* The same, up to the race the model names.                               *)
NoOverwriteUnlessClash == [][slot' # slot => ~wait_ck \/ clash]_vars

(* When an answer ends the wait, the unit has heard the command that is in *)
(* the slot: "the command is resent until it has been sent" (the comment   *)
(* above CK_Back_Check).                                                   *)
AnswerIsForThisCommand ==
    [][tick = "uart" /\ wait_ck /\ ~wait_ck' => heard \/ clash]_vars

(* CK_Back_Check gives a command up after all its transmissions, not       *)
(* earlier: "resent continually, every 50 ms" (the same comment).          *)
GiveUp == tick = "check" /\ wait_ck /\ ~wait_ck'

GiveUpAfterAllSends == [][GiveUp => sends = RepeatLimit]_vars

(* The same, up to the races the model names.                              *)
GiveUpAfterAllSendsUnlessClash ==
    [][GiveUp => sends = RepeatLimit \/ clash]_vars

(* "A command that was not sent successfully is resent" (the same comment):*)
(* one whose answer has been read is not, but for two cases.  Contexts     *)
(* clash in the slot; or the tick falls between the two flags of CMD_Send  *)
(* and transmits a command that is not awaited yet, so that Frame_Send     *)
(* does not keep its checksum and its answer cannot end the wait.          *)
ResendOnlyUnansweredUnlessEarly ==
    [][repeat_cnt' > repeat_cnt => ~answered \/ clash \/ early]_vars

\* The command in the slot: of the context that passed the test, or unconfirmed.
Holder ==
    IF Busy("main") THEN iss["main"].cmd
    ELSE IF Busy("tim") THEN iss["tim"].cmd
    ELSE IF wait_ck THEN slot.body
    ELSE NoCmd

\* ctx has passed the test and not yet written all of its command.
Writing(ctx) == Busy(ctx) /\ iss[ctx].todo \cap SlotStores # {}

\* The history belongs to the command that is in the slot.
Filled == Holder # NoCmd /\ \A ctx \in Contexts : ~Writing(ctx)

Slot == INSTANCE CommandSlot WITH
    Command <- Cmd,
    None <- NoCmd,
    Limit <- RepeatLimit,
    holder <- Holder,
    tries <- IF Filled THEN sends ELSE 0,
    heard <- Filled /\ heard,
    broken <- clash

(* What every issuer relies on: a free slot takes one command, it is free    *)
(* again when the unit has heard that command and its answer was read, or    *)
(* after all its transmissions (CMD_Send, CK_Back_Check), unless two contexts*)
(* met in the slot.                                                          *)
ImplementsSlot == Slot!SSpec

(* Whatever the unit does, the slot is given back again and again: a dead  *)
(* unit cannot block the commands of every context for ever.               *)
SlotIsFreed == []<>(~wait_ck)

-----------------------------------------------------------------------------
(* The inductive invariant behind WireIntact, RetryBudget and              *)
(* NoOverwriteUnlessClash.                                                 *)

IssuerOK(ctx) ==
    /\ Busy(ctx) <=> iss[ctx].todo # {}
    /\ iss[ctx].todo \cap SlotStores # {} => SendStores \subseteq iss[ctx].todo

\* Transmissions the slot still owes: one if WTS is up, one if under way.
Owed == (IF wts THEN 1 ELSE 0) + (IF Copying THEN 1 ELSE 0)

SlotInv ==
    /\ ~(Busy("main") /\ Busy("tim"))
    /\ \A ctx \in Contexts :
          /\ Writing(ctx) => ~wts /\ ~wait_ck /\ ~Copying
          /\ Busy(ctx) /\ "cid" \notin iss[ctx].todo => slot.cid = iss[ctx].cmd
          /\ Busy(ctx) /\ "body" \notin iss[ctx].todo => slot.body = iss[ctx].cmd
    /\ (\A ctx \in Contexts : ~Writing(ctx)) => Intact(slot)
    /\ tick = "body" => frame.cid = slot.cid
    /\ tick = "out" => Intact(frame)
    /\ \A i \in 1 .. Len(toImu) : Intact(toImu[i])

BudgetInv ==
    /\ sends + Owed <= RepeatLimit
    /\ wait_ck => sends + Owed <= repeat_cnt + 1
    /\ \A ctx \in Contexts :
          /\ Busy(ctx) => repeat_cnt = 0
          /\ Busy(ctx) /\ ~Writing(ctx) =>
                sends + Owed <= IF "wts" \in iss[ctx].todo THEN 0 ELSE 1
    /\ wait_ck /\ Busy("main") /\ tick \in {"tasks", "uart", "check"} =>
          time_dly < ResendTicks

Inv ==
    /\ TypeOK
    /\ \A ctx \in Contexts : IssuerOK(ctx)
    /\ Busy("tim") => tick = "tasks"
    /\ clash \/ (SlotInv /\ BudgetInv)
==============================================================================

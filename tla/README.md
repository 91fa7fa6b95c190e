# A verification project for DDDDDDRONE

This directory specifies, in TLA+, the parts of the drone's software whose
correctness depends on timing: interrupts that share state, frames that are lost
or repeated, watchdogs, queues and threads.  TLC checks small instances of each
module, TLAPS proves the central safety properties for every value of the
constants.

## 1. The system (inventory)

The vehicle carries two computers and a closed inertial unit; a ground station
and, in the rescue task, a car talk to it over an HC-14 radio.

| component | source | state it keeps | operations | speaks with |
|---|---|---|---|---|
| LX command link | `FcSrc/ANO_DT_LX.c`, `FcSrc/LX_FC_Fun.c` | the one command slot `dt.cmd_send`, `dt.fun[].WTS`, `dt.wait_ck`, `dt.ck_back`, resend counters | the issuers `FC_Unlock` ... `OneKey_Stable`, `CMD_Send`, `CK_Back_Check`, `Check_To_Send`, the receive parser | inertial unit over UART |
| companion link | `FcSrc/User_Com.c` | `user_connected`, heartbeat and realtime counters, acknowledgement buffer, pod, PWM | `UserCom_DataAnl` (USB interrupt), `UserCom_Task` (timer interrupt) | companion over USB, command link, `rt_tar` |
| pilot input, flight state | `FcSrc/ANO_LX.c`, `FcSrc/LX_FC_State.c`, `DriversBsp/Drv_BSP.c`, `FcSrc/User_Task.c` | `rc_in`, `rt_tar`, mode, latches | `DrvRcInputTask`, `RC_Data_Task`, `LX_FC_State_Task`, `UserTask_OneKeyCmd` | command link |
| sensors | `FcSrc/LX_FC_EXT_Sensor.c`, `DriversBsp/Drv_AnoOf.c`, `FcSrc/LD_Radar.c` | last values, online counters | source selection, checks | frames 0x30-0x34 |
| wireless bridge, screen | `FcSrc/Wireless_Com.c`, `FcSrc/Uart_Screen.c` | parser state | envelope in, envelope out | HC-14, companion |
| USB output, UART rings | `FcSrc/cdc_acm.c`, `Drivers/Drv_Uart.c` | transmit list, rings | append, drain | companion |
| SDK, transport | `FlightController/Base.py`, `Serial.py` | acknowledgement table, events, state | send with acknowledgement and retry, listen thread, heartbeat | flight controller |
| FleetBus endpoint | `fleet_bus/air_node.py`, `protocol.py`, `command_queue.py` | inbox, response cache, command queue, stop event, status | `feed_bytes`, worker `_run`/`_handle`/`_command`, queue | ground, mission thread |
| rescue task receiver | `fleet_bus/rescue_task.py` | bound session and run, task, quota, phases | CLOSE, REMAP, TASK, START, STOP | FleetBus worker, payload, remap thread |
| pose trace | `fleet_bus/trace_buffer.py` | sample ring, cursors | record, report, drain | FleetBus worker, sampler thread |
| mission | `rescue_drop_2026.py` and its helpers | phase, quotas, payload ledger | fly, recognise, drop, return | SDK, navigation, receiver |
| navigation, vision | `FlightController/Solutions`, `Components` | pose, plans, PID state | continuous control | SDK |

Contexts on the flight controller: the main loop (`Scheduler_Run`), the TIM7
interrupt every millisecond over it (`ANO_LX_Task`; its 10 ms part runs the
pilot, state and companion tasks), and the USB interrupt of a higher priority
over both.  Nothing masks interrupts, so every test-then-write on shared state
can be split by a higher context, never by a lower one.  On the companion the
contexts are Python threads: transport callback, FleetBus worker, mission
thread, sampler, remap thread.

What makes each part hard, and what would make it correct:

* **command link**: three contexts test `dt.wait_ck` and then fill one slot;
  the answer is matched by a checksum only.  Correct: frames hold one command, a
  waiting command is not overwritten, an answer ends only the wait it belongs
  to, retries are bounded, the slot always becomes free.
* **realtime control**: two watchdogs, a transmitter and a USB stream write the
  same targets.  Correct: when the stream stops, motion stops, and the unit is
  told so.
* **FleetBus endpoint**: loss, repetition, restarts of the ground program, full
  queues, a mission thread that may not return.  Correct: one verdict per
  request, at most one hand-over, STOP always takes effect.
* **rescue task receiver**: a dialogue of several commands with a worker
  thread in between; a repeated or late command must not redo or undo a step.
* **SDK acknowledgements**: 8-bit checksums as keys, retries, a buffer filled
  by one interrupt and drained by another.
* **pose trace**: a ring that overwrites, a cursor from outside.

`PROJECT.json` lists the hazards line by line.

## 2. The modules

| module | what it is |
|---|---|
| `CommandSlot` | abstract: what an issuer may rely on about the one command slot |
| `LxCommand` | the command link, its three issuing contexts and the UART; implements `CommandSlot` |
| `LxCommand_proofs` | theorems about it, the refinement among them |
| `RealtimeControl` | velocity targets, transmitter masking, both watchdogs, frame 0x41 |
| `RealtimeControl_proofs` | theorems about it |
| `CommandLedger` | abstract: what a ground program may rely on about its requests |
| `FleetNode` | the FleetBus endpoint; implements `CommandLedger` |
| `FleetNode_proofs` | theorems about it, the refinement among them |
| `StartAgreement` | abstract: what cars and the operator may rely on about a start |
| `RescueTask` | the rescue task receiver with its worker, rebuild and main threads; implements `StartAgreement` |
| `RescueTask_proofs` | theorems about it, the refinement among them |
| `TraceLog` | abstract: what a ground program's copy of the pose trace may look like |
| `TraceBuffer` | the sample ring, the sampler, the drain, the cursor's way; implements `TraceLog` |
| `TraceBuffer_proofs` | theorems about it, the refinement among them |
| `AckChannel` | acknowledged sends of the SDK against the controller's stack of keys |
| `AckChannel_proofs` | theorems about it |
| `Pilot` | the transmitter's switches and gestures on the shared command slot |
| `Pilot_proofs` | theorems about it |
| `MC*` | instances for TLC |

How they fit: `LxCommand` is the command slot in detail; `Pilot` uses it as a slot
that is taken and then confirmed or given up, which is what `CommandSlot` promises
(`ImplementsSlot`) and `SlotIsFreed` completes.  `AckChannel` carries the companion's commands to option
0x01, which is `UserForward` in `LxCommand`, and the control frames whose effect is
`RealtimeControl`.  `FleetNode` and `TraceBuffer` are two halves of one endpoint
that share the worker thread and the response cache only; `RescueTask` is what
stands behind `FleetNode`'s commands in the rescue task.

### LxCommand and CommandSlot

`CommandSlot` promises: a free slot takes one command; it is free again when the
unit has heard that command, or after exactly its `Limit` transmissions; once
contexts have met in the slot (`broken`) nothing is promised.  The mapping:
`Holder` is the command of the context that has passed the test, or else the one
in `dt.cmd_send` while `dt.wait_ck` is raised; transmissions and hearing are
those of `sends` and `heard` once the holder has written its bytes (`Filled`),
because until then both still belong to the command before.  A slot is taken at
the test, not at `CMD_Send`: that is what the guards of the issuers are meant to
achieve, and the window in between is `clash`.

`slot` is `dt.cmd_send` split into the CID byte and the rest, because that is
what can be torn: the bytes of a command are model values, its identity.
`Begin(ctx, c)` is the test `if (dt.wait_ck == 0)` of an issuer in the main loop
or in a 10 ms task, `Store(ctx, s)` one of the stores that follow; a compiler
may order the byte stores freely but not move them behind the call of
`CMD_Send`, whose own two stores are free as well.  `UserForward` is option 0x01
of the USB protocol, run to completion wherever the others stand.  `Tim*`
actions follow a tick in program order: tasks, `DrvUartDataCheck`,
`CK_Back_Check` (`NothingAwaited`, `Count`, `Resend`, `Abandon`),
`Check_To_Send(0xe0)` and `Frame_Send` byte group by byte group.  The unit is
external: it answers what it hears, wires drop frames if `Lossy`.

`clash` is a history variable: it becomes true when a context enters the slot
while another is between its test and its stores, while a transmission is under
way, or before the counters of an answered command were reset.  Properties that
end in `UnlessClash` say that this window is the *only* way to break them;
`NoOverwrite` and `GiveUpAfterAllSends` state the comments of the source without
the excuse, and TLC refutes them.

`early` is another: the command in the slot was transmitted while `wait_ck` was
still clear.  Only main can be caught so, when the tick comes between the two flags
of `CMD_Send`: `Frame_Send` keeps the checksum only of a command that is awaited
(`KeepsChecksum`), the answer to that first frame matches nothing, and the command is
resent although it was answered.  `ResendOnlyUnansweredUnlessEarly` excuses this case
by name; without the excuse TLC finds it as soon as main issues one command.

`PromptAck` is an assumption about the unit: it answers within the resend
interval (50 ms) or not at all.  Without it a late answer to a resend can end
the wait of a later, equal command, since the answer carries no sequence number.
`TimStart` assumes that the main loop is not suspended for a whole resend
interval between its test and `CMD_Send`.  `ResendTicks` is at least 1: at 0 a
command would be resent in the tick that sends it.

### RealtimeControl

One step per access to memory that the USB interrupt also writes.  Velocities
are "moving" or "at rest", the yaw rate is the party that asked for it, which is
what the properties tell apart.  `Beat`/`BeatStore` and `Watch`/`WatchStore`
split the increments of the counters into load and store.  The order of stores
inside one C function is taken as written.  `quiet` counts ticks since the last
control frame and `cut` remembers that the heartbeat watchdog switched off an
armed control watchdog.  `OneKey_Stable`, which the heartbeat branch also calls,
is one of the issuers of `LxCommand`.

### FleetNode and CommandLedger

`CommandLedger` promises: a request is judged once; every reply carries that
verdict; only an accepted command reaches the mission, and once.  `FleetNode`
has the ground program (external: sessions, sequence numbers, repetition until
an answer or giving up, restart with a new session), the radio (bounded, loses
frames either way, keeps their order), another node's frames, the transport
callback `FeedBytes`, the worker and the mission thread.  The worker's `put` and
`accept` are separate steps because the mission thread runs between them.  The
command kinds are classes of the branches of `_command`: `poll` stands for the
requests that are only reported on, `goto` for a command that needs a position,
`start` for one that does not.  `verdict`, `told` and `taken` are history
variables; with them the refinement mapping is the identity.

Assumed: one ground program sends with the controller's node number at a time.
Two at once, with a session each, would clear each other's cache.

### RescueTask and StartAgreement

One action per command of `RescueFleetNode`, split where a thread can come
between: `CloseBegin` binds the run, `CloseDoors` moves the doors (or only looks
at them in the `prepared` mode, where the operator has closed them and
`_preflight_result` is given), `CloseEnd` reads the stop event again;
`StartBegin` passes the tests of `request_start`, `StartEnd` comes after the
validation of the release plan, during which the worker holds the condition
(`ConditionFree`); `StopSet` is the event, `StopCancel` what follows under the
condition.  The thread of `_rebuild` has a step per read of the stop event and one
for the call of the restart (`RebuildCall`): between the read and the call the
navigation may be started, and a STOP may run from beginning to end there.  The
main thread looks for the start every 0.1 s, so its waiting is a test that is
taken again; its way out (`MainEnd`) and SIGTERM (`Signal`) set the stop event at
any moment.  Refusals and failures that change nothing are left out; an answer
that says "done" or "accepted" is put into the history `told`, except a REMAP's
ACCEPTED, which promises nothing, and a TASK's COMPLETED, which promises nothing that
lasts: until the start, another TASK replaces the saved one, also another car's.
`doors` is what the commands can tell: a
failed write leaves it open, closed or unsure.  Repetition and loss of requests
are in `FleetNode`; here any request may come at any time, from two sessions.

`StartAgreement` is the dialogue without threads: a run is bound, its doors are
closed, the map is made, a task is saved, the start is taken, for one car and in
this order; nothing reached is undone or done for another car, and a STOP ends the
dialogue for good, with one exception: a restart of FAST-LIO that is about to be
called (`committed`) when STOP comes is still called.  `_rebuild` reads the stop
event at line 103 and calls at line 107; a STOP in between is answered, the map is
cancelled, and FAST-LIO is restarted all the same, once.  No map comes of it, and no
restart is decided on after the STOP (`Commit`).  `told` holds only what is so (`Repeat` is a car that asks
again).  `Stage` reads how far it has come from `_started`, `remap_state`,
`close_done` and `run_id`; where the threads stand is hidden.  So a close that
fails, a start that is refused by the plan, and a rebuild that fails are stutters
or moves of the doors, and the step of `StartEnd` is `TakeStart` although nothing
but the release plan is looked at in it: the proof has to show that what
`StartBegin` found still holds.

A start can overtake the stop event: when SIGTERM comes while the plan is
validated, START is answered ACCEPTED and only `wait_for_start` refuses it.  That
is why `StartIsAgreed` speaks of the agreement and not of the stop event.

### TraceBuffer and TraceLog

`TraceLog` promises: the ground's copy has every sample up to its cursor under its
own number, except those it was told are gone, and a sample is gone only when
`Capacity` younger ones were recorded.  `TraceBuffer` has the buffer (`Record` is
`_sample_once` and `record` in one, both under the buffer's lock), the sampler
thread and its stop event, the worker (`Take`, `Observe`, `Reply`, split where the
lock is let go) and `wait_for_trace_drain` (`DrainBegin`, `DrainJoin`,
`DrainConfirm`, `DrainTimeout`).  A pose is what `build_report` can tell of it: a
clock that went back, too soon after the last one, within or out of reach of a
delta.  The air process may restart at any moment (`AirRestart`), the ground may
give up or restart (`GroundFault`), and a request of any earlier cursor may arrive
late (`TakeLate`).

Assumed: a new trace session never repeats an old one (it is a random number); the
ground has one request under way and trusts the flags of its answer.  The `join` of
the sampler has a time limit of a second and may expire while the sampler is at its
last sample: `CursorIsFinal` allows for that one sample, and `CatchesUp` for the
stream it may begin.  MORE_PENDING only says that asking again is worth while and is
left out.

### AckChannel

`thread` holds the calls of `send_data_to_fc`, step by step: `Register` stores the
event and tests the retries, `Write` or `WriteFails`, `Look` finds the event under
the key again, `Wait` returns with the event set or after the time-out, `Pop`
removes the entry.  The listener is one step (`Receive`): an event it sets after its
caller has given up is held by nobody, which is the same as a lost key.  On the
controller `DataAnl` is the USB interrupt and the three steps of `CheckAck` are those
it may come between: the count is read, stored less one, and the byte at that index
read out; the index is held in a register, as the optimised build does.  `downlink` is
a set of keys from which each may be taken more than once, late, or never: that is
the transmit list of `cdc_acm.c` (last in, first out, its count shared by two
interrupts) and every frame that `SendEvent` and `CheckAck` spoil for each other in
`data_to_send`.  An event that neither the dictionary nor a call holds can be used
again.

`due` and `shared` are history variables: an acknowledgement of that key was already
under way, or the frame was carried out, since the call began; another thread was in
a call with the same key.  What `AckMeansHeard` excuses is what an 8-bit sum cannot
tell apart.

### Pilot

`RcInput`, `ChangeMode`, `ReturnHome` and `Gesture` are the steps of one 10 ms round
of the TIM7 task, in its order; `UserBegin`, `UserLand`, `UserTakeoff` and `UserStop`
are the reads of `UserTask_OneKeyCmd` in the main loop, which the round may come
between (`UserTakeoff` reads channel 6 again; a build that keeps it in a register is
the case in which no round comes between).  Channels are bands.  `fail_safe` has two
causes that differ here: a lost signal zeroes the channels, a fail-safe band of
channels 5 or 8 leaves them.  Channel 8's masking of the sticks is a centred stick.
The uninitialised `tmp` of `RC_Data_Task` is a choice.  `Hold` follows what the unit
last reported (frame 0x06), which may lag behind its state.  The companion takes the
same slot at any time it is free (`OtherCommand`), the unit confirms (`Deliver`) or
the command is given up (`GiveUp`).

`seen` is history: what the pilot did, counted apart from the code's own counters.
The properties excuse by name what the code does not prevent: a channel that is
zeroed between the test of `fail_safe` and its reading (`torn`), a return-home count
that outlived its window (`kept`), a mode that was given up and so is never asked for
again, or that the companion chose (`astray`), and an emergency lock that was refused or
given up (`missed`: `FC_Lock`'s answer is not looked at).  Apart from that they
hold.

## 3. What is checked

| run | instance | shows |
|---|---|---|
| `lx_all` | one command per context, resend after 2 ticks, 2 transmissions, one frame on a wire, losses | type, `WireIntact`, `NoOverwriteUnlessClash`, `AnswerIsForThisCommand`, `GiveUpAfterAllSendsUnlessClash`, `ImplementsSlot` |
| `lx_resends` | main and USB issue, 3 transmissions, fairness | `ResendOnlyUnansweredUnlessEarly`, `SlotIsFreed` |
| `lx_overwrite` | main and timer, no losses | `NoOverwrite` is violated |
| `lx_giveup` | USB only | `GiveUpAfterAllSends` is violated |
| `realtime` | two axes (symmetric), timeouts of 3 ticks | type, `StopsWhenSilentUnlessCut`, `UnitStopsWhenSilentUnlessCut`, `MovingIsWatched`, `TurnStopsUnlessCut` |
| `realtime_silence` | the same | `StopsWhenSilent` is violated |
| `fleet_ledger` | two sessions of two requests, foreign frames, inbox and queue of one | type, `ImplementsLedger` |
| `fleet_stop` | three requests, queue of two, fairness of the worker | `StopTakesEffect`, `InTurn`, `StopIsHeard` |
| `rescue` | two sessions, two runs, two tasks, both modes | type, `StartIsAgreed`, `ToldIsTrue`, `AgreementStands`, `OneRestart`, `ImplementsAgreement`, `WaitEnds` |
| `trace` | a ring of two, reports of up to two, streams of up to three samples, two streams, fairness | type, `CursorIsFinal`, `ImplementsLog`, `DrainedIsHeld`, `CatchesUp` |
| `acknowledgements` | two threads, three frames of which two share a key, two attempts, four events (symmetric), a stack of one | type, `AckMeansHeard`, `KeyErrorIsShared`, `EntryHasCaller` |
| `pilot` | four pilots, each with a companion beside him; holds of two and one calls, a window of four, fairness | type, `TakeoffNeedsFlip`, `GestureIsHeld`, `ReturnHomeIsEarned`, `ModeFollows`, `StopIsHeard` |

Bounds.  The resend interval and limit are 2 and 2 or 3: one tick before the
interval ends, one after, a first, a middle and a last transmission.  One frame
per wire is enough because a tick sends at most one command frame and with
`PromptAck` the answer is back before the next.  Timeouts of three ticks leave
room for a lost reset in each of the three places it can happen.  Two axes
suffice since axes are only ever copied or cleared one by one.  Sessions and
sequence numbers: one restart, and one earlier request whose cached answer has
been evicted (`CacheSize = 1`).  A queue of two is the smallest in which STOP can
overtake, and the third request finds it full.

Two sessions, runs and tasks in `RescueTask` are one car that restarts, or two
cars, at any point of the dialogue; a third could only be refused like the second.

A ring of two overwrites before the ground has asked for the third sample, and the
numbers then run out, which starts the second stream under cursors of the first.
The stack of one key in `AckChannel` fills, and is refilled between two steps of
`CheckAck`; what a second slot adds, a key that is stacked and cut off again, is a
loss, which USB may do anyway, and the proofs are for every size.  Four events are
what two calls and their two entries can hold, and one more.  The symmetry is sound:
only invariants are checked and events are only compared.  The pilots of `Pilot`
differ in what they move, so that the run is a sum of four and not a product; each
loses the signal or has none in the beginning.  Four calls are the shortest window
into which three switches fit.

Deadlock is checked except in `FleetNode`, where the ground program may have used
up its sessions and requests and nothing is left to do.

Fairness.  `LxCommand`: the timer interrupt keeps firing and runs to completion,
the main loop finishes an issuer it has entered, the unit takes frames off its
UART; nobody is obliged to issue a command or to answer.  `FleetNode`: the worker
thread keeps running; nothing is assumed of the mission thread, the ground or the
radio.  `RescueTask`: each of the three threads goes on with what it is at (the
doors and the plan's validation answer or raise, both have time limits); no
request need ever come.  `TraceBuffer`: worker and drain run on, the ground goes on
asking, one of its repeated requests gets through (strong fairness, as a radio that
loses some), and it restarts only so often.  `Pilot`: the timer's round runs on; the
main loop runs between rounds (strong fairness, for each round disables it); a taken
slot is given back, which is `SlotIsFreed`.  `ModeFollows` supposes that pilot and
companion come to rest, for as long as others keep taking the slot at every round it
could be refused for ever.

## 4. What the violations show

* `lx_overwrite`: the comment "没有其他等待校验的CMD时才发送本CMD" holds only if
  no interrupt falls between the test and `CMD_Send`.  The timer issues a command
  there, its `wait_ck` is set, and main overwrites it.
* `lx_giveup`: the counters are reset by `CK_Back_Check` only in a tick that finds
  `wait_ck` clear.  A USB command between the reading of the answer and that check
  inherits them: "会持续重新发送" fails for it.
* `realtime_silence`: with companion and heartbeat gone together, the heartbeat
  branch of an unlocked vehicle clears `realtime_control_enable` and leaves the
  targets; "超时会自动停止运动" fails.  (`OneKey_Stable` is issued there too, if the
  command slot is free.)

## 5. What is proved

Assumed: `ConstantsAssumption` of each module, and `OneGround` of `FleetNode`: one
program at a time has the controller's node number.  The proofs have the same
form: lemmas for the initial state and for each step, then one temporal step.

* `LxCommand_proofs`, the slot: `Inv` is inductive.  Besides the type it says that at
  most one of main and timer is inside an issuer, that outside a clash a context with
  bytes still to write excludes a raised flag (`SlotInv`), and that transmissions
  made plus owed never exceed the resend count by more than one (`BudgetInv`).
  `WireIntact`, `RetryBudget` and `NoOverwriteUnlessClash` follow for all command
  sets, resend intervals and limits.
* `LxCommand_proofs`, its answers: `Counted` makes the budget exact, transmissions
  made plus owed *are* the resend count plus one while a command waits, from which
  `GiveUpAfterAllSendsUnlessClash` follows.  The other three need to know what is on
  the wires (`WiresInv`): with `PromptAck`, at most one frame or answer is under way or
  owed; nothing is while the slot is free, being filled, or due for a resend; so a frame
  on its way to the unit is of the command in the slot, and an answer on its way back
  means that the unit has heard that command (`AnsweredInv`: is of that command).
  `AnswerIsForThisCommand` and `ImplementsSlot` follow for every command set, interval
  and limit, under `PromptAck`, as in the run.  `ResendOnlyUnansweredUnlessEarly`
  follows for commands of all three contexts: while a command is awaited that was
  not transmitted early, its checksum is kept with every transmission, so the answer
  that is read is the one that ends the wait (`AnsweredInv`).
  `RetryBudget` is proved and no longer run: `ImplementsSlot` has it (`Transmit`
  stops at `Limit`).  `WaitingRunsOut` is the part of `SlotIsFreed` that is a safety
  property: the age of a waiting command grows by one in each tick, nothing turns it
  back, not even a clash, and it stays below `RepeatLimit` intervals.
* `RealtimeControl_proofs`: `Inv` is inductive: the control watchdog's counter
  never lags behind the silence (`CountInv`), a moving target is always watched
  (`MovingIsWatched`), axes cleared by a stop stay at rest unless re-armed
  (`ClearInv`), every tick ends in a transmission (`SendInv`).  The four run
  properties follow for any set of axes and any timeouts.
* `RescueTask_proofs`: `IInv` is inductive.  A bound run is closed once and a
  close that is done has the doors closed (`Closing`); a rebuild follows a close
  and one thread has the map's state to itself until it ends, but for a STOP
  (`Mapping`); a cancelled map implies the stop event (`Cancelling`), which is why
  no late result can revive it; and a worker that validates a start has an
  agreement nobody else can change meanwhile (`Starting`), the operator's consent among it.  `ToldIsTrue` is part
  of it: alone it would not survive a second CLOSE.  All the safety properties of
  the run follow, for any sessions, runs, tasks and quotas, and with them that every
  step is one of `StartAgreement` or leaves it alone (`ImplementsAgreement`).
  `CancelIsFinal` is proved and no longer run: the agreement has it, for its
  `cancelled` is never taken back.  That the agreement lets a restart that was decided
  on be called after a STOP is what the code does, not a convenience of the proof:
  without `committed` the refinement fails.

* `TraceBuffer_proofs`: the inductive `IInv` says that the buffer holds the last
  samples of its stream (`BufferInv`), that every cursor anywhere is one a ground has
  had (`CursorInv`), that an answer under way continues that cursor or announces what
  is missing (`AnswerInv`), and that the copy is what the ground thinks it is
  (`CopyInv`).  From it follow `CursorIsFinal`, `DrainedIsHeld`, and that every step
  is a step of `TraceLog` or leaves it alone (`ImplementsLog`), for any capacity,
  batch and range of numbers.  `EveryReportAdvances` is the part of `CatchesUp` that is a
  safety property: a ground that is behind the buffer is told something, what it takes
  moves its cursor on, and no late answer moves it back (`Onward`).
* `AckChannel_proofs`: whatever may set the event of a call (its entry, the stack, the
  copy in `CheckAck`, the wire) vouches for the call, and calls of one key know of each
  other; with that the three properties of the run follow for any keys, frames,
  threads, attempts and slots.
* `Pilot_proofs`: the code's counters agree with the history.  A cleared take-off flag
  remembers what cleared it (`Flags`), the hold counter never runs ahead of the sticks
  and is zero until they were centred (`Sticks`), the switch count is that of the
  switches and its clock that since the first of them (`Homes`).  The three safety
  properties follow for any pilot, holds and window.
* `FleetNode_proofs`: `IInv` is inductive.  Its heart is an order: a ground program
  repeats only the request it waits for and the radio keeps the order, so requests
  reach the worker in the order of their names, repetitions of one side by side
  (`FlightInv`).  What the worker meets again is therefore the request it judged last,
  and that one is at the end of the cache, however small the cache is (`CacheInv`); a
  miss is a request never judged (`MissIsNew`).  The queue holds what was accepted and
  not yet taken, each once (`QueueInv`).  From it follow `ImplementsLedger` and
  `StopTakesEffect`, for any sizes and any number of restarts.  `InTurn` needs the order
  once more: a request that misses the cache is later than everything that was judged
  (`NewIsLatest`), what is queued or at work has been judged, so the queue is always in
  the order of the names (`TurnInv`), and what is taken from it leaves only later
  requests behind, or those a STOP overtook.

Only model-checked: what TLAPS has no rules for, the properties under fairness
(`SlotIsFreed`, `StopIsHeard` of the FleetBus endpoint and of the pilot, `WaitEnds`,
`CatchesUp`, `ModeFollows`).  The three properties that TLC refutes have no theorem,
of course.

## 6. Not modelled

Byte codecs and checksums (a frame is intact or absent), logging, LEDs, PWM
values, sensor values, attitude; vendored code (`ThirdParty`, `Libraries`), HMI,
`former_code`, `testcode`; navigation and vision, which are continuous control.
Two defects seen by reading need no model: `CK_Back` marks frame 0x00 but no
`Check_To_Send(0x00)` exists, and the wireless output never learns whether the
radio sent anything.

Companion SDK commands are wrappers over the acknowledged send and add no state of
their own.  The count of received frames that decides that the transmitter is lost
(`rcSignalCheck`) is only its result in `Pilot`: the link is lost at some moment and
found again at another.

## 7. Plan

1. Sensor forwarding: which source feeds frames 0x33 and 0x34, and for how long after
   it went silent (`LX_FC_EXT_Sensor.c`, `Drv_AnoOf.c`, `Drv_UpFlow.c`).
2. The envelope parser of `Wireless_Com.c` over classes of bytes: resynchronisation
   after a broken frame.
3. `Mission`: the phases of `rescue_drop_2026.py` and the payload ledger.
4. `RescueTask` composed with the worker and the cache of `FleetNode`.
5. Theorems: the ledger under a radio that reorders, for a cache that holds every
   request that may come back; the safety halves of `StopIsHeard` and `WaitEnds`.

------------------------------ MODULE AckChannel ------------------------------
(***************************************************************************)
(* Acknowledged commands between the companion computer and the flight     *)
(* controller: FC_Base_Uart_Comunication.send_data_to_fc and its listener  *)
(* on one side, UserCom_DataAnl, UserCom_SendAck and UserCom_CheckAck on   *)
(* the other.                                                              *)
(*                                                                         *)
(* An acknowledgement carries an 8-bit sum of the frame, its key, and      *)
(* nothing else: two frames may have the same key, and so have two         *)
(* attempts at one frame.  Any thread of the SDK may call; the controller  *)
(* stacks the keys in the USB interrupt and empties the stack in the       *)
(* TIM7 task, which that interrupt interrupts.                             *)
(*                                                                         *)
(* USB, with the queue of cdc_acm.c (a stack whose count two interrupts    *)
(* share), may lose, repeat and reorder what the controller sends.  An     *)
(* event of UserCom_SendEvent that CheckAck interrupts, for they share     *)
(* data_to_send, comes out as one more repetition.                         *)
(***************************************************************************)
EXTENDS Naturals, Sequences

CONSTANTS
    Threads,   \* the threads of the SDK that call send_data_to_fc
    Frames,    \* option and payload, of the frames they send
    Sends,     \* the frames each thread sends
    Keys,      \* the values of the sum
    Key,       \* the sum of each frame
    Events,    \* the threading.Event objects
    MaxRetry,  \* settings.ack_max_retry
    AckSlots,  \* 32, the size of user_ack_buf
    MaxWire    \* bound on the frames under way to the controller

None == "none"

ASSUME ConstantsAssumption ==
    /\ {MaxRetry, AckSlots, MaxWire} \subseteq Nat \ {0}
    /\ Sends \in [Threads -> SUBSET Frames]
    /\ Key \in [Frames -> Keys]
    /\ None \notin Events \cup Frames \cup Keys

VARIABLES
    thread,    \* the calls of send_data_to_fc
    dict,      \* _recivied_ack_dict
    fired,     \* the events that are set
    uplink,    \* frames written to the port
    stack,     \* user_ack_buf up to user_ack_cnt
    check,     \* UserCom_CheckAck: its place, its copy of the count
    downlink,  \* keys of acknowledgements on USB
    raised     \* history: keys whose entry stands and a call with which raised

caller == <<thread, dict, raised>>
fc == <<stack, check>>
vars == <<caller, fired, uplink, fc, downlink>>

(* due and shared are history: an acknowledgement of the key was due when    *)
(* the call began, or its frame has been carried out since; another thread   *)
(* has been in a call with its key.                                          *)
Calls == [at : {"idle", "again", "send", "look", "wait", "pop"},
          frame : Frames \cup {None}, left : 0 .. MaxRetry, event : Events \cup {None},
          result : {"none", "ok", "keyerror"},
          answered : BOOLEAN, due : BOOLEAN, shared : BOOLEAN]

NoCall == [at |-> "idle", frame |-> None, left |-> 0, event |-> None, result |-> "none",
           answered |-> FALSE, due |-> FALSE, shared |-> FALSE]

CheckOff == [at |-> "off", count |-> 0, key |-> None]

TypeOK ==
    /\ thread \in [Threads -> Calls]
    /\ \A t \in Threads : thread[t].at # "idle" => thread[t].frame \in Frames
    /\ dict \in [Keys -> Events \cup {None}]
    /\ fired \subseteq Events
    /\ uplink \in Seq(Frames) /\ Len(uplink) <= MaxWire
    /\ stack \in Seq(Keys) /\ Len(stack) <= AckSlots
    /\ check \in [at : {"off", "store", "read"}, count : 0 .. AckSlots,
                  key : Keys \cup {None}]
    /\ downlink \subseteq Keys
    /\ raised \subseteq Keys

Calling(t, key) == thread[t].at # "idle" /\ Key[thread[t].frame] = key

\* An acknowledgement of this key is on its way, or a frame that will cause one.
Due(key) ==
    \/ \E i \in 1 .. Len(uplink) : Key[uplink[i]] = key
    \/ \E i \in 1 .. Len(stack) : stack[i] = key
    \/ key = check.key
    \/ key \in downlink

-----------------------------------------------------------------------------
(* send_data_to_fc with need_ack.                                          *)

Held == {dict[k] : k \in Keys} \cup {thread[t].event : t \in Threads}

\* An event that nobody holds any more is gone.
Keep(events) == fired' = (events \cap Held') \ {None}

Return(t, result) ==
    thread' = [thread EXCEPT ![t] = [NoCall EXCEPT !.result = result, !.due = thread[t].due,
                                                   !.shared = thread[t].shared]]
Raise(t, key) ==
    /\ thread' = [thread EXCEPT ![t] = NoCall]
    /\ raised' = raised \cup {key}

\* What stands in the dictionary once a call is registered.
EntryMutant(key, event) == IF dict[key] = None THEN event ELSE dict[key]    \* setdefault
Entry(key, event) == event

\* A new event under the key, whosever is there; then the retries are tested.
Register(t, call) ==
    LET key == Key[call.frame]
    IN \E e \in Events \ Held :
         /\ dict' = [dict EXCEPT ![key] = Entry(key, e)]
         /\ IF call.left = 0
            THEN Raise(t, key)
            ELSE /\ thread' = [u \in Threads |->
                                 IF u = t THEN [call EXCEPT !.at = "send"] ELSE
                                 [thread[u] EXCEPT !.shared = @ \/ Calling(u, key)]]
                 /\ raised' = raised \ {key}
         /\ UNCHANGED <<uplink, fc, downlink>>
         /\ Keep(fired \ {e})

Call(t, f) ==
    /\ thread[t].at = "idle"
    /\ Register(t, [NoCall EXCEPT !.frame = f, !.left = MaxRetry, !.due = Due(Key[f]),
                                  !.shared = \E u \in Threads : Calling(u, Key[f])])

Again(t) ==
    /\ thread[t].at = "again"
    /\ Register(t, thread[t])

Write(t) ==
    /\ thread[t].at = "send"
    /\ Len(uplink) < MaxWire
    /\ uplink' = Append(uplink, thread[t].frame)
    /\ thread' = [thread EXCEPT ![t].at = "look"]
    /\ UNCHANGED <<dict, raised, fired, fc, downlink>>

\* The lock is not had in time, or the port is closed.
WriteFails(t) ==
    /\ thread[t].at = "send"
    /\ Raise(t, Key[thread[t].frame])
    /\ UNCHANGED <<dict, fired, uplink, fc, downlink>>

\* The event waited for is the one under the key now.
Look(t) ==
    LET e == dict[Key[thread[t].frame]]
    IN /\ thread[t].at = "look"
       /\ IF e = None
          THEN Return(t, "keyerror")
          ELSE thread' = [thread EXCEPT ![t].at = "wait", ![t].event = e]
       /\ UNCHANGED <<dict, raised, fired, uplink, fc, downlink>>

\* Event.wait returns, because the event is set or because the time is over.
Wait(t) ==
    /\ thread[t].at = "wait"
    /\ thread' = [thread EXCEPT ![t].at = "pop",
                                ![t].answered = thread[t].event \in fired]
    /\ UNCHANGED <<dict, raised, fired, uplink, fc, downlink>>

PopMutant(t) ==    \* only a call that timed out pops
    LET key == Key[thread[t].frame]
    IN /\ thread[t].at = "pop"
       /\ IF thread[t].answered
          THEN Return(t, "ok") /\ UNCHANGED <<dict, raised>>
          ELSE /\ thread' = [thread EXCEPT ![t].at = "again", ![t].event = None,
                                           ![t].left = @ - 1]
               /\ dict' = [dict EXCEPT ![key] = None]
               /\ raised' = raised \ {key}
       /\ UNCHANGED <<uplink, fc, downlink>>
       /\ Keep(fired)
Pop(t) ==
    LET key == Key[thread[t].frame]
    IN /\ thread[t].at = "pop"
       /\ dict' = [dict EXCEPT ![key] = None]
       /\ IF dict[key] = None
          THEN Return(t, "keyerror")
          ELSE IF thread[t].answered
          THEN Return(t, "ok")
          ELSE thread' = [thread EXCEPT ![t].at = "again", ![t].event = None,
                                        ![t].left = @ - 1]
       /\ raised' = raised \ {key}
       /\ UNCHANGED <<uplink, fc, downlink>>
       /\ Keep(fired)

\* The listener thread takes an acknowledgement and sets the event it finds.  (If it
\* sets the event only after its thread has given up, the key is as good as lost.)
ReceiveMutant(key) ==    \* pop for get
    /\ key \in downlink
    /\ downlink' \in {downlink, downlink \ {key}}
    /\ dict' = [dict EXCEPT ![key] = None]
    /\ UNCHANGED <<thread, raised, uplink, fc>>
    /\ Keep(fired \cup {dict[key]})
Receive(key) ==
    /\ key \in downlink
    /\ downlink' \in {downlink, downlink \ {key}}
    /\ UNCHANGED <<caller, uplink, fc>>
    /\ Keep(fired \cup {dict[key]})

-----------------------------------------------------------------------------
(* The flight controller.                                                  *)

\* UserCom_SendAck
SendAckMutant(key) ==    \* one too many
    stack' = IF Len(stack) > AckSlots THEN stack ELSE Append(stack, key)
SendAck(key) ==
    stack' = IF Len(stack) >= AckSlots THEN stack ELSE Append(stack, key)

\* The USB interrupt, between any two steps of the others: the frame is carried out.
DataAnl ==
    LET key == Key[Head(uplink)]
    IN /\ uplink # <<>>
       /\ uplink' = Tail(uplink)
       /\ SendAck(key)
       /\ thread' = [t \in Threads |->
                       [thread[t] EXCEPT !.due = @ \/ thread[t].frame = Head(uplink)]]
       /\ UNCHANGED <<dict, raised, fired, check, downlink>>

\* It is not: its checksum is wrong, or option 0x01 finds a command unconfirmed.
Refuse ==
    /\ uplink # <<>>
    /\ uplink' = Tail(uplink)
    /\ UNCHANGED <<caller, fired, fc, downlink>>

\* UserCom_CheckAck reads the count, ...
CheckLoad ==
    /\ check.at = "off"
    /\ stack # <<>>
    /\ check' = [check EXCEPT !.at = "store", !.count = Len(stack)]
    /\ UNCHANGED <<caller, fired, uplink, stack, downlink>>

\* ... stores it less one, and what was stacked in between is gone, ...
CheckStore ==
    /\ check.at = "store"
    /\ stack' = SubSeq(stack, 1, check.count - 1)
    /\ check' = [check EXCEPT !.at = "read", !.key = stack[check.count]]
    /\ UNCHANGED <<caller, fired, uplink, downlink>>

\* ... and sends the key at that place, which may be another by now.
CheckSend ==
    LET key == IF Len(stack) >= check.count THEN stack[check.count] ELSE check.key
    IN /\ check.at = "read"
       /\ downlink' = downlink \cup {key}
       /\ check' = CheckOff
       /\ UNCHANGED <<caller, fired, uplink, stack>>

\* Lost, or swept out of the stack of cdc_acm.c.
Lose(key) ==
    /\ key \in downlink
    /\ downlink' = downlink \ {key}
    /\ UNCHANGED <<caller, fired, uplink, fc>>

-----------------------------------------------------------------------------
Init ==
    /\ thread = [t \in Threads |-> NoCall]
    /\ dict = [k \in Keys |-> None]
    /\ fired = {}
    /\ uplink = <<>>
    /\ stack = <<>>
    /\ check = CheckOff
    /\ downlink = {}
    /\ raised = {}

Proceed(t) ==
    \/ Again(t) \/ Write(t) \/ WriteFails(t) \/ Look(t) \/ Wait(t) \/ Pop(t)

Next ==
    \/ \E t \in Threads : Proceed(t) \/ (\E f \in Sends[t] : Call(t, f))
    \/ \E k \in Keys : Receive(k) \/ Lose(k)
    \/ DataAnl \/ Refuse
    \/ CheckLoad \/ CheckStore \/ CheckSend

Spec == Init /\ [][Next]_vars

-----------------------------------------------------------------------------
(* Properties.                                                             *)

\* A call that returns as acknowledged was: the controller carried its frame out
\* during the call, unless the key was due already or another call used it meanwhile.
\* The slots, copies and buffers an interrupt may catch in between forge nothing.
AckMeansHeard ==
    \A t \in Threads : thread[t].result = "ok" =>
        thread[t].due \/ thread[t].shared

\* A call dies of a KeyError only where two threads use one key at a time.
KeyErrorIsShared ==
    \A t \in Threads : thread[t].result = "keyerror" => thread[t].shared

\* An entry of the dictionary outlives the calls with its key only if one raised.
EntryHasCaller ==
    \A k \in Keys : dict[k] # None /\ k \notin raised => \E t \in Threads : Calling(t, k)
===============================================================================

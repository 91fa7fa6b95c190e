------------------------------ MODULE FleetNode ------------------------------
(***************************************************************************)
(* The airborne FleetBus endpoint: AirFleetNode and AirCommandQueue of     *)
(* python_sdk/fleet_bus.                                                   *)
(*                                                                         *)
(* A ground program sends a request and repeats it until it is answered or *)
(* gives it up; the radio may lose a frame either way.  The transport      *)
(* callback puts frames into a bounded inbox.  One worker thread takes     *)
(* them out, answers a repeated request from a cache of recent responses   *)
(* and judges a new one: a command it accepts goes into a bounded priority *)
(* queue, out of which the mission thread takes it.                        *)
(*                                                                         *)
(* The ground programs and the radio are external.                         *)
(***************************************************************************)
EXTENDS Naturals, Sequences, FiniteSets, SequencesExt

CONSTANTS
    Grounds,     \* programs that send with the controller's node number
    Commands,    \* the kinds of request they send
    MaxSession,  \* sessions used in one behaviour
    MaxSeq,      \* requests of one session
    MaxWire,     \* frames on the air in one direction
    InboxSize,   \* 16: NodeTiming.queue_size
    QueueSize,   \* 16: AirCommandQueue's max_items
    CacheSize    \* 64: RecentResponseCache's max_items

ASSUME ConstantsAssumption ==
    /\ Commands \subseteq {"poll", "ping", "goto", "start", "stop"}
    /\ {MaxSession, MaxSeq, MaxWire, InboxSize, QueueSize, CacheSize}
          \subseteq Nat \ {0}
    /\ "other" \notin Grounds

\* One program at a time has the controller's node number; it may restart.
ASSUME OneGround == \A g, h \in Grounds : g = h

VARIABLES
    ground,    \* each program: its session, its last seq, what it waits for
    sessions,  \* sessions used so far
    up, down,  \* frames on the air
    inbox,     \* AirFleetNode._inbox
    current,   \* RecentResponseCache._ground_session
    cache,     \* RecentResponseCache._items, the least recently used first
    readonly,  \* AirFleetNode._readonly
    worker,    \* the worker thread: where it is, with which request, which reply
    queue,     \* AirCommandQueue._queue
    status,    \* AirCommandQueue._status
    doing,     \* the command the mission thread is at
    stop,      \* the flight stop event
    verdict, told, taken    \* history: the ledger of CommandLedger

ether == <<up, down>>
memory == <<current, cache>>
ledger == <<verdict, told, taken>>
vars == <<ground, sessions, ether, inbox, memory, readonly, worker, queue,
          status, doing, stop, ledger>>

None == "none"
Verdicts == {"report", "completed", "accepted", "rejected"}
Id == (1 .. MaxSession) \X (1 .. MaxSeq)

Requests == [src : Grounds, session : 1 .. MaxSession, seq : 1 .. MaxSeq,
             cmd : Commands]
NoRequest == [src |-> None, session |-> 0, seq |-> 0, cmd |-> None]
\* A frame of another node, with a session of its own.
Foreign == [src |-> "other", session |-> 0, seq |-> 1, cmd |-> "poll"]
Responses == [session : 1 .. MaxSession, seq : 1 .. MaxSeq, verdict : Verdicts]

IdOf(m) == <<m.session, m.seq>>
Response(r, v) == [session |-> r.session, seq |-> r.seq, verdict |-> v]

Off == [session |-> 0, seq |-> 0, waits |-> NoRequest]
Idle == [at |-> "idle", req |-> NoRequest, verdict |-> None]

TypeOK ==
    /\ ground \in [Grounds -> [session : 0 .. MaxSession, seq : 0 .. MaxSeq,
                                waits : Requests \cup {NoRequest}]]
    /\ sessions \in 0 .. MaxSession
    /\ up \in Seq(Requests \cup {Foreign}) /\ Len(up) <= MaxWire
    /\ down \in Seq(Responses) /\ Len(down) <= MaxWire
    /\ inbox \in Seq(Requests \cup {Foreign}) /\ Len(inbox) <= InboxSize
    /\ current \in 0 .. MaxSession
    /\ cache \in Seq(Responses) /\ Len(cache) <= CacheSize
    /\ readonly \in BOOLEAN
    /\ worker \in [at : {"idle", "accept", "reply"},
                   req : Requests \cup {NoRequest}, verdict : Verdicts \cup {None}]
    /\ queue \in Seq(Requests) /\ Len(queue) <= QueueSize
    /\ status \in [seq : 0 .. MaxSeq, code : {"idle", "accepted", "done", "failed"}]
    /\ doing \in Requests \cup {NoRequest}
    /\ stop \in BOOLEAN
    /\ verdict \in [Id -> Verdicts \cup {None}]
    /\ told \in [Id -> SUBSET Verdicts]
    /\ taken \in [Id -> Nat]

Init ==
    /\ ground = [g \in Grounds |-> Off]
    /\ sessions = 0
    /\ up = <<>>
    /\ down = <<>>
    /\ inbox = <<>>
    /\ current = 0
    /\ cache = <<>>
    /\ readonly \in BOOLEAN
    /\ worker = Idle
    /\ queue = <<>>
    /\ status = [seq |-> 0, code |-> "idle"]
    /\ doing = NoRequest
    /\ stop = FALSE
    /\ verdict = [i \in Id |-> None]
    /\ told = [i \in Id |-> {}]
    /\ taken = [i \in Id |-> 0]

-----------------------------------------------------------------------------
(* The ground programs and the radio.                                      *)

air == <<inbox, memory, readonly, worker, queue, status, doing, stop, ledger>>

\* A program starts, or restarts, with a session of its own.
GroundStart(g) ==
    /\ sessions < MaxSession
    /\ sessions' = sessions + 1
    /\ ground' = [ground EXCEPT ![g] =
                    [session |-> sessions + 1, seq |-> 0, waits |-> NoRequest]]
    /\ UNCHANGED <<ether, air>>

GroundSend(g, c) ==
    LET r == [src |-> g, session |-> ground[g].session,
              seq |-> ground[g].seq + 1, cmd |-> c]
    IN /\ ground[g].session # 0
       /\ ground[g].waits = NoRequest
       /\ ground[g].seq < MaxSeq
       /\ Len(up) < MaxWire
       /\ ground' = [ground EXCEPT ![g].seq = r.seq, ![g].waits = r]
       /\ up' = Append(up, r)
       /\ UNCHANGED <<sessions, down, air>>

GroundRetry(g) ==
    /\ ground[g].waits # NoRequest
    /\ Len(up) < MaxWire
    /\ up' = Append(up, ground[g].waits)
    /\ UNCHANGED <<ground, sessions, down, air>>

GroundGiveUp(g) ==
    /\ ground[g].waits # NoRequest
    /\ ground' = [ground EXCEPT ![g].waits = NoRequest]
    /\ UNCHANGED <<sessions, ether, air>>

\* A response ends the wait of the program whose request it answers.
GroundHear ==
    /\ down # <<>>
    /\ down' = Tail(down)
    /\ ground' = [g \in Grounds |->
                    IF /\ ground[g].waits # NoRequest
                       /\ IdOf(ground[g].waits) = IdOf(Head(down))
                    THEN [ground[g] EXCEPT !.waits = NoRequest]
                    ELSE ground[g]]
    /\ UNCHANGED <<sessions, up, air>>

Overhear ==
    /\ Len(up) < MaxWire
    /\ up' = Append(up, Foreign)
    /\ UNCHANGED <<ground, sessions, down, air>>

Lose ==
    /\ \/ up # <<>> /\ up' = Tail(up) /\ UNCHANGED down
       \/ down # <<>> /\ down' = Tail(down) /\ UNCHANGED up
    /\ UNCHANGED <<ground, sessions, air>>

-----------------------------------------------------------------------------
(* AirFleetNode: the transport callback.                                   *)

\* feed_bytes: a frame that finds the inbox full is dropped.
FeedBytes ==
    /\ up # <<>>
    /\ up' = Tail(up)
    /\ inbox' = IF Len(inbox) < InboxSize THEN Append(inbox, Head(up)) ELSE inbox
    /\ UNCHANGED <<ground, sessions, down, memory, readonly, worker, queue,
                   status, doing, stop, ledger>>

-----------------------------------------------------------------------------
(* AirFleetNode: the worker, _run and _handle.                             *)

outside == <<ground, sessions, ether, readonly>>

\* begin_ground_session: another session empties the cache.
CacheFor(r) == IF r.session = current THEN cache ELSE <<>>

\* Another node's frame is dropped before it can begin a session.
ControlsMutant(r) == r.src \in Grounds \cup {"other"}

Controls(r) == r.src \in Grounds

Hits(items, r) == {k \in 1 .. Len(items) : IdOf(items[k]) = IdOf(r)}

PutItemMutant(items, m) == Append(items, m)    \* nothing is dropped

\* put: the newest goes to the end, the oldest beyond CacheSize are dropped.
PutItem(items, m) ==
    LET grown == Append(items, m)
    IN IF Len(grown) > CacheSize THEN Tail(grown) ELSE grown

\* What a read-only endpoint accepts besides STOP (allow_start_mission).
ReadonlyCommands == {"start"}

Unsupported(r) == readonly /\ r.cmd \notin ReadonlyCommands

\* A command that needs a position is refused when the state has none.
Blind(r, posed) == r.cmd = "goto" /\ ~posed

\* put_nowait on the priority queue.
Busy == Len(queue) >= QueueSize

\* _handle's branches and _command's early returns, in their order.
Judgement(r, posed) ==
    CASE r.cmd = "poll" -> "report"
      [] r.cmd = "ping" -> "completed"
      [] r.cmd = "stop" /\ readonly -> "completed"
      [] r.cmd \in {"goto", "start"} /\ (Unsupported(r) \/ Blind(r, posed)) -> "rejected"
      [] r.cmd \in {"goto", "start", "stop"} /\ Busy -> "rejected"
      [] OTHER -> "accepted"

StopsMutant(r) == r.cmd = "stop" /\ ~Busy    \* the event set after put

\* The stop event is set before the command is queued.
Stops(r) == r.cmd = "stop"

IgnoreStranger ==
    /\ worker.at = "idle"
    /\ inbox # <<>>
    /\ ~Controls(Head(inbox))
    /\ inbox' = Tail(inbox)
    /\ UNCHANGED <<outside, memory, worker, queue, status, doing, stop, ledger>>

\* A repeated request: the response it had, and nothing else.
HandleRepeated ==
    /\ worker.at = "idle"
    /\ inbox # <<>>
    /\ Controls(Head(inbox))
    /\ \E k \in Hits(CacheFor(Head(inbox)), Head(inbox)) :
          /\ worker' = [at |-> "reply", req |-> Head(inbox),
                        verdict |-> cache[k].verdict]
          /\ cache' = Append(RemoveAt(cache, k), cache[k])
    /\ inbox' = Tail(inbox)
    /\ UNCHANGED <<outside, current, queue, status, doing, stop, ledger>>

HandleNew ==
    LET r == Head(inbox)
    IN /\ worker.at = "idle"
       /\ inbox # <<>>
       /\ Controls(r)
       /\ Hits(CacheFor(r), r) = {}
       /\ inbox' = Tail(inbox)
       /\ current' = r.session
       /\ stop' = (stop \/ Stops(r))
       /\ \E posed \in BOOLEAN :    \* what the state provider reports
             LET v == Judgement(r, posed)
             IN /\ cache' = PutItem(CacheFor(r), Response(r, v))
                /\ queue' = IF v = "accepted" THEN Append(queue, r) ELSE queue
                /\ worker' = [at |-> IF v = "accepted" THEN "accept" ELSE "reply",
                              req |-> r, verdict |-> v]
                /\ verdict' = [verdict EXCEPT ![IdOf(r)] = v]
       /\ UNCHANGED <<outside, status, doing, told, taken>>

\* AirCommandQueue.accept, after put: the mission may have the command by now.
WorkerAccept ==
    /\ worker.at = "accept"
    /\ status' = [seq |-> worker.req.seq, code |-> "accepted"]
    /\ worker' = [worker EXCEPT !.at = "reply"]
    /\ UNCHANGED <<outside, inbox, memory, queue, doing, stop, ledger>>

\* After the turnaround time; a write that fails is counted and forgotten.
WorkerWrite ==
    /\ worker.at = "reply"
    /\ worker' = Idle
    /\ \/ /\ Len(down) < MaxWire
          /\ down' = Append(down, Response(worker.req, worker.verdict))
          /\ told' = [told EXCEPT ![IdOf(worker.req)] = @ \cup {worker.verdict}]
       \/ UNCHANGED <<down, told>>
    /\ UNCHANGED <<ground, sessions, up, inbox, memory, readonly, queue,
                   status, doing, stop, verdict, taken>>

\* put instead of put_nowait: the worker waits for room in the queue.
WorkerMutant ==
    IgnoreStranger \/ HandleRepeated \/ (~Busy /\ HandleNew) \/ WorkerAccept
    \/ WorkerWrite

Worker ==
    IgnoreStranger \/ HandleRepeated \/ HandleNew \/ WorkerAccept \/ WorkerWrite

-----------------------------------------------------------------------------
(* The mission thread, through AirCommandQueue.                            *)

NextUpMutant(k) ==    \* the priority without the counter
    queue[k].cmd = "stop" \/ \A j \in 1 .. Len(queue) : queue[j].cmd # "stop"

\* The priority queue: STOP first, then by arrival.
NextUp(k) ==
    /\ \A j \in 1 .. k - 1 : queue[j].cmd # "stop"
    /\ \/ queue[k].cmd = "stop"
       \/ k = 1 /\ \A j \in 1 .. Len(queue) : queue[j].cmd # "stop"

Receive ==
    /\ doing = NoRequest
    /\ \E k \in 1 .. Len(queue) :
          /\ NextUp(k)
          /\ doing' = queue[k]
          /\ queue' = RemoveAt(queue, k)
          /\ taken' = [taken EXCEPT ![IdOf(queue[k])] = @ + 1]
    /\ UNCHANGED <<outside, inbox, memory, worker, status, stop, verdict, told>>

\* complete or fail.
Finish(code) ==
    /\ doing # NoRequest
    /\ status' = [seq |-> doing.seq, code |-> code]
    /\ doing' = NoRequest
    /\ UNCHANGED <<outside, inbox, memory, worker, queue, stop, ledger>>

Mission == Receive \/ \E code \in {"done", "failed"} : Finish(code)

Next ==
    \/ \E g \in Grounds :
          \/ GroundStart(g)
          \/ \E c \in Commands : GroundSend(g, c)
          \/ GroundRetry(g)
          \/ GroundGiveUp(g)
    \/ GroundHear
    \/ Overhear
    \/ Lose
    \/ FeedBytes
    \/ Worker
    \/ Mission

Spec == Init /\ [][Next]_vars

\* The worker thread keeps running; nothing is assumed of the mission thread,
\* the ground or the radio.
FairSpec == Spec /\ WF_vars(Worker)

-----------------------------------------------------------------------------
(* Properties.                                                             *)

Ledger == INSTANCE CommandLedger

(* The endpoint keeps the ledger's promise: one verdict for a request and    *)
(* its repetitions, told in every reply, and an accepted command handed to   *)
(* the mission at most once (CACHE and _command of AirFleetNode).            *)
ImplementsLedger == Ledger!LSpec

(* A STOP that has been answered, be it with "busy", has set the stop event: *)
(* "STOP must keep a high priority and be idempotent" (the same section).    *)
StopTakesEffect ==
    \A g \in Grounds :
        /\ ground[g].waits.cmd = "stop"
        /\ told[IdOf(ground[g].waits)] # {}
        => stop

\* The order in which the ground sent its requests first.
Before(i, j) == i[1] < j[1] \/ (i[1] = j[1] /\ i[2] < j[2])

(* The mission works in the order the ground sent: what waits in the queue   *)
(* was sent after the command it is at, or was overtaken by a STOP, however  *)
(* often requests were lost, repeated and evicted from the cache on the way  *)
(* (equal priorities of AirCommandQueue by its counter).                     *)
InTurn ==
    doing # NoRequest =>
        \A k \in 1 .. Len(queue) :
            \/ Before(IdOf(doing), IdOf(queue[k]))
            \/ doing.cmd = "stop" /\ queue[k].cmd # "stop"

(* A STOP that reached the inbox takes effect, however long the mission      *)
(* thread leaves the command queue full: put_nowait never blocks the worker. *)
StopIsHeard == (\E k \in 1 .. Len(inbox) : inbox[k].cmd = "stop") ~> stop
=============================================================================

----------------------------- MODULE TraceBuffer ------------------------------
(***************************************************************************)
(* The pose trace of the airborne FleetBus endpoint: PoseTraceBuffer,      *)
(* PoseTraceSampler and the trace half of AirFleetNode.                    *)
(*                                                                         *)
(* The sampler thread records poses into a bounded buffer that overwrites  *)
(* its oldest sample.  A ground program asks for what follows its cursor;  *)
(* the worker thread first notes the cursor, then answers.  A mission that *)
(* ends stops the sampler and waits until a cursor confirms the last       *)
(* sample.                                                                 *)
(*                                                                         *)
(* The ground program and the radio are external.  A request may arrive    *)
(* late and more than once; of the answers the ground takes the one to the *)
(* request it waits for.                                                   *)
(***************************************************************************)
EXTENDS Naturals, Sequences

CONSTANTS
    Capacity,     \* buffer_capacity
    Batch,        \* the samples a ground asks for: up to TRACE_MAX_SAMPLES
    MaxSampleSeq, \* 0xFFFFFFFF
    MaxSession    \* bound on the streams of one behaviour

ASSUME ConstantsAssumption ==
    /\ {Capacity, Batch, MaxSampleSeq, MaxSession} \subseteq Nat \ {0}

VARIABLES
    session, samples, next,  \* PoseTraceBuffer: _trace_session, _samples, _next_sample_seq
    sampler,                 \* the sampler thread; stopping when its _stop event is set
    worker,                  \* the worker thread in _handle
    observed,                \* _observed_trace_session, _observed_after_sample_seq
    drain,                   \* wait_for_trace_drain: where it is, its final cursor
    ground,                  \* the ground program: its cursor, its copy, its request
    answer,                  \* the answer to that request, once there is one
    recorded, reached        \* history: samples of a stream; the cursors ground has had

buffer == <<session, samples, next, recorded>>
vars == <<buffer, sampler, worker, observed, drain, ground, answer, reached>>

Streams == 1 .. MaxSession
Seqs == 0 .. MaxSampleSeq

\* What a new pose can be to the last one in the buffer: not later, the same and too
\* soon, within reach of a delta encoding, or out of it.
Poses == {"back", "still", "near", "far"}

\* A sample is named by its stream and number.
Name == [session : Streams, seq : 1 .. MaxSampleSeq]
Sample == [session : Streams, seq : 1 .. MaxSampleSeq, far : BOOLEAN]
NameOf(s) == [session |-> s.session, seq |-> s.seq]

Cursor(s, n) == [session |-> s, after |-> n]
Cursors == [session : 0 .. MaxSession, after : Seqs]
Report == [session : Streams, first : Seqs, names : Seq(Name),
           reset : BOOLEAN, overrun : BOOLEAN]
NoReport == [session |-> 0, first |-> 0, names |-> <<>>,
             reset |-> FALSE, overrun |-> FALSE]

NewGround == [cursor |-> Cursor(0, 0), got |-> {}, lost |-> {}, waits |-> FALSE]
Grounds == [cursor : Cursors, got : SUBSET [label : 1 .. MaxSampleSeq, name : Name],
            lost : SUBSET (1 .. MaxSampleSeq), waits : BOOLEAN]
Workers == [at : {"idle", "observe", "build"}, cursor : Cursors, live : BOOLEAN]
Drains == [at : {"off", "join", "wait", "drained", "failed"}, cursor : Cursors]

Drain(at) == [at |-> at, cursor |-> Cursor(0, 0)]
IdleWorker == [at |-> "idle", cursor |-> Cursor(0, 0), live |-> FALSE]

TypeOK ==
    /\ session \in Streams
    /\ samples \in Seq(Sample) /\ Len(samples) <= Capacity
    /\ next \in 1 .. MaxSampleSeq + 1
    /\ sampler \in {"running", "stopping", "dead"}
    /\ worker \in Workers
    /\ observed \in Cursors
    /\ drain \in Drains
    /\ ground \in Grounds
    /\ answer \in Report \cup {NoReport}
    /\ recorded \in [Streams -> Seqs]
    /\ reached \in [Streams -> Seqs]

-----------------------------------------------------------------------------
(* The buffer.                                                             *)

Latest == IF samples = <<>> THEN 0 ELSE samples[Len(samples)].seq

OutOfNumbersMutant == next > MaxSampleSeq + 1    \* one number too late
OutOfNumbers == next > MaxSampleSeq

\* _sample_once and record: a clock that did not advance, or a number that ran out,
\* starts a new stream.  A sampler that is stopped may be at its last sample.
Record(pose) ==
    LET first == samples = <<>>
        back == ~first /\ pose = "back"
        still == ~first /\ pose = "still"
        reset == back \/ OutOfNumbers
        here == IF reset THEN session + 1 ELSE session
        seq == IF reset THEN 1 ELSE next
        kept == IF reset THEN <<>>
                ELSE IF Len(samples) = Capacity THEN Tail(samples) ELSE samples
    IN /\ sampler # "dead"
       /\ sampler' = IF sampler = "stopping" THEN "dead" ELSE sampler
       /\ IF still
          THEN UNCHANGED buffer
          ELSE /\ here <= MaxSession
               /\ session' = here
               /\ samples' = Append(kept, [session |-> here, seq |-> seq,
                                           far |-> kept # <<>> /\ pose = "far"])
               /\ next' = seq + 1
               /\ recorded' = [recorded EXCEPT ![here] = seq]
       /\ UNCHANGED <<worker, observed, drain, ground, answer, reached>>

StartsOverMutant(cursor) == cursor.after > Latest    \* whatever the stream
StartsOver(cursor) == cursor.session # session \/ cursor.after > Latest

\* The first sample of a report is absolute, the others are deltas.
FitsMutant(i, n) ==    \* all are deltas
    /\ i + n - 1 <= Len(samples)
    /\ \A k \in i .. i + n - 1 : ~samples[k].far
Fits(i, n) ==
    /\ i + n - 1 <= Len(samples)
    /\ \A k \in i + 1 .. i + n - 1 : ~samples[k].far

\* No limit allows one more from index i on.
Longest(i, n) == Fits(i, n) /\ (n < Batch => ~Fits(i, n + 1))

Overrun(cursor) == ~StartsOver(cursor) /\ cursor.after + 1 < samples[1].seq

Start(cursor) ==
    IF samples = <<>> \/ StartsOver(cursor) \/ Overrun(cursor) THEN 1
    ELSE cursor.after + 2 - samples[1].seq

\* build_report, with n samples
BuildReport(cursor, n) ==
    IF samples = <<>>
    THEN [NoReport EXCEPT !.session = session]
    ELSE [session |-> session,
          first |-> IF n = 0 THEN 0 ELSE samples[Start(cursor)].seq,
          names |-> [k \in 1 .. n |-> NameOf(samples[Start(cursor) + k - 1])],
          reset |-> StartsOver(cursor), overrun |-> Overrun(cursor)]

-----------------------------------------------------------------------------
(* The threads of the endpoint.                                            *)

SamplerEnd ==
    /\ sampler = "stopping"
    /\ sampler' = "dead"
    /\ UNCHANGED <<buffer, worker, observed, drain, ground, answer, reached>>

\* The worker takes a request, the ground's own or an old one that comes late,
\* and _observe_trace_cursor compares its stream with the buffer's.
Take(cursor, live) ==
    /\ worker.at = "idle"
    /\ worker' = [at |-> IF cursor.session = session THEN "observe" ELSE "build",
                  cursor |-> cursor, live |-> live]
    /\ UNCHANGED <<buffer, sampler, observed, drain, ground, answer, reached>>

TakeRequest ==
    /\ ground.waits /\ answer = NoReport
    /\ Take(ground.cursor, TRUE)

\* A request seen before is answered out of the cache, with what the ground has or
\* nobody waits for: all it does is show its cursor.
TakeLate ==
    \E n \in 0 .. reached[session] : Take(Cursor(session, n), FALSE)

\* The rest of _observe_trace_cursor, which no longer holds the buffer's lock.
FurthestMutant(cursor) ==    \* a new stream does not clear what was observed
    IF cursor.after > observed.after THEN cursor.after ELSE observed.after
Furthest(cursor) ==
    LET old == IF observed.session = cursor.session THEN observed.after ELSE 0
    IN IF cursor.after > old THEN cursor.after ELSE old

Observe ==
    /\ worker.at = "observe"
    /\ worker' = IF worker.live THEN [worker EXCEPT !.at = "build"] ELSE IdleWorker
    /\ observed' = Cursor(worker.cursor.session, Furthest(worker.cursor))
    /\ UNCHANGED <<buffer, sampler, drain, ground, answer, reached>>

Reply ==
    /\ worker.at = "build"
    /\ worker' = IdleWorker
    /\ IF worker.live
       THEN \E n \in 0 .. Batch : /\ Longest(Start(worker.cursor), n)
                                  /\ answer' = BuildReport(worker.cursor, n)
       ELSE UNCHANGED answer
    /\ UNCHANGED <<buffer, sampler, observed, drain, ground, reached>>

\* wait_for_trace_drain: stop the sampler, wait for its end, for a second at most, ...
DrainBeginMutant ==    \* the sampler runs on
    /\ drain.at = "off"
    /\ drain' = Drain("join")
    /\ UNCHANGED <<buffer, sampler, worker, observed, ground, answer, reached>>
DrainBegin ==
    /\ drain.at = "off"
    /\ drain' = Drain("join")
    /\ sampler' = IF sampler = "running" THEN "stopping" ELSE sampler
    /\ UNCHANGED <<buffer, worker, observed, ground, answer, reached>>

\* ... read the final cursor, even if the sampler is still at its last sample, ...
DrainJoin ==
    /\ drain.at = "join"
    /\ drain' = IF Latest = 0 THEN Drain("drained")
                ELSE [at |-> "wait", cursor |-> Cursor(session, Latest)]
    /\ UNCHANGED <<buffer, sampler, worker, observed, ground, answer, reached>>

\* ... and wait for a cursor that has come as far, or the deadline.
DrainConfirm ==
    /\ drain.at = "wait"
    /\ observed.session = drain.cursor.session
    /\ observed.after >= drain.cursor.after
    /\ drain' = Drain("drained")
    /\ UNCHANGED <<buffer, sampler, worker, observed, ground, answer, reached>>

DrainTimeout ==
    /\ drain.at = "wait"
    /\ drain' = Drain("failed")
    /\ UNCHANGED <<buffer, sampler, worker, observed, ground, answer, reached>>

\* The process starts again: AirFleetNode and its buffer are new.  An answer may
\* still be on its way.
AirRestart ==
    /\ session < MaxSession
    /\ session' = session + 1
    /\ samples' = <<>>
    /\ next' = 1
    /\ sampler' = "running"
    /\ worker' = IdleWorker
    /\ observed' = Cursor(0, 0)
    /\ drain' = Drain("off")
    /\ UNCHANGED <<ground, answer, recorded, reached>>

-----------------------------------------------------------------------------
(* The ground program.                                                     *)

airborne == <<buffer, sampler, observed, drain>>

GroundAsk ==
    /\ ~ground.waits
    /\ ground' = [ground EXCEPT !.waits = TRUE]
    /\ UNCHANGED <<airborne, answer, worker, reached>>

\* The report starts the copy over, or continues it; a hole it announces is lost.
GroundTake ==
    LET r == answer
        n == Len(r.names)
        fresh == r.reset \/ (n = 0 /\ r.session # ground.cursor.session)
        old == IF fresh THEN [NewGround EXCEPT !.cursor = Cursor(r.session, 0)] ELSE ground
        upto == IF n = 0 THEN old.cursor.after ELSE r.first + n - 1
    IN /\ ground.waits
       /\ r # NoReport
       /\ ground' = [cursor |-> Cursor(old.cursor.session, upto),
                     got |-> old.got \cup {[label |-> r.first + k - 1, name |-> r.names[k]] :
                                           k \in 1 .. n},
                     lost |-> IF n # 0 /\ (r.reset \/ r.overrun)
                              THEN old.lost \cup ((old.cursor.after + 1) .. (r.first - 1))
                              ELSE old.lost,
                     waits |-> FALSE]
       /\ answer' = NoReport
       /\ reached' = [reached EXCEPT ![old.cursor.session] = IF @ > upto THEN @ ELSE upto]
       /\ UNCHANGED <<airborne, worker>>

\* It gives the request up (to give up a report of nothing new is to take it), or
\* starts again and remembers nothing.
GroundFault ==
    /\ \/ /\ ground.waits /\ (answer = NoReport \/ answer.names # <<>>)
          /\ ground' = [ground EXCEPT !.waits = FALSE]
       \/ ground' = NewGround
    /\ answer' = NoReport
    /\ worker' = [worker EXCEPT !.live = FALSE]
    /\ UNCHANGED <<airborne, reached>>

-----------------------------------------------------------------------------
Init ==
    /\ session = 1
    /\ samples = <<>>
    /\ next = 1
    /\ sampler = "running"
    /\ worker = IdleWorker
    /\ observed = Cursor(0, 0)
    /\ drain = Drain("off")
    /\ ground = NewGround
    /\ answer = NoReport
    /\ recorded = [s \in Streams |-> 0]
    /\ reached = [s \in Streams |-> 0]

Next ==
    \/ (\E p \in Poses : Record(p)) \/ SamplerEnd
    \/ TakeRequest \/ TakeLate \/ Observe \/ Reply
    \/ DrainBegin \/ DrainJoin \/ DrainConfirm \/ DrainTimeout
    \/ AirRestart
    \/ GroundAsk \/ GroundTake \/ GroundFault

Spec == Init /\ [][Next]_vars

\* The threads run on, the ground goes on asking, and of the requests it repeats
\* one gets through; it gives up or starts again only so often.  Nothing is assumed
\* of the deadline.
Fairness ==
    /\ SF_vars(TakeRequest) /\ WF_vars(Observe \/ Reply)
    /\ WF_vars(DrainJoin \/ DrainConfirm)
    /\ WF_vars(GroundAsk \/ GroundTake)
    /\ <>[][~GroundFault]_vars

FairSpec == Spec /\ Fairness

-----------------------------------------------------------------------------
(* Properties.                                                             *)

Known == {g \in ground.got : /\ g.label = g.name.seq
                             /\ g.name.session = ground.cursor.session}

Log == INSTANCE TraceLog WITH
         Sessions <- Streams,
         copy <- [session |-> ground.cursor.session, upto |-> ground.cursor.after,
                  got |-> {g.label : g \in Known}, lost |-> ground.lost]

\* Whatever is overwritten, lost on the air, asked for twice or answered late,
\* and across restarts of either side: no sample is taken for another, and every
\* hole in the ground's copy was announced (build_report's flags).
ImplementsLog == Log!Spec

\* wait_for_trace_drain returns True only if a ground program has come as far as
\* the final cursor it read, late requests of earlier cursors notwithstanding.
DrainedIsHeld ==
    [][drain.at = "wait" /\ drain'.at = "drained" =>
         reached[drain.cursor.session] >= drain.cursor.after]_vars

\* The cursor is final: once it is read the stream grows by one sample at most,
\* the one the sampler was at when the join timed out.
CursorIsFinal ==
    drain.at = "wait" /\ session = drain.cursor.session =>
        /\ Latest <= drain.cursor.after + 1
        /\ Latest # drain.cursor.after => sampler = "dead"

\* Every report takes the ground further: even without its deadline a drain ends,
\* unless the sampler's last sample has begun another stream.
CatchesUp == drain.at = "wait" ~> drain.at # "wait" \/ session # drain.cursor.session
===============================================================================

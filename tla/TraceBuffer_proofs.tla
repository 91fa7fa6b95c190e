-------------------------- MODULE TraceBuffer_proofs ---------------------------
(***************************************************************************)
(* Theorems about TraceBuffer, for every buffer, batch and number range.   *)
(***************************************************************************)
EXTENDS TraceBuffer, TLAPS

\* The buffer holds the last samples of its stream, and lets go of one only when full.
BufferInv ==
    /\ next = recorded[session] + 1
    /\ Len(samples) <= recorded[session]
    /\ Len(samples) < recorded[session] => Len(samples) = Capacity
    /\ recorded[session] # 0 => samples # <<>>
    /\ \A i \in 1 .. Len(samples) :
          /\ samples[i].session = session
          /\ samples[i].seq = recorded[session] - Len(samples) + i
    /\ \A s \in Streams : s > session => recorded[s] = 0

\* A cursor anywhere is one a ground program has had, and of recorded samples.
Had(c) == IF c.session = 0 THEN c.after = 0 ELSE c.after <= reached[c.session]

CursorInv ==
    /\ \A s \in Streams : reached[s] <= recorded[s]
    /\ Had(ground.cursor) /\ Had(worker.cursor) /\ Had(observed)
    /\ ground.cursor.session <= session
    /\ worker.live => /\ worker.at # "idle"
                      /\ worker.cursor = ground.cursor
                      /\ ground.waits
                      /\ answer = NoReport

DrainInv ==
    /\ drain.at \in {"join", "wait"} => sampler # "running"
    /\ drain.at = "wait" => drain.cursor.session \in 1 .. session

\* An answer continues the cursor of the request, or announces what is missing.
AnswerInv ==
    LET n == Len(answer.names)
        s == answer.session
    IN answer # NoReport =>
         /\ s \in 1 .. session
         /\ \A k \in 1 .. n : answer.names[k] = [session |-> s, seq |-> answer.first + k - 1]
         /\ n # 0 => answer.first >= 1 /\ answer.first + n - 1 <= recorded[s]
         /\ answer.reset => n # 0 /\ s # ground.cursor.session
         /\ n # 0 /\ ~answer.reset => s = ground.cursor.session
         /\ n # 0 /\ ~answer.reset /\ ~answer.overrun => answer.first = ground.cursor.after + 1
         /\ answer.overrun => /\ ~answer.reset
                              /\ answer.first > ground.cursor.after + 1
         /\ answer.reset \/ answer.overrun =>
              answer.first = 1 \/ answer.first - 1 + Capacity <= recorded[s]

\* What the ground holds is what it thinks it is, up to its cursor.
CopyInv ==
    /\ \A g \in ground.got : g.label = g.name.seq /\ g.name.session = ground.cursor.session
    /\ \A g \in ground.got : g.label <= ground.cursor.after
    /\ ground.lost \subseteq 1 .. ground.cursor.after
    /\ ground.cursor.session # 0 =>
         \A n \in ground.lost : n + Capacity <= recorded[ground.cursor.session]

IInv == TypeOK /\ BufferInv /\ CursorInv /\ DrainInv /\ AnswerInv /\ CopyInv /\ CursorIsFinal

-----------------------------------------------------------------------------
\* The empty answer is no report, whose stream is never 0.
LEMMA NoReportIsNone == NoReport \notin Report
  BY DEF NoReport, Report, Streams

\* What the cursors of the state are.
LEMMA CursorType ==
    ASSUME NEW s \in 0 .. MaxSession, NEW n \in Seqs
    PROVE /\ Cursor(s, n) \in Cursors
          /\ Cursor(s, n).session = s
          /\ Cursor(s, n).after = n
  BY DEF Cursor, Cursors

LEMMA CursorParts ==
    ASSUME NEW c \in Cursors
    PROVE /\ c.session \in 0 .. MaxSession /\ c.session \in Nat
          /\ c.after \in Seqs /\ c.after \in Nat
          /\ c.session # 0 => c.session \in Streams
  BY ConstantsAssumption DEF ConstantsAssumption, Cursors, Seqs, Streams

LEMMA ZeroCursor == Cursor(0, 0) \in Cursors /\ Cursor(0, 0).session = 0 /\ Cursor(0, 0).after = 0
  BY ConstantsAssumption, CursorType DEF ConstantsAssumption, Seqs

LEMMA DrainType ==
    ASSUME NEW at \in {"off", "join", "wait", "drained", "failed"}
    PROVE Drain(at) \in Drains /\ Drain(at).at = at
  BY ZeroCursor DEF Drain, Drains

LEMMA IdleType == IdleWorker \in Workers /\ ~IdleWorker.live /\ IdleWorker.at = "idle"
                  /\ IdleWorker.cursor = Cursor(0, 0)
  BY ZeroCursor DEF IdleWorker, Workers

\* The last number of the buffer is the number of samples its stream was given.
LEMMA LatestIsRecorded == ASSUME TypeOK, BufferInv PROVE Latest = recorded[session]
  <1>. USE ConstantsAssumption DEF ConstantsAssumption
  <1>1. recorded[session] \in Nat /\ Len(samples) \in Nat
    BY DEF TypeOK, Seqs
  <1>2. CASE samples = <<>>
    BY <1>1, <1>2 DEF BufferInv, Latest
  <1>3. CASE samples # <<>>
    <2>1. Len(samples) \in 1 .. Len(samples)
      BY <1>1, <1>3 DEF TypeOK
    <2>. QED
      BY <1>1, <1>3, <2>1 DEF BufferInv, Latest
  <1>. QED
    BY <1>2, <1>3

LEMMA InitIInv == Init => IInv
  <1>. SUFFICES ASSUME Init PROVE IInv
    OBVIOUS
  <1>. USE ConstantsAssumption DEF ConstantsAssumption
  <1>1. TypeOK
    <2>1. ground \in Grounds
      BY ZeroCursor DEF Init, NewGround, Grounds
    <2>. QED
      BY <2>1, ZeroCursor, DrainType, IdleType DEF Init, TypeOK, Streams, Seqs
  <1>2. BufferInv
    BY DEF Init, BufferInv, Streams, Sample
  <1>3. CursorInv /\ DrainInv /\ CursorIsFinal
    BY DEF Init, CursorInv, DrainInv, CursorIsFinal, Had, Drain, Cursor, NewGround, IdleWorker,
           Streams
  <1>4. AnswerInv /\ CopyInv
    BY DEF Init, AnswerInv, CopyInv, NewGround, Cursor
  <1>. QED
    BY <1>1, <1>2, <1>3, <1>4 DEF IInv

LEMMA TakeStep ==
    ASSUME IInv, NEW c \in Cursors, NEW live \in BOOLEAN, Take(c, live), Had(c),
           live => c = ground.cursor /\ ground.waits /\ answer = NoReport
    PROVE  IInv'
  <1>. USE DEF IInv, Take, buffer
  <1>1. worker' \in Workers /\ worker'.live = live /\ worker'.cursor = c /\ worker'.at # "idle"
    BY DEF Workers
  <1>2. TypeOK'
    BY <1>1 DEF TypeOK
  <1>3. CursorInv'
    BY <1>1 DEF CursorInv, Had
  <1>4. BufferInv' /\ DrainInv' /\ AnswerInv' /\ CopyInv' /\ CursorIsFinal'
    BY DEF BufferInv, DrainInv, AnswerInv, CopyInv, CursorIsFinal, Latest
  <1>. QED
    BY <1>2, <1>3, <1>4

LEMMA ObserveStep == ASSUME IInv, Observe PROVE IInv'
  <1>. USE DEF IInv, Observe, buffer
  <1>. DEFINE c == worker.cursor
  <1>1. c \in Cursors /\ observed \in Cursors /\ worker \in Workers
    BY DEF TypeOK, Workers
  <1>2. Furthest(c) \in Seqs
    BY <1>1, CursorParts, ConstantsAssumption DEF Furthest, Seqs, ConstantsAssumption
  <1>3. /\ observed' \in Cursors
        /\ observed'.session = c.session
        /\ observed'.after = Furthest(c)
    BY <1>1, <1>2, CursorParts, CursorType
  <1>4. Had(observed')
    BY <1>1, <1>3, CursorParts DEF CursorInv, Had, Furthest
  <1>5. /\ worker' \in Workers
        /\ Had(worker'.cursor)
        /\ worker'.live => worker.live /\ worker'.cursor = c /\ worker'.at # "idle"
    <2>1. CASE worker.live
      BY <1>1, <2>1 DEF CursorInv, Workers
    <2>2. CASE ~worker.live
      BY <2>2, IdleType, ZeroCursor DEF Had
    <2>. QED
      BY <2>1, <2>2
  <1>6. TypeOK'
    BY <1>3, <1>5 DEF TypeOK
  <1>7. CursorInv'
    BY <1>4, <1>5 DEF CursorInv, Had
  <1>8. BufferInv' /\ DrainInv' /\ AnswerInv' /\ CopyInv' /\ CursorIsFinal'
    BY DEF BufferInv, DrainInv, AnswerInv, CopyInv, CursorIsFinal, Latest
  <1>. QED
    BY <1>6, <1>7, <1>8

LEMMA DrainJoinStep == ASSUME IInv, DrainJoin PROVE IInv'
  <1>. USE DEF IInv, DrainJoin, buffer
  <1>1. /\ Latest = recorded[session] /\ Latest \in Seqs
        /\ session \in Streams /\ session \in 0 .. MaxSession
    BY LatestIsRecorded, ConstantsAssumption DEF TypeOK, Streams, ConstantsAssumption
  <1>2. /\ drain' \in Drains
        /\ drain'.at \in {"drained", "wait"}
        /\ drain'.at = "wait" => drain'.cursor = Cursor(session, Latest)
    BY <1>1, CursorType, DrainType DEF Drains
  <1>3. TypeOK'
    BY <1>2 DEF TypeOK
  <1>4. DrainInv'
    BY <1>1, <1>2, CursorType DEF DrainInv, Streams
  <1>5. CursorIsFinal'
    <2>. SUFFICES ASSUME drain'.at = "wait"
                  PROVE  Latest' <= drain'.cursor.after + 1 /\ Latest' = drain'.cursor.after
      BY DEF CursorIsFinal
    <2>1. drain'.cursor.after = Latest /\ Latest' = Latest
      BY <1>1, <1>2, CursorType DEF Latest
    <2>. QED
      BY <1>1, <2>1, ConstantsAssumption DEF Seqs, ConstantsAssumption
  <1>6. BufferInv' /\ CursorInv' /\ AnswerInv' /\ CopyInv'
    BY DEF BufferInv, CursorInv, Had, AnswerInv, CopyInv
  <1>. QED
    BY <1>3, <1>4, <1>5, <1>6

LEMMA AirRestartStep == ASSUME IInv, AirRestart PROVE IInv'
  <1>. USE ConstantsAssumption DEF ConstantsAssumption, IInv, AirRestart
  <1>1. session \in Nat /\ session' \in Streams /\ session' = session + 1
    BY DEF TypeOK, Streams
  <1>2. TypeOK'
    BY <1>1, ZeroCursor, DrainType, IdleType DEF TypeOK
  <1>3. recorded'[session'] = 0
    BY <1>1 DEF BufferInv
  <1>4. BufferInv'
    BY <1>1, <1>3 DEF BufferInv, Streams
  <1>5. CursorInv'
    <2>1. ground.cursor \in Cursors
      BY DEF TypeOK, Grounds
    <2>. QED
      BY <1>1, <2>1, CursorParts, IdleType, ZeroCursor DEF CursorInv, Had
  <1>6. AnswerInv'
    BY <1>1 DEF AnswerInv
  <1>7. DrainInv' /\ CursorIsFinal'
    BY DrainType DEF DrainInv, CursorIsFinal
  <1>8. CopyInv'
    BY DEF CopyInv
  <1>. QED
    BY <1>2, <1>4, <1>5, <1>6, <1>7, <1>8

LEMMA GroundAskStep == ASSUME IInv, GroundAsk PROVE IInv'
  <1>. USE DEF IInv, GroundAsk, airborne, buffer
  <1>1. /\ ground' \in Grounds /\ ground'.waits
        /\ ground'.cursor = ground.cursor
        /\ ground'.got = ground.got /\ ground'.lost = ground.lost
    BY DEF TypeOK, Grounds
  <1>2. TypeOK'
    BY <1>1 DEF TypeOK
  <1>3. BufferInv' /\ CursorInv' /\ DrainInv' /\ AnswerInv' /\ CopyInv' /\ CursorIsFinal'
    BY <1>1 DEF BufferInv, CursorInv, Had, DrainInv, AnswerInv, CopyInv, CursorIsFinal, Latest
  <1>. QED
    BY <1>2, <1>3

LEMMA GroundFaultStep == ASSUME IInv, GroundFault PROVE IInv'
  <1>. USE DEF IInv, GroundFault, airborne, buffer
  <1>1. ground \in Grounds /\ worker \in Workers
    BY DEF TypeOK
  <1>2. /\ ground' \in Grounds
        /\ \/ ground'.cursor = ground.cursor /\ ground'.got = ground.got /\ ground'.lost = ground.lost
           \/ ground'.cursor = Cursor(0, 0) /\ ground'.got = {} /\ ground'.lost = {}
    <2>1. CASE ground' = [ground EXCEPT !.waits = FALSE]
      BY <1>1, <2>1 DEF Grounds
    <2>2. CASE ground' = NewGround
      BY <2>2, ZeroCursor DEF Grounds, NewGround
    <2>. QED
      BY <2>1, <2>2
  <1>3. worker' \in Workers /\ ~worker'.live /\ worker'.cursor = worker.cursor
    BY <1>1 DEF Workers
  <1>4. TypeOK'
    BY <1>2, <1>3 DEF TypeOK
  <1>5. CursorInv'
    <2>1. session \in Nat
      BY DEF TypeOK, Streams
    <2>. QED
      BY <1>2, <1>3, <2>1, ZeroCursor DEF CursorInv, Had
  <1>6. CopyInv'
    BY <1>2, ZeroCursor DEF CopyInv
  <1>7. BufferInv' /\ DrainInv' /\ AnswerInv' /\ CursorIsFinal'
    BY DEF BufferInv, DrainInv, AnswerInv, CursorIsFinal, Latest
  <1>. QED
    BY <1>4, <1>5, <1>6, <1>7

\* The numbers of a buffer of L samples that lets its oldest go.
LEMMA Shift ==
    ASSUME NEW R \in Nat, NEW L \in Nat, NEW i \in Nat
    PROVE  R - L + (i + 1) = R - (L - 1) + i
  OBVIOUS

\* What a stored sample does to the buffer: it goes behind samples of its stream.
LEMMA RecordEffect ==
    ASSUME IInv, NEW p \in Poses, Record(p), ~UNCHANGED buffer
    PROVE  \E kept \in Seq(Sample), x \in Sample :
             /\ samples' = Append(kept, x)
             /\ session' \in Streams /\ session' \in {session, session + 1}
             /\ x.session = session'
             /\ x.seq = recorded[session'] + 1
             /\ next' = x.seq + 1
             /\ recorded' = [recorded EXCEPT ![session'] = x.seq]
             /\ Len(kept) < Capacity
             /\ Len(kept) <= recorded[session']
             /\ Len(kept) < recorded[session'] => Len(kept) + 1 = Capacity
             /\ \A i \in 1 .. Len(kept) :
                   /\ kept[i].session = session'
                   /\ kept[i].seq = recorded[session'] - Len(kept) + i
  <1>. USE ConstantsAssumption DEF ConstantsAssumption, IInv
  <1>. DEFINE first == samples = <<>>
              back == ~first /\ p = "back"
              reset == back \/ OutOfNumbers
              here == IF reset THEN session + 1 ELSE session
              seq == IF reset THEN 1 ELSE next
              kept == IF reset THEN <<>>
                      ELSE IF Len(samples) = Capacity THEN Tail(samples) ELSE samples
              x == [session |-> here, seq |-> seq, far |-> kept # <<>> /\ p = "far"]
  <1>1. /\ here <= MaxSession
        /\ session' = here
        /\ samples' = Append(kept, x)
        /\ next' = seq + 1
        /\ recorded' = [recorded EXCEPT ![here] = seq]
    BY DEF Record
  <1>2. here \in Streams /\ here \in {session, session + 1} /\ session \in Nat
    BY <1>1 DEF TypeOK, Streams
  <1>3. /\ samples \in Seq(Sample) /\ Len(samples) \in Nat /\ Len(samples) <= Capacity
        /\ recorded[session] \in Nat /\ recorded[here] \in Nat
        /\ next \in 1 .. MaxSampleSeq + 1 /\ next = recorded[session] + 1
    BY <1>2 DEF TypeOK, BufferInv, Seqs
  <1>4. seq = recorded[here] + 1 /\ seq \in 1 .. MaxSampleSeq
    <2>1. CASE reset
      BY <1>2, <2>1 DEF BufferInv
    <2>2. CASE ~reset
      BY <1>3, <2>2 DEF OutOfNumbers
    <2>. QED
      BY <2>1, <2>2
  <1>5. x \in Sample
    BY <1>2, <1>4 DEF Sample
  <1>6. /\ kept \in Seq(Sample)
        /\ Len(kept) < Capacity
        /\ Len(kept) <= recorded[here]
        /\ Len(kept) < recorded[here] => Len(kept) + 1 = Capacity
        /\ \A i \in 1 .. Len(kept) :
              /\ kept[i].session = here
              /\ kept[i].seq = recorded[here] - Len(kept) + i
    <2>1. CASE reset
      BY <1>2, <1>3, <2>1 DEF BufferInv
    <2>2. CASE ~reset /\ Len(samples) = Capacity
      <3>1. samples # <<>> /\ kept = Tail(samples) /\ here = session
        BY <1>3, <2>2
      <3>2. /\ kept \in Seq(Sample) /\ Len(kept) = Capacity - 1
            /\ \A i \in 1 .. Len(kept) : kept[i] = samples[i + 1] /\ i + 1 \in 1 .. Len(samples)
        BY <1>3, <2>2, <3>1
      <3>3. recorded[here] >= Capacity
        BY <1>3, <2>2, <3>1 DEF BufferInv
      <3>4. \A i \in 1 .. Len(kept) :
              /\ kept[i].session = session
              /\ kept[i].seq = recorded[session] - Len(samples) + (i + 1)
        BY <3>2 DEF BufferInv
      <3>5. \A i \in 1 .. Len(kept) :
              /\ kept[i].session = here
              /\ kept[i].seq = recorded[here] - Len(kept) + i
        <4>1. here = session /\ Len(kept) = Len(samples) - 1
          BY <1>3, <2>2, <3>1, <3>2
        <4>. HIDE DEF kept, here
        <4>. SUFFICES ASSUME NEW i \in 1 .. Len(kept)
                      PROVE  /\ kept[i].session = here
                             /\ kept[i].seq = recorded[here] - Len(kept) + i
          OBVIOUS
        <4>2. i \in Nat /\ Len(samples) \in Nat /\ recorded[session] \in Nat
          BY <1>3, <4>1
        <4>3. kept[i].session = session /\ kept[i].seq = recorded[session] - Len(samples) + (i + 1)
          BY <3>4
        <4>4. recorded[here] = recorded[session] /\ Len(kept) = Len(samples) - 1
          BY <4>1
        <4>5. recorded[session] - Len(samples) + (i + 1) = recorded[session] - (Len(samples) - 1) + i
          BY <4>2, Shift
        <4>. QED
          BY <4>1, <4>3, <4>4, <4>5
      <3>. HIDE DEF kept, here
      <3>. QED
        BY <1>3, <2>2, <3>2, <3>3, <3>5
    <2>3. CASE ~reset /\ Len(samples) # Capacity
      <3>1. kept = samples /\ here = session
        BY <2>3
      <3>. QED
        BY <1>3, <2>3, <3>1 DEF BufferInv
    <2>. QED
      BY <2>1, <2>2, <2>3
  <1>7. x.session = here /\ x.seq = seq
    OBVIOUS
  <1>. HIDE DEF kept, x, here, seq
  <1>. QED
    BY <1>1, <1>2, <1>4, <1>5, <1>6, <1>7

LEMMA RecordStep == ASSUME IInv, NEW p \in Poses, Record(p) PROVE IInv'
  <1>. USE ConstantsAssumption DEF ConstantsAssumption, IInv
  <1>1. /\ sampler \in {"running", "stopping"} /\ sampler' \in {"running", "stopping", "dead"}
        /\ sampler' = IF sampler = "stopping" THEN "dead" ELSE sampler
        /\ UNCHANGED <<worker, observed, drain, ground, answer, reached>>
    BY DEF Record, TypeOK
  <1>2. CASE UNCHANGED buffer
    <2>1. TypeOK' /\ BufferInv' /\ CursorInv'
      BY <1>1, <1>2 DEF TypeOK, BufferInv, CursorInv, Had, buffer
    <2>2. DrainInv' /\ AnswerInv' /\ CopyInv' /\ CursorIsFinal'
      BY <1>1, <1>2 DEF DrainInv, AnswerInv, CopyInv, CursorIsFinal, Latest, buffer
    <2>. QED
      BY <2>1, <2>2
  <1>3. CASE ~UNCHANGED buffer
    <2>1. PICK kept \in Seq(Sample), x \in Sample :
             /\ samples' = Append(kept, x)
             /\ session' \in Streams /\ session' \in {session, session + 1}
             /\ x.session = session'
             /\ x.seq = recorded[session'] + 1
             /\ next' = x.seq + 1
             /\ recorded' = [recorded EXCEPT ![session'] = x.seq]
             /\ Len(kept) < Capacity
             /\ Len(kept) <= recorded[session']
             /\ Len(kept) < recorded[session'] => Len(kept) + 1 = Capacity
             /\ \A i \in 1 .. Len(kept) :
                   /\ kept[i].session = session'
                   /\ kept[i].seq = recorded[session'] - Len(kept) + i
      BY <1>3, RecordEffect
    <2>2. /\ session \in Nat /\ session' \in Nat
          /\ recorded \in [Streams -> Seqs] /\ Len(kept) \in Nat
          /\ x.seq \in 1 .. MaxSampleSeq
      BY <2>1 DEF TypeOK, Streams, Sample
    <2>3. /\ samples' \in Seq(Sample) /\ Len(samples') = Len(kept) + 1
          /\ samples' # <<>>
          /\ \A i \in 1 .. Len(samples') :
                samples'[i] = IF i = Len(kept) + 1 THEN x ELSE kept[i]
      BY <2>1, <2>2
    <2>4. /\ recorded' \in [Streams -> Seqs]
          /\ recorded'[session'] = recorded[session'] + 1
          /\ \A s \in Streams : recorded[s] \in Nat /\ recorded'[s] \in Nat
                                /\ recorded[s] <= recorded'[s]
          /\ \A s \in Streams : s # session' => recorded'[s] = recorded[s]
      BY <2>1, <2>2 DEF Seqs
    <2>5. TypeOK'
      <3>1. Len(samples') <= Capacity /\ next' \in 1 .. MaxSampleSeq + 1
        BY <2>1, <2>2, <2>3
      <3>2. /\ worker' \in Workers /\ observed' \in Cursors /\ drain' \in Drains
            /\ ground' \in Grounds /\ answer' \in Report \cup {NoReport}
            /\ reached' \in [Streams -> Seqs]
        BY <1>1 DEF TypeOK
      <3>. QED
        BY <1>1, <2>1, <2>3, <2>4, <3>1, <3>2 DEF TypeOK
    <2>6. BufferInv'
      <3>1. \A i \in 1 .. Len(samples') :
              /\ samples'[i].session = session'
              /\ samples'[i].seq = recorded'[session'] - Len(samples') + i
        BY <2>1, <2>2, <2>3, <2>4
      <3>2. \A s \in Streams : s > session' => recorded'[s] = 0
        BY <2>1, <2>2, <2>4 DEF BufferInv, Streams
      <3>3. next' = recorded'[session'] + 1
        BY <2>1, <2>4
      <3>4. /\ Len(samples') <= recorded'[session']
            /\ Len(samples') < recorded'[session'] => Len(samples') = Capacity
        BY <2>1, <2>2, <2>3, <2>4
      <3>. QED
        BY <2>3, <3>1, <3>2, <3>3, <3>4 DEF BufferInv
    <2>7. CursorInv'
      <3>1. ground.cursor.session \in Nat /\ \A s \in Streams : reached[s] \in Nat
        BY CursorParts DEF TypeOK, Grounds, Seqs
      <3>2. \A s \in Streams : reached'[s] <= recorded'[s]
        BY <1>1, <2>4, <3>1 DEF CursorInv
      <3>3. ground'.cursor.session <= session'
        BY <1>1, <2>1, <2>2, <3>1 DEF CursorInv
      <3>. QED
        BY <1>1, <3>2, <3>3 DEF CursorInv, Had
    <2>8. DrainInv'
      BY <1>1, <2>1, <2>2 DEF DrainInv
    <2>9. AnswerInv'
      <3>. SUFFICES ASSUME answer # NoReport PROVE AnswerInv'
        BY <1>1 DEF AnswerInv
      <3>1. answer \in Report /\ answer.session \in Streams /\ answer.first \in Nat
            /\ Len(answer.names) \in Nat
        BY DEF TypeOK, Report, Seqs
      <3>2. recorded[answer.session] <= recorded'[answer.session]
            /\ recorded[answer.session] \in Nat /\ recorded'[answer.session] \in Nat
        BY <2>4, <3>1
      <3>3. answer.session \in 1 .. session => answer.session \in 1 .. session'
        BY <2>1, <2>2
      <3>4. answer' = answer /\ ground' = ground
        BY <1>1
      <3>5. Len(answer.names) # 0 => answer.first + Len(answer.names) - 1 <= recorded'[answer.session]
        <4>1. Len(answer.names) # 0 =>
                answer.first + Len(answer.names) - 1 <= recorded[answer.session]
          BY DEF AnswerInv
        <4>. QED
          BY <3>1, <3>2, <4>1
      <3>6. answer.reset \/ answer.overrun =>
              answer.first = 1 \/ answer.first - 1 + Capacity <= recorded'[answer.session]
        <4>1. answer.reset \/ answer.overrun =>
                answer.first = 1 \/ answer.first - 1 + Capacity <= recorded[answer.session]
          BY DEF AnswerInv
        <4>. QED
          BY <3>1, <3>2, <4>1
      <3>. QED
        BY <3>3, <3>4, <3>5, <3>6 DEF AnswerInv
    <2>10. CopyInv'
      <3>1. ground.cursor \in Cursors /\ ground.lost \subseteq Nat
        BY DEF TypeOK, Grounds
      <3>2. ground.cursor.session # 0 =>
              /\ recorded[ground.cursor.session] \in Nat /\ recorded'[ground.cursor.session] \in Nat
              /\ recorded[ground.cursor.session] <= recorded'[ground.cursor.session]
        BY <2>4, <3>1, CursorParts
      <3>3. ground' = ground
        BY <1>1
      <3>4. ASSUME ground.cursor.session # 0, NEW n \in ground.lost
            PROVE  n + Capacity <= recorded'[ground.cursor.session]
        <4>1. n \in Nat /\ n + Capacity <= recorded[ground.cursor.session]
          BY <3>1, <3>4 DEF CopyInv
        <4>. QED
          BY <3>2, <3>4, <4>1
      <3>. QED
        BY <3>3, <3>4 DEF CopyInv
    <2>11. CursorIsFinal'
      <3>. SUFFICES ASSUME drain.at = "wait", session' = drain.cursor.session
                    PROVE  Latest' <= drain.cursor.after + 1 /\ sampler' = "dead"
        BY <1>1 DEF CursorIsFinal
      <3>1. session' = session /\ sampler' = "dead" /\ sampler = "stopping"
        BY <1>1, <2>1, <2>2 DEF DrainInv
      <3>2. recorded[session] = drain.cursor.after
        BY <3>1, LatestIsRecorded DEF CursorIsFinal
      <3>3. Latest' = recorded'[session']
        BY <2>5, <2>6, LatestIsRecorded, <2>1, <2>2, <2>3, <2>4 DEF Latest
      <3>4. Latest' = recorded[session] + 1 /\ recorded[session] \in Nat
        BY <2>1, <2>4, <3>1, <3>3
      <3>. QED
        BY <3>1, <3>2, <3>4
    <2>. QED
      BY <2>5, <2>6, <2>7, <2>8, <2>9, <2>10, <2>11
  <1>. QED
    BY <1>2, <1>3

LEMMA EmptyReport ==
    ASSUME NEW s \in Streams
    PROVE  [session |-> s, first |-> 0, names |-> <<>>, reset |-> FALSE, overrun |-> FALSE]
             \in Report
  <1>1. <<>> \in Seq(Name) /\ 0 \in Seqs
    BY ConstantsAssumption DEF ConstantsAssumption, Seqs
  <1>. QED
    BY <1>1 DEF Report

\* What the worker answers to a cursor a ground program has had.
LEMMA ReportIsSound ==
    ASSUME IInv, NEW n \in 0 .. Batch, worker.live,
           Longest(Start(worker.cursor), n), answer' = BuildReport(worker.cursor, n),
           UNCHANGED <<buffer, ground>>
    PROVE  answer' \in Report /\ AnswerInv'
  <1>. USE ConstantsAssumption DEF ConstantsAssumption, IInv
  <1>. DEFINE c == worker.cursor
              L == Len(samples)
              R == recorded[session]
              oldest == R - L + 1
              r == BuildReport(c, n)
  <1>1. /\ session \in Streams /\ session \in Nat /\ session >= 1
        /\ L \in Nat /\ R \in Nat /\ n \in Nat /\ L <= R
        /\ c = ground.cursor /\ c \in Cursors /\ c.after \in Nat
        /\ Latest = R /\ R <= MaxSampleSeq
    BY LatestIsRecorded, CursorParts DEF TypeOK, Workers, Streams, Seqs, BufferInv, CursorInv
  <1>2. c.session = session => c.after <= R
    <2>1. c.session = session => c.after <= reached[session] /\ reached[session] <= R
      BY <1>1 DEF CursorInv, Had
    <2>2. reached[session] \in Nat
      BY <1>1 DEF TypeOK, Seqs
    <2>. QED
      BY <1>1, <2>1, <2>2
  <1>3. StartsOver(c) <=> c.session # session
    BY <1>1, <1>2 DEF StartsOver
  <1>4. CASE samples = <<>>
    <2>1. answer' = [NoReport EXCEPT !.session = session]
      BY <1>4 DEF BuildReport
    <2>2. /\ answer'.session = session /\ answer'.names = <<>> /\ answer'.first = 0
          /\ ~answer'.reset /\ ~answer'.overrun
      BY <2>1 DEF NoReport
    <2>3. answer' \in Report
      <3>1. answer' = [session |-> session, first |-> 0, names |-> <<>>,
                       reset |-> FALSE, overrun |-> FALSE]
        BY <2>1 DEF NoReport
      <3>. QED
        BY <1>1, <3>1, EmptyReport
    <2>. QED
      BY <1>1, <2>2, <2>3 DEF AnswerInv, buffer
  <1>5. CASE samples # <<>>
    <2>. DEFINE st == Start(c)
    <2>. HIDE DEF L, R, oldest, c, st
    <2>1. L >= 1 /\ \A i \in 1 .. L : samples[i].session = session /\ samples[i].seq = R - L + i
      BY <1>1, <1>5 DEF BufferInv, TypeOK, L, R
    <2>2. samples[1].seq = oldest /\ oldest \in Nat /\ oldest >= 1
      BY <1>1, <2>1 DEF oldest
    <2>3. \/ StartsOver(c) /\ ~Overrun(c) /\ st = 1
          \/ ~StartsOver(c) /\ Overrun(c) /\ st = 1 /\ c.after + 1 < oldest
          \/ ~StartsOver(c) /\ ~Overrun(c) /\ st = c.after + 2 - oldest /\ st \in 1 .. L + 1
      <3>1. CASE StartsOver(c)
        BY <3>1 DEF Overrun, Start, st
      <3>2. CASE ~StartsOver(c) /\ Overrun(c)
        BY <2>2, <3>2 DEF Overrun, Start, st
      <3>3. CASE ~StartsOver(c) /\ ~Overrun(c)
        <4>1. st = c.after + 2 - oldest
          BY <1>5, <2>2, <3>3 DEF Start, st
        <4>2. ~(c.after + 1 < oldest) /\ c.after <= R
          BY <1>2, <1>3, <2>2, <3>3 DEF Overrun
        <4>. QED
          BY <1>1, <2>1, <3>3, <4>1, <4>2 DEF oldest
      <3>. QED
        BY <3>1, <3>2, <3>3
    <2>4. st \in Nat /\ st >= 1 /\ st + n - 1 <= L
      BY <1>1, <2>1, <2>3 DEF Longest, Fits, L, st, c
    <2>5. n = 0 => st = L + 1
      <3>. SUFFICES ASSUME n = 0, st # L + 1 PROVE FALSE
        OBVIOUS
      <3>1. ~Fits(st, 1)
        BY DEF Longest, st, c
      <3>2. st \in 1 .. L
        BY <1>1, <2>3, <2>4, <2>1
      <3>. QED
        BY <1>1, <3>1, <3>2 DEF Fits, L
    <2>6. /\ answer'.session = session
          /\ answer'.first = IF n = 0 THEN 0 ELSE samples[st].seq
          /\ answer'.names = [k \in 1 .. n |-> NameOf(samples[st + k - 1])]
          /\ answer'.reset = StartsOver(c) /\ answer'.overrun = Overrun(c)
      BY <1>5 DEF BuildReport, c, st
    <2>7. \A k \in 1 .. n : /\ st + k - 1 \in 1 .. L
                            /\ samples[st + k - 1].session = session
                            /\ samples[st + k - 1].seq = R - L + st + k - 1
      BY <1>1, <2>1, <2>4
    <2>8. n # 0 => answer'.first = R - L + st /\ answer'.first >= 1 /\ answer'.first + n - 1 <= R
      <3>. SUFFICES ASSUME n # 0 PROVE answer'.first = R - L + st /\ n >= 1
        BY <1>1, <2>1, <2>4
      <3>1. n >= 1 /\ st \in 1 .. L
        BY <1>1, <2>4
      <3>. QED
        BY <2>1, <2>6, <3>1
    <2>9. \A k \in 1 .. n : answer'.names[k] = [session |-> session, seq |-> answer'.first + k - 1]
      <3>. SUFFICES ASSUME NEW k \in 1 .. n
                    PROVE  answer'.names[k] = [session |-> session, seq |-> answer'.first + k - 1]
        OBVIOUS
      <3>1. answer'.names[k] = NameOf(samples[st + k - 1])
        BY <2>6
      <3>2. answer'.first + k - 1 = R - L + st + k - 1
        BY <1>1, <2>4, <2>8
      <3>. QED
        BY <2>7, <3>1, <3>2 DEF NameOf
    <2>10. answer'.names \in Seq(Name) /\ Len(answer'.names) = n
      <3>1. \A k \in 1 .. n : NameOf(samples[st + k - 1]) \in Name
        BY <1>1, <2>1, <2>2, <2>7 DEF NameOf, Name
      <3>. QED
        BY <1>1, <2>6, <3>1
    <2>11. answer' \in Report
      <3>1. answer'.first \in Seqs
        BY <1>1, <2>6, <2>8, <2>4 DEF Seqs
      <3>2. StartsOver(c) \in BOOLEAN /\ Overrun(c) \in BOOLEAN
        BY DEF StartsOver, Overrun
      <3>3. answer' = [session |-> session, first |-> answer'.first, names |-> answer'.names,
                       reset |-> StartsOver(c), overrun |-> Overrun(c)]
        BY <1>5, <2>6 DEF BuildReport, c
      <3>. QED
        BY <1>1, <2>10, <3>1, <3>2, <3>3 DEF Report
    <2>12. StartsOver(c) => n # 0 /\ session # c.session
      BY <1>1, <1>3, <2>1, <2>3, <2>5
    <2>13. Overrun(c) => ~StartsOver(c) /\ n # 0 /\ answer'.first > c.after + 1
      BY <1>1, <2>1, <2>2, <2>3, <2>5, <2>8
    <2>14. n # 0 /\ ~StartsOver(c) /\ ~Overrun(c) => answer'.first = c.after + 1
      BY <1>1, <2>3, <2>8 DEF oldest
    <2>15. StartsOver(c) \/ Overrun(c) => answer'.first = 1 \/ answer'.first - 1 + Capacity <= R
      <3>1. L < R => L = Capacity
        BY DEF BufferInv, L, R
      <3>. QED
        BY <1>1, <2>3, <2>8, <2>12, <2>13, <3>1
    <2>16. /\ session' = session /\ recorded' = recorded /\ ground' = ground
      BY DEF buffer
    <2>. QED
      BY <1>1, <1>3, <2>6, <2>8, <2>9, <2>10, <2>11, <2>12, <2>13, <2>14, <2>15, <2>16
         DEF AnswerInv, R
  <1>. QED
    BY <1>4, <1>5

LEMMA ReplyStep == ASSUME IInv, Reply PROVE IInv'
  <1>. USE DEF IInv, Reply
  <1>1. answer' \in Report \cup {NoReport} /\ AnswerInv'
    <2>1. CASE worker.live
      <3>1. PICK n \in 0 .. Batch : /\ Longest(Start(worker.cursor), n)
                                    /\ answer' = BuildReport(worker.cursor, n)
        BY <2>1
      <3>. QED
        BY <2>1, <3>1, ReportIsSound
    <2>2. CASE ~worker.live
      BY <2>2 DEF TypeOK, AnswerInv, buffer
    <2>. QED
      BY <2>1, <2>2
  <1>2. TypeOK'
    BY <1>1, IdleType DEF TypeOK, buffer
  <1>3. BufferInv' /\ CursorInv' /\ DrainInv' /\ CopyInv' /\ CursorIsFinal'
    BY IdleType, ZeroCursor
       DEF BufferInv, CursorInv, Had, DrainInv, CopyInv, CursorIsFinal, Latest, buffer
  <1>. QED
    BY <1>1, <1>2, <1>3

\* The last number n labels from f on reach, when the cursor they follow is a.
LEMMA Reaches ==
    ASSUME NEW a \in Nat, NEW n \in Nat, NEW f \in Nat, NEW R \in Nat, NEW C \in Nat,
           n # 0, f >= a + 1, f + n - 1 <= R, f # a + 1 => f - 1 + C <= R
    PROVE  /\ f + n - 1 \in Nat /\ a + n <= f + n - 1
           /\ (f + n - 1) - n = f - 1
           /\ a + n # f + n - 1 => (f + n - 1) - n + C <= R
  OBVIOUS

\* What the ground makes of a report: its copy, or a new one, goes on to upto.
LEMMA TakeEffect ==
    ASSUME IInv, GroundTake
    PROVE  \E old \in Grounds, upto \in Nat :
             LET s == answer.session
                 n == Len(answer.names)
                 news == {[label |-> answer.first + k - 1, name |-> answer.names[k]] : k \in 1 .. n}
             IN /\ s \in Streams /\ s \in 1 .. session
                /\ old.cursor.session = s
                /\ old = ground \/ (/\ ground.cursor.session # s
                                    /\ old.cursor.after = 0 /\ old.got = {} /\ old.lost = {})
                /\ ground' = [cursor |-> Cursor(s, upto), got |-> old.got \cup news,
                              lost |-> old.lost \cup ((old.cursor.after + 1) .. (upto - n)),
                              waits |-> FALSE]
                /\ old.cursor.after + n <= upto /\ upto <= recorded[s]
                /\ old.cursor.after + n # upto => upto - n + Capacity <= recorded[s]
                /\ n # 0 => answer.first + n - 1 = upto
                /\ reached' = [reached EXCEPT ![s] = IF @ > upto THEN @ ELSE upto]
  <1>. USE ConstantsAssumption DEF ConstantsAssumption, IInv
  <1>. DEFINE s == answer.session
              n == Len(answer.names)
              news == {[label |-> answer.first + k - 1, name |-> answer.names[k]] : k \in 1 .. n}
              fresh == answer.reset \/ (n = 0 /\ s # ground.cursor.session)
              old == IF fresh THEN [NewGround EXCEPT !.cursor = Cursor(s, 0)] ELSE ground
              upto == IF n = 0 THEN old.cursor.after ELSE answer.first + n - 1
  <1>1. /\ answer \in Report /\ s \in Streams /\ s \in 0 .. MaxSession /\ s \in 1 .. session
        /\ answer.first \in Nat /\ n \in Nat /\ recorded[s] \in Nat /\ 0 \in Seqs
        /\ answer.names \in Seq(Name) /\ reached[s] \in Nat
    BY DEF GroundTake, TypeOK, Report, Seqs, AnswerInv, Streams
  <1>2. ground \in Grounds /\ ground.cursor \in Cursors /\ ground.cursor.after \in Nat
    BY CursorParts DEF TypeOK, Grounds
  <1>3. /\ old \in Grounds /\ old.cursor.session = s /\ old.cursor.after \in Nat
        /\ old = ground \/ (/\ ground.cursor.session # s
                            /\ old.cursor.after = 0 /\ old.got = {} /\ old.lost = {})
    <2>1. CASE fresh
      <3>1. /\ old.cursor = Cursor(s, 0) /\ old.got = {} /\ old.lost = {} /\ ~old.waits
            /\ old = [cursor |-> Cursor(s, 0), got |-> {}, lost |-> {}, waits |-> FALSE]
        BY <2>1 DEF NewGround
      <3>2. ground.cursor.session # s
        BY <1>1, <2>1 DEF AnswerInv, GroundTake
      <3>3. [cursor |-> Cursor(s, 0), got |-> {}, lost |-> {}, waits |-> FALSE] \in Grounds
        BY <1>1, CursorType DEF Grounds
      <3>. HIDE DEF old, s
      <3>. QED
        BY <1>1, <3>1, <3>2, <3>3, CursorType
    <2>2. CASE ~fresh
      BY <1>1, <1>2, <2>2 DEF AnswerInv, GroundTake
    <2>. QED
      BY <2>1, <2>2
  <1>4. old = ground => old.cursor.after <= recorded[s]
    <2>1. old = ground => old.cursor.after <= reached[s] /\ reached[s] <= recorded[s]
      <3>. HIDE DEF old
      <3>. SUFFICES ASSUME old = ground PROVE ground.cursor.after <= reached[s] /\ reached[s] <= recorded[s]
        OBVIOUS
      <3>1. ground.cursor.session = s /\ s # 0
        BY <1>1, <1>3 DEF Streams
      <3>. QED
        BY <1>1, <3>1 DEF CursorInv, Had
    <2>. HIDE DEF old, s
    <2>. QED
      BY <1>1, <1>3, <2>1
  <1>5. n # 0 => /\ answer.first >= 1 /\ answer.first + n - 1 <= recorded[s]
                 /\ answer.first >= old.cursor.after + 1
                 /\ answer.first # old.cursor.after + 1 =>
                      /\ answer.reset \/ answer.overrun
                      /\ answer.first - 1 + Capacity <= recorded[s]
    <2>1. answer # NoReport
      BY DEF GroundTake
    <2>2. CASE answer.reset
      BY <1>1, <2>1, <2>2 DEF AnswerInv, NewGround, Cursor
    <2>3. CASE ~answer.reset /\ n # 0
      <3>1. old = ground
        BY <2>3
      <3>2. /\ answer.first >= 1 /\ answer.first + n - 1 <= recorded[s]
            /\ ~answer.overrun => answer.first = ground.cursor.after + 1
            /\ answer.overrun => /\ answer.first > ground.cursor.after + 1
                                 /\ answer.first = 1 \/ answer.first - 1 + Capacity <= recorded[s]
        BY <2>1, <2>3 DEF AnswerInv
      <3>. HIDE DEF old, n, s
      <3>. QED
        BY <1>1, <1>2, <3>1, <3>2
    <2>. QED
      BY <2>2, <2>3
  <1>6. /\ upto \in Nat /\ old.cursor.after + n <= upto /\ upto <= recorded[s]
        /\ old.cursor.after + n # upto => upto - n + Capacity <= recorded[s]
        /\ n # 0 => answer.first + n - 1 = upto /\ upto - n = answer.first - 1
        /\ n = 0 => upto - n = old.cursor.after
    <2>. HIDE DEF old, n, s, news, fresh
    <2>1. CASE n = 0
      <3>1. upto = old.cursor.after
        BY <2>1
      <3>. HIDE DEF upto
      <3>. QED
        BY <1>1, <1>3, <1>4, <2>1, <3>1
    <2>2. CASE n # 0
      <3>1. upto = answer.first + n - 1
        BY <2>2
      <3>. HIDE DEF upto
      <3>2. /\ answer.first + n - 1 \in Nat /\ old.cursor.after + n <= answer.first + n - 1
            /\ (answer.first + n - 1) - n = answer.first - 1
            /\ old.cursor.after + n # answer.first + n - 1 =>
                 (answer.first + n - 1) - n + Capacity <= recorded[s]
        <4>1. old.cursor.after \in Nat /\ n \in Nat /\ answer.first \in Nat
              /\ recorded[s] \in Nat /\ Capacity \in Nat
          BY <1>1, <1>3
        <4>2. /\ answer.first >= old.cursor.after + 1
              /\ answer.first + n - 1 <= recorded[s]
              /\ answer.first # old.cursor.after + 1 => answer.first - 1 + Capacity <= recorded[s]
          BY <1>5, <2>2
        <4>. QED
          BY <2>2, <4>1, <4>2, Reaches
      <3>. QED
        BY <1>5, <2>2, <3>1, <3>2
    <2>. QED
      BY <2>1, <2>2
  <1>7. ground' = [cursor |-> Cursor(s, upto), got |-> old.got \cup news,
                   lost |-> old.lost \cup ((old.cursor.after + 1) .. (upto - n)), waits |-> FALSE]
    <2>1. ground' = [cursor |-> Cursor(s, upto), got |-> old.got \cup news,
                     lost |-> IF n # 0 /\ (answer.reset \/ answer.overrun)
                              THEN old.lost \cup ((old.cursor.after + 1) .. (answer.first - 1))
                              ELSE old.lost,
                     waits |-> FALSE]
      BY <1>3 DEF GroundTake
    <2>2. ~(n # 0 /\ (answer.reset \/ answer.overrun)) =>
            (old.cursor.after + 1) .. (upto - n) = {}
      <3>. HIDE DEF old, n, s, upto, news, fresh
      <3>. SUFFICES ASSUME ~(n # 0 /\ (answer.reset \/ answer.overrun))
                    PROVE  upto - n = old.cursor.after
        BY <1>3
      <3>1. n # 0 => answer.first = old.cursor.after + 1
        BY <1>5
      <3>2. CASE n = 0
        BY <1>6, <3>2
      <3>3. CASE n # 0
        <4>1. upto - n = answer.first - 1 /\ answer.first = old.cursor.after + 1
          BY <1>6, <3>1, <3>3
        <4>2. old.cursor.after \in Nat /\ (old.cursor.after + 1) - 1 = old.cursor.after
          BY <1>3
        <4>. QED
          BY <4>1, <4>2
      <3>. QED
        BY <3>2, <3>3
    <2>. HIDE DEF old, n, s, upto, news
    <2>. QED
      BY <1>6, <2>1, <2>2
  <1>8. reached' = [reached EXCEPT ![s] = IF @ > upto THEN @ ELSE upto]
    <2>1. reached' = [reached EXCEPT ![old.cursor.session] = IF @ > upto THEN @ ELSE upto]
      BY DEF GroundTake
    <2>. HIDE DEF old, s, upto
    <2>. QED
      BY <1>3, <2>1
  <1>. HIDE DEF upto, old
  <1>. QED
    BY <1>1, <1>3, <1>6, <1>7, <1>8

LEMMA GroundTakeStep == ASSUME IInv, GroundTake PROVE IInv'
  <1>. USE ConstantsAssumption DEF ConstantsAssumption, IInv
  <1>. DEFINE s == answer.session
              n == Len(answer.names)
              news == {[label |-> answer.first + k - 1, name |-> answer.names[k]] : k \in 1 .. n}
  <1>1. PICK old \in Grounds, upto \in Nat :
          /\ s \in Streams /\ s \in 1 .. session
          /\ old.cursor.session = s
          /\ old = ground \/ (/\ ground.cursor.session # s
                              /\ old.cursor.after = 0 /\ old.got = {} /\ old.lost = {})
          /\ ground' = [cursor |-> Cursor(s, upto), got |-> old.got \cup news,
                        lost |-> old.lost \cup ((old.cursor.after + 1) .. (upto - n)),
                        waits |-> FALSE]
          /\ old.cursor.after + n <= upto /\ upto <= recorded[s]
          /\ old.cursor.after + n # upto => upto - n + Capacity <= recorded[s]
          /\ n # 0 => answer.first + n - 1 = upto
          /\ reached' = [reached EXCEPT ![s] = IF @ > upto THEN @ ELSE upto]
    BY TakeEffect
  <1>2. /\ answer' = NoReport
        /\ UNCHANGED <<session, samples, next, recorded, sampler, observed, drain, worker>>
        /\ answer # NoReport /\ ground.waits
    BY DEF GroundTake, airborne, buffer
  <1>3. /\ answer \in Report /\ n \in Nat /\ answer.first \in Nat
        /\ session \in 1 .. MaxSession /\ s \in 0 .. MaxSession /\ s # 0
        /\ recorded \in [Streams -> Seqs] /\ reached \in [Streams -> Seqs]
        /\ upto \in Seqs /\ recorded[s] \in 0 .. MaxSampleSeq
        /\ old.cursor.after \in Nat
    <2>1. answer \in Report /\ session \in 1 .. MaxSession
          /\ recorded \in [Streams -> Seqs] /\ reached \in [Streams -> Seqs]
      BY <1>2 DEF TypeOK, Streams
    <2>2. n \in Nat /\ answer.first \in Nat
      BY <2>1 DEF Report, Seqs
    <2>3. s \in 0 .. MaxSession /\ s # 0 /\ recorded[s] \in 0 .. MaxSampleSeq
      BY <1>1, <2>1 DEF Streams, Seqs
    <2>4. old.cursor.after \in Nat
      BY CursorParts DEF Grounds
    <2>5. upto \in Seqs
      <3>. HIDE DEF s, n, news
      <3>. QED
        BY <1>1, <2>3 DEF Seqs
    <2>. HIDE DEF s, n, news
    <2>. QED
      BY <2>1, <2>2, <2>3, <2>4, <2>5
  <1>4. /\ ground'.cursor = Cursor(s, upto) /\ ground'.cursor.session = s
        /\ ground'.cursor.after = upto
        /\ ground'.got = old.got \cup news
        /\ ground'.lost = old.lost \cup ((old.cursor.after + 1) .. (upto - n))
    BY <1>1, <1>3, CursorType
  <1>5. \A k \in 1 .. n : answer.names[k] = [session |-> s, seq |-> answer.first + k - 1]
    BY <1>2 DEF AnswerInv
  <1>6. \A k \in 1 .. n : answer.first + k - 1 \in (old.cursor.after + 1) .. upto
    <2>. HIDE DEF n, s
    <2>. QED
      BY <1>1, <1>3
  <1>7. /\ reached' \in [Streams -> Seqs]
        /\ reached'[s] >= upto /\ reached'[s] <= recorded[s]
        /\ \A t \in Streams : reached'[t] >= reached[t] /\ reached'[t] <= recorded[t]
    <2>1. \A t \in Streams : reached[t] \in Nat /\ reached[t] <= recorded[t]
      BY <1>3 DEF CursorInv, Seqs
    <2>2. \A t \in Streams : reached'[t] = IF t = s THEN (IF reached[s] > upto THEN reached[s] ELSE upto)
                              ELSE reached[t]
      BY <1>1, <1>3
    <2>3. reached' \in [Streams -> Seqs]
      BY <1>1, <1>3
    <2>. HIDE DEF s
    <2>. QED
      BY <1>1, <1>3, <2>1, <2>2, <2>3
  <1>8. TypeOK'
    <2>1. news \subseteq [label : 1 .. MaxSampleSeq, name : Name]
      <3>1. \A k \in 1 .. n : answer.first + k - 1 \in 1 .. MaxSampleSeq
        <4>1. upto \in Nat /\ upto <= MaxSampleSeq /\ old.cursor.after \in Nat
              /\ MaxSampleSeq \in Nat
          BY <1>3 DEF Seqs
        <4>. HIDE DEF n, s, news
        <4>. SUFFICES ASSUME NEW i \in (old.cursor.after + 1) .. upto
                      PROVE  i \in 1 .. MaxSampleSeq
          BY <1>6
        <4>. QED
          BY <4>1
      <3>2. \A k \in 1 .. n : answer.names[k] \in Name
        <4>1. \A q \in 1 .. MaxSampleSeq : [session |-> s, seq |-> q] \in Name
          BY <1>1 DEF Name
        <4>. HIDE DEF n, s, news
        <4>. QED
          BY <1>5, <3>1, <4>1
      <3>. QED
        BY <3>1, <3>2
    <2>2. (old.cursor.after + 1) .. (upto - n) \subseteq 1 .. MaxSampleSeq
      <3>1. upto \in Nat /\ upto <= MaxSampleSeq /\ MaxSampleSeq \in Nat
        BY <1>3 DEF Seqs
      <3>. HIDE DEF n, s, news
      <3>. QED
        BY <1>3, <3>1
    <2>3. ground' \in Grounds
      <3>1. Cursor(s, upto) \in Cursors
        BY <1>3, CursorType
      <3>2. old.got \subseteq [label : 1 .. MaxSampleSeq, name : Name]
            /\ old.lost \subseteq 1 .. MaxSampleSeq
        BY <1>1 DEF Grounds
      <3>. HIDE DEF news, n, s
      <3>. QED
        BY <1>1, <2>1, <2>2, <3>1, <3>2 DEF Grounds
    <2>. QED
      BY <1>2, <1>7, <2>3 DEF TypeOK
  <1>9. CursorInv'
    <2>1. Had(ground.cursor)' /\ ground'.cursor.session <= session'
      BY <1>1, <1>2, <1>3, <1>4, <1>7 DEF Had
    <2>2. \A c \in Cursors : Had(c) => Had(c)'
      <3>. SUFFICES ASSUME NEW c \in Cursors, c.session # 0, c.after <= reached[c.session]
                    PROVE  c.after <= reached'[c.session]
        BY DEF Had
      <3>1. c.session \in Streams /\ c.after \in Nat
        BY CursorParts
      <3>2. reached[c.session] \in Nat /\ reached'[c.session] \in Nat
            /\ reached'[c.session] >= reached[c.session]
        BY <1>3, <1>7, <3>1 DEF Seqs
      <3>. QED
        BY <3>1, <3>2
    <2>3. worker.cursor \in Cursors /\ observed \in Cursors
      BY DEF TypeOK, Workers
    <2>4. ~worker.live
      BY <1>2 DEF CursorInv
    <2>. QED
      BY <1>2, <1>7, <2>1, <2>2, <2>3, <2>4 DEF CursorInv, Had
  <1>10. CopyInv'
    <2>1. /\ \A g \in old.got : /\ g.label = g.name.seq /\ g.name.session = s
                                /\ g.label <= old.cursor.after
          /\ old.lost \subseteq 1 .. old.cursor.after
          /\ \A i \in old.lost : i + Capacity <= recorded[s]
      BY <1>1, <1>3 DEF CopyInv
    <2>2. \A g \in ground'.got : g.label = g.name.seq /\ g.name.session = s
      <3>1. \A g \in news : g.label = g.name.seq /\ g.name.session = s
        <4>. SUFFICES ASSUME NEW k \in 1 .. n, NEW g,
                             g = [label |-> answer.first + k - 1, name |-> answer.names[k]]
                      PROVE  g.label = g.name.seq /\ g.name.session = s
          OBVIOUS
        <4>1. g.label = answer.first + k - 1 /\ g.name = answer.names[k]
          OBVIOUS
        <4>2. g.name = [session |-> s, seq |-> answer.first + k - 1]
          BY <1>5, <4>1
        <4>. QED
          BY <4>1, <4>2
      <3>. HIDE DEF news, n, s
      <3>. QED
        BY <1>4, <2>1, <3>1
    <2>3. \A g \in ground'.got : g.label <= upto
      <3>1. \A g \in old.got : g.label \in Nat
        BY <1>1 DEF Grounds
      <3>2. \A g \in news : g.label \in (old.cursor.after + 1) .. upto
        BY <1>6
      <3>. HIDE DEF news, n, s
      <3>. QED
        BY <1>1, <1>3, <1>4, <2>1, <3>1, <3>2
    <2>4. ground'.lost \subseteq 1 .. upto
      <3>. HIDE DEF news, n, s
      <3>. QED
        BY <1>1, <1>3, <1>4, <2>1
    <2>5. \A i \in ground'.lost : i + Capacity <= recorded[s]
      <3>. HIDE DEF news, n, s
      <3>1. ASSUME NEW i \in (old.cursor.after + 1) .. (upto - n)
            PROVE  i + Capacity <= recorded[s]
        BY <1>1, <1>3
      <3>. QED
        BY <1>4, <2>1, <3>1
    <2>. QED
      BY <1>2, <1>4, <2>2, <2>3, <2>4, <2>5 DEF CopyInv
  <1>11. BufferInv' /\ DrainInv' /\ AnswerInv' /\ CursorIsFinal'
    BY <1>2 DEF BufferInv, DrainInv, AnswerInv, CursorIsFinal, Latest
  <1>. QED
    BY <1>8, <1>9, <1>10, <1>11

LEMMA Step == IInv /\ [Next]_vars => IInv'
  <1>. SUFFICES ASSUME IInv, [Next]_vars PROVE IInv'
    OBVIOUS
  <1>. USE ConstantsAssumption DEF ConstantsAssumption, IInv
  <1>1. CASE \E p \in Poses : Record(p)
    BY <1>1, RecordStep
  <1>2. CASE SamplerEnd
    <2>1. TypeOK'
      BY <1>2 DEF SamplerEnd, buffer, TypeOK
    <2>2. BufferInv'
      BY <1>2 DEF SamplerEnd, buffer, BufferInv, TypeOK, Streams, Seqs, Sample
    <2>3. CursorInv'
      BY <1>2 DEF SamplerEnd, buffer, CursorInv, Had, TypeOK, Streams, Seqs
    <2>4. DrainInv'
      BY <1>2 DEF SamplerEnd, buffer, DrainInv, TypeOK
    <2>5. AnswerInv'
      BY <1>2 DEF SamplerEnd, buffer, AnswerInv, TypeOK
    <2>6. CopyInv'
      BY <1>2 DEF SamplerEnd, buffer, CopyInv, TypeOK
    <2>7. CursorIsFinal'
      BY <1>2 DEF SamplerEnd, buffer, CursorIsFinal, Latest, DrainInv, TypeOK
    <2>. QED
      BY <2>1, <2>2, <2>3, <2>4, <2>5, <2>6, <2>7 DEF IInv
  <1>3. CASE TakeRequest
    <2>1. ground.cursor \in Cursors
      BY DEF TypeOK, Grounds
    <2>. QED
      BY <1>3, <2>1, TakeStep DEF TakeRequest, CursorInv
  <1>4. CASE TakeLate
    <2>1. PICK n \in 0 .. reached[session] : Take(Cursor(session, n), FALSE)
      BY <1>4 DEF TakeLate
    <2>2. session \in 0 .. MaxSession /\ session # 0 /\ n \in Seqs /\ n <= reached[session]
      BY <2>1 DEF TypeOK, Streams, Seqs
    <2>. QED
      BY <2>1, <2>2, TakeStep, CursorType DEF Had
  <1>5. CASE Observe
    BY <1>5, ObserveStep
  <1>6. CASE Reply
    BY <1>6, ReplyStep
  <1>7. CASE DrainBegin
    <2>1. TypeOK'
      BY <1>7, DrainType DEF DrainBegin, buffer, TypeOK
    <2>2. BufferInv'
      BY <1>7, DrainType DEF DrainBegin, buffer, BufferInv, TypeOK, Streams, Seqs,
           Sample
    <2>3. CursorInv'
      BY <1>7, DrainType DEF DrainBegin, buffer, CursorInv, Had, TypeOK, Streams, Seqs
    <2>4. DrainInv'
      BY <1>7, DrainType DEF DrainBegin, buffer, DrainInv, TypeOK
    <2>5. AnswerInv'
      BY <1>7 DEF DrainBegin, buffer, AnswerInv, TypeOK
    <2>6. CopyInv'
      BY <1>7, DrainType DEF DrainBegin, buffer, CopyInv, TypeOK
    <2>7. CursorIsFinal'
      BY <1>7, DrainType DEF DrainBegin, buffer, CursorIsFinal, Latest, DrainInv,
           TypeOK
    <2>. QED
      BY <2>1, <2>2, <2>3, <2>4, <2>5, <2>6, <2>7 DEF IInv
  <1>8. CASE DrainJoin
    BY <1>8, DrainJoinStep
  <1>9. CASE DrainConfirm \/ DrainTimeout
    <2>1. TypeOK'
      BY <1>9, DrainType DEF DrainConfirm, DrainTimeout, buffer, TypeOK
    <2>2. BufferInv'
      BY <1>9, DrainType DEF DrainConfirm, DrainTimeout, buffer, BufferInv, TypeOK,
           Streams, Seqs, Sample
    <2>3. CursorInv'
      BY <1>9, DrainType DEF DrainConfirm, DrainTimeout, buffer, CursorInv, Had,
           TypeOK, Streams, Seqs
    <2>4. DrainInv'
      BY <1>9, DrainType DEF DrainConfirm, DrainTimeout, buffer, DrainInv, TypeOK
    <2>5. AnswerInv'
      BY <1>9 DEF DrainConfirm, DrainTimeout, buffer, AnswerInv, TypeOK
    <2>6. CopyInv'
      BY <1>9, DrainType DEF DrainConfirm, DrainTimeout, buffer, CopyInv, TypeOK
    <2>7. CursorIsFinal'
      BY <1>9, DrainType DEF DrainConfirm, DrainTimeout, buffer, CursorIsFinal,
           Latest, DrainInv, TypeOK
    <2>. QED
      BY <2>1, <2>2, <2>3, <2>4, <2>5, <2>6, <2>7 DEF IInv
  <1>10. CASE AirRestart
    BY <1>10, AirRestartStep
  <1>11. CASE GroundAsk
    BY <1>11, GroundAskStep
  <1>12. CASE GroundTake
    BY <1>12, GroundTakeStep
  <1>13. CASE GroundFault
    BY <1>13, GroundFaultStep
  <1>14. CASE UNCHANGED vars
    <2>1. TypeOK'
      BY <1>14 DEF vars, buffer, TypeOK
    <2>2. BufferInv'
      BY <1>14 DEF vars, buffer, BufferInv, TypeOK, Streams, Seqs, Sample
    <2>3. CursorInv'
      BY <1>14 DEF vars, buffer, CursorInv, Had, TypeOK, Streams, Seqs
    <2>4. DrainInv'
      BY <1>14 DEF vars, buffer, DrainInv, TypeOK
    <2>5. AnswerInv'
      BY <1>14 DEF vars, buffer, AnswerInv, TypeOK
    <2>6. CopyInv'
      BY <1>14 DEF vars, buffer, CopyInv, TypeOK
    <2>7. CursorIsFinal'
      BY <1>14 DEF vars, buffer, CursorIsFinal, Latest, DrainInv, TypeOK
    <2>. QED
      BY <2>1, <2>2, <2>3, <2>4, <2>5, <2>6, <2>7 DEF IInv
  <1>. QED
    BY <1>1, <1>2, <1>3, <1>4, <1>5, <1>6, <1>7, <1>8, <1>9, <1>10, <1>11, <1>12, <1>13, <1>14 DEF Next

-----------------------------------------------------------------------------
\* IInv holds in every state, so its parts do.
THEOREM Invariance == Spec => []IInv
  <1>. QED
    BY InitIInv, Step, PTL DEF Spec

\* Every variable has its type and the buffer never exceeds its capacity
\* (PoseTraceBuffer's deque with maxlen).
THEOREM TypeCorrect == Spec => []TypeOK
  <1>1. IInv => TypeOK
    BY DEF IInv
  <1>. QED
    BY Invariance, <1>1, PTL

\* The final cursor of a drain is final but for one sample (wait_for_trace_drain).
THEOREM FinalCursor == Spec => []CursorIsFinal
  <1>1. IInv => CursorIsFinal
    BY DEF IInv
  <1>. QED
    BY Invariance, <1>1, PTL

\* A drain that ends well was confirmed by a ground program that has every sample
\* up to the final cursor (wait_for_trace_drain).
THEOREM DrainIsHeld == Spec => DrainedIsHeld
  <1>. DEFINE Held == drain.at = "wait" /\ drain'.at = "drained" =>
                        reached[drain.cursor.session] >= drain.cursor.after
  <1>1. IInv /\ [Next]_vars => [Held]_vars
    <2>. SUFFICES ASSUME IInv, [Next]_vars, drain.at = "wait", drain'.at = "drained"
                  PROVE  reached[drain.cursor.session] >= drain.cursor.after
      BY DEF vars
    <2>1. DrainConfirm
      <3>1. drain' # drain
        OBVIOUS
      <3>2. CASE DrainBegin \/ DrainJoin
        BY <3>2 DEF DrainBegin, DrainJoin
      <3>3. CASE DrainTimeout \/ AirRestart
        BY <3>3, DrainType DEF DrainTimeout, AirRestart
      <3>. QED
        BY <3>1, <3>2, <3>3
           DEF Next, vars, Record, SamplerEnd, TakeRequest, TakeLate, Take, Observe, Reply,
               GroundAsk, GroundTake, GroundFault, airborne
    <2>2. /\ drain.cursor.session \in Streams /\ drain.cursor \in Cursors
          /\ observed.session = drain.cursor.session /\ observed.after >= drain.cursor.after
          /\ observed \in Cursors /\ reached \in [Streams -> Seqs]
      <3>1. drain.cursor.session \in 1 .. session /\ session \in 1 .. MaxSession
        BY <2>1 DEF DrainConfirm, IInv, DrainInv, TypeOK, Streams
      <3>2. drain.cursor.session \in Streams
        BY <3>1, ConstantsAssumption DEF ConstantsAssumption, Streams
      <3>. QED
        BY <2>1, <3>2 DEF DrainConfirm, IInv, TypeOK, Drains
    <2>3. observed.after <= reached[drain.cursor.session]
      BY <2>2 DEF IInv, CursorInv, Had, Streams
    <2>4. /\ observed.after \in Nat /\ drain.cursor.after \in Nat
          /\ reached[drain.cursor.session] \in Nat
      BY <2>2, CursorParts DEF Seqs
    <2>. QED
      BY <2>2, <2>3, <2>4
  <1>. QED
    BY Invariance, <1>1, PTL DEF Spec, DrainedIsHeld

-----------------------------------------------------------------------------
(* What CatchesUp rests on: every report takes the ground further.         *)

\* Streams follow one another, and so do the numbers of a stream.
Further(c, d) ==
    d.session < c.session \/ (d.session = c.session /\ d.after < c.after)

\* The buffer holds a sample that follows the cursor.
Behind(c) == samples # <<>> /\ c # Cursor(session, Latest)

\* The report to a cursor that is behind has a sample, also where a pose out of reach
\* of a delta ends it early (build_report); a sample that is taken moves the cursor on,
\* and no report moves it back.
ReportsAdvance ==
    [][/\ Reply /\ worker.live /\ Behind(worker.cursor) => answer'.names # <<>>
       /\ GroundTake => \/ Further(ground'.cursor, ground.cursor)
                        \/ answer.names = <<>> /\ ground'.cursor = ground.cursor]_vars

\* An answer is of a stream that is not older than the ground's.
Onward == answer # NoReport => ground.cursor.session <= answer.session

\* The session of a report is that of the buffer.
LEMMA ReportSession ==
    ASSUME NEW c, NEW n
    PROVE  BuildReport(c, n).session = session
  BY DEF BuildReport, NoReport

LEMMA OnwardStep == ASSUME IInv, Onward, [Next]_vars PROVE Onward'
  <1>1. CASE Reply
    <2>1. UNCHANGED ground /\ answer' # answer => answer'.session = session
      BY <1>1, ReportSession DEF Reply
    <2>2. UNCHANGED ground
      BY <1>1 DEF Reply
    <2>. QED
      BY <2>1, <2>2 DEF Onward, IInv, CursorInv
  <1>2. CASE answer' = NoReport
    BY <1>2 DEF Onward
  <1>3. CASE UNCHANGED answer /\ UNCHANGED ground.cursor
    BY <1>3 DEF Onward
  <1>4. CASE GroundAsk
    <2>1. ground'.cursor = ground.cursor
      BY <1>4 DEF GroundAsk, IInv, TypeOK, Grounds
    <2>. QED
      BY <1>3, <1>4, <2>1 DEF GroundAsk
  <1>. QED
    BY <1>1, <1>2, <1>3, <1>4
       DEF Next, vars, Record, SamplerEnd, TakeRequest, TakeLate, Take, Observe, DrainBegin,
           DrainJoin, DrainConfirm, DrainTimeout, AirRestart, GroundTake, GroundFault, buffer

\* A report is empty only if its cursor has come as far as the buffer.
LEMMA NewsForTheLate ==
    ASSUME IInv, NEW n \in 0 .. Batch, worker.live, Behind(worker.cursor),
           Longest(Start(worker.cursor), n)
    PROVE  n # 0
  <1>. USE ConstantsAssumption DEF ConstantsAssumption, IInv
  <1>. DEFINE c == worker.cursor
              L == Len(samples)
              R == recorded[session]
  <1>1. /\ session \in Streams /\ L \in Nat /\ L >= 1 /\ R \in Nat /\ L <= R
        /\ c \in Cursors /\ c.after \in Nat /\ Latest = R
        /\ samples[1].seq = R - L + 1
    <2>1. session \in Streams /\ L \in Nat /\ L >= 1 /\ R \in Nat /\ L <= R
      BY DEF TypeOK, Seqs, BufferInv, Behind
    <2>2. 1 \in 1 .. L
      BY <2>1
    <2>3. c \in Cursors
      BY DEF TypeOK, Workers
    <2>. QED
      BY <2>1, <2>2, <2>3, CursorParts, LatestIsRecorded DEF BufferInv
  <1>2. c.session = session => c.after <= R
    <2>1. c.session = session => c.after <= reached[session] /\ reached[session] <= R
      BY <1>1 DEF CursorInv, Had, Streams
    <2>2. reached[session] \in Nat
      BY <1>1 DEF TypeOK, Seqs
    <2>. QED
      BY <1>1, <2>1, <2>2
  <1>3. c.session = session => c.after # R
    <2>1. c = Cursor(c.session, c.after)
      BY <1>1 DEF Cursors, Cursor
    <2>. QED
      BY <1>1, <2>1 DEF Behind
  <1>4. Start(c) \in 1 .. L
    <2>1. CASE samples = <<>> \/ StartsOver(c) \/ Overrun(c)
      BY <1>1, <2>1 DEF Start
    <2>2. CASE ~(samples = <<>> \/ StartsOver(c) \/ Overrun(c))
      <3>1. c.session = session /\ Start(c) = c.after + 2 - (R - L + 1)
        BY <1>1, <2>2 DEF StartsOver, Start
      <3>2. c.after + 1 >= R - L + 1
        BY <1>1, <2>2 DEF Overrun
      <3>. HIDE DEF c, L, R
      <3>. QED
        BY <1>1, <1>2, <1>3, <3>1, <3>2
    <2>. QED
      BY <2>1, <2>2
  <1>5. Fits(Start(c), 1)
    <2>1. Start(c) + 1 - 1 <= L
      <3>. HIDE DEF c, L
      <3>. QED
        BY <1>1, <1>4
    <2>2. \A k \in Start(c) + 1 .. Start(c) + 1 - 1 : FALSE
      <3>. HIDE DEF c, L
      <3>. QED
        BY <1>1, <1>4
    <2>. QED
      BY <2>1, <2>2 DEF Fits
  <1>. QED
    BY <1>5 DEF Longest

\* Every report takes the ground further, until it has all there is: for any capacity,
\* batch and range of numbers, late and repeated requests and restarts included.
THEOREM EveryReportAdvances == Spec => ReportsAdvance
  <1>1. Init => Onward
    BY DEF Init, Onward
  <1>2. IInv /\ Onward /\ [Next]_vars => Onward'
    BY OnwardStep
  <1>. DEFINE News == Reply /\ worker.live /\ Behind(worker.cursor) => answer'.names # <<>>
              Moves == GroundTake => \/ Further(ground'.cursor, ground.cursor)
                                     \/ answer.names = <<>> /\ ground'.cursor = ground.cursor
  <1>3. IInv => News
    <2>. SUFFICES ASSUME IInv, Reply, worker.live, Behind(worker.cursor)
                  PROVE  answer'.names # <<>>
      OBVIOUS
    <2>1. PICK n \in 0 .. Batch : /\ Longest(Start(worker.cursor), n)
                                  /\ answer' = BuildReport(worker.cursor, n)
      BY DEF Reply
    <2>2. n # 0 /\ n \in Nat
      BY <2>1, NewsForTheLate, ConstantsAssumption DEF ConstantsAssumption
    <2>3. answer'.names = [k \in 1 .. n |-> NameOf(samples[Start(worker.cursor) + k - 1])]
      BY <2>1 DEF BuildReport, Behind
    <2>. QED
      BY <2>2, <2>3
  <1>4. IInv /\ Onward => Moves
    <2>. SUFFICES ASSUME IInv, Onward, GroundTake
                  PROVE  \/ Further(ground'.cursor, ground.cursor)
                         \/ answer.names = <<>> /\ ground'.cursor = ground.cursor
      OBVIOUS
    <2>. DEFINE s == answer.session
                n == Len(answer.names)
    <2>1. PICK old \in Grounds, upto \in Nat :
            /\ s \in Streams /\ old.cursor.session = s
            /\ old = ground \/ ground.cursor.session # s
            /\ ground'.cursor = Cursor(s, upto)
            /\ old.cursor.after + n <= upto
      BY TakeEffect
    <2>2. /\ ground.cursor \in Cursors /\ ground.cursor.session \in Nat
          /\ ground.cursor.after \in Nat /\ n \in Nat /\ (n = 0 <=> answer.names = <<>>)
          /\ ground.cursor.session <= s
      <3>1. ground.cursor \in Cursors /\ answer # NoReport /\ answer.names \in Seq(Name)
        BY DEF IInv, TypeOK, Grounds, Report, GroundTake
      <3>. QED
        BY <3>1, CursorParts DEF Onward
    <2>3. ground'.cursor.session = s /\ ground'.cursor.after = upto /\ s \in Nat
      BY <2>1 DEF Cursor, Streams
    <2>4. CASE ground.cursor.session # s
      <3>. HIDE DEF s, n
      <3>. QED
        BY <2>2, <2>3, <2>4 DEF Further
    <2>5. CASE old = ground /\ n # 0
      <3>. HIDE DEF s, n
      <3>. QED
        BY <2>1, <2>2, <2>3, <2>5 DEF Further
    <2>6. CASE old = ground /\ n = 0 /\ upto = ground.cursor.after
      <3>1. ground.cursor = Cursor(ground.cursor.session, ground.cursor.after)
        BY <2>2 DEF Cursors, Cursor
      <3>. QED
        BY <2>1, <2>2, <2>6, <3>1
    <2>7. CASE old = ground /\ n = 0 /\ upto # ground.cursor.after
      <3>. HIDE DEF s, n
      <3>. QED
        BY <2>1, <2>2, <2>3, <2>7 DEF Further
    <2>. QED
      BY <2>1, <2>4, <2>5, <2>6, <2>7
  <1>. QED
    BY Invariance, <1>1, <1>2, <1>3, <1>4, PTL DEF Spec, ReportsAdvance

-----------------------------------------------------------------------------
(* The refinement.                                                         *)

\* The ground's copy as TraceLog sees it: all it holds is rightly labelled.
Copied == [session |-> ground.cursor.session, upto |-> ground.cursor.after,
           got |-> {g.label : g \in ground.got}, lost |-> ground.lost]

LEMMA AllIsKnown == ASSUME IInv PROVE Known = ground.got
  BY DEF Known, IInv, CopyInv

\* What lies between a and u and is not among the last n.
LEMMA FirstLabels ==
    ASSUME NEW a \in Nat, NEW n \in Nat, NEW u \in Nat, a + n <= u
    PROVE  /\ (u - n + 1) .. u \subseteq (a + 1) .. u
           /\ ((a + 1) .. u) \ ((u - n + 1) .. u) = (a + 1) .. (u - n)
  OBVIOUS

LEMMA TakeIsReceive ==
    ASSUME IInv, IInv', GroundTake
    PROVE  \E s \in Streams : Log!Receive(s)
  <1>. USE ConstantsAssumption DEF ConstantsAssumption
  <1>. DEFINE s == answer.session
              n == Len(answer.names)
              news == {[label |-> answer.first + k - 1, name |-> answer.names[k]] : k \in 1 .. n}
  <1>1. PICK old \in Grounds, upto \in Nat :
          /\ s \in Streams /\ s \in 1 .. session
          /\ old.cursor.session = s
          /\ old = ground \/ (/\ ground.cursor.session # s
                              /\ old.cursor.after = 0 /\ old.got = {} /\ old.lost = {})
          /\ ground' = [cursor |-> Cursor(s, upto), got |-> old.got \cup news,
                        lost |-> old.lost \cup ((old.cursor.after + 1) .. (upto - n)),
                        waits |-> FALSE]
          /\ old.cursor.after + n <= upto /\ upto <= recorded[s]
          /\ old.cursor.after + n # upto => upto - n + Capacity <= recorded[s]
          /\ n # 0 => answer.first + n - 1 = upto
          /\ reached' = [reached EXCEPT ![s] = IF @ > upto THEN @ ELSE upto]
    BY TakeEffect
  <1>2. /\ old.cursor.after \in Nat /\ n \in Nat /\ answer.first \in Nat
        /\ recorded[s] \in Nat /\ recorded' = recorded
    <2>1. answer \in Report
      BY DEF GroundTake, IInv, TypeOK
    <2>2. old.cursor.after \in Nat
      BY CursorParts DEF Grounds
    <2>3. n \in Nat /\ answer.first \in Nat
      BY <2>1 DEF Report, Seqs
    <2>4. recorded[s] \in Nat /\ recorded' = recorded
      BY <1>1 DEF GroundTake, airborne, buffer, IInv, TypeOK, Seqs
    <2>. QED
      BY <2>2, <2>3, <2>4
  <1>. DEFINE a == old.cursor.after
              labels == (upto - n + 1) .. upto
              gone == ((a + 1) .. upto) \ labels
              prior == [session |-> s, upto |-> a, got |-> {g.label : g \in old.got},
                        lost |-> old.lost]
              copy == [session |-> ground.cursor.session, upto |-> ground.cursor.after,
                       got |-> {g.label : g \in Known}, lost |-> ground.lost]
  <1>3. {g.label : g \in news} = labels
    <2>1. \A k \in 1 .. n : [label |-> answer.first + k - 1,
                            name |-> answer.names[k]].label = answer.first + k - 1
      OBVIOUS
    <2>2. /\ \A g \in news : \E k \in 1 .. n : g.label = answer.first + k - 1
          /\ \A k \in 1 .. n : \E g \in news : g.label = answer.first + k - 1
      BY <2>1
    <2>. HIDE DEF n, s, news
    <2>3. upto \in Nat /\ n <= upto /\ (n # 0 => answer.first + n - 1 = upto)
      BY <1>1, <1>2
    <2>4. ASSUME NEW k \in 1 .. n PROVE answer.first + k - 1 \in labels
      BY <1>2, <2>3
    <2>5. ASSUME NEW i \in labels PROVE \E k \in 1 .. n : i = answer.first + k - 1
      <3>1. i - answer.first + 1 \in 1 .. n /\ i = answer.first + (i - answer.first + 1) - 1
        BY <1>2, <2>3
      <3>. QED
        BY <3>1
    <2>. HIDE DEF labels
    <2>. QED
      BY <2>2, <2>4, <2>5
  <1>4. labels \subseteq (a + 1) .. upto /\ gone = (a + 1) .. (upto - n)
    <2>1. a + n <= upto
      BY <1>1
    <2>. HIDE DEF n, news, s
    <2>. QED
      BY <1>2, <2>1, FirstLabels
  <1>5. copy = Copied /\ prior = IF s = copy.session THEN copy ELSE Log!Blank(s)
    <2>1. copy = Copied
      BY AllIsKnown DEF Copied
    <2>2. CASE old = ground
      <3>1. s = ground.cursor.session
        BY <1>1, <2>2
      <3>. QED
        BY <2>1, <2>2, <3>1 DEF Copied
    <2>3. CASE ground.cursor.session # s /\ a = 0 /\ old.got = {} /\ old.lost = {}
      <3>1. prior = [session |-> s, upto |-> 0, got |-> {}, lost |-> {}]
        BY <2>3
      <3>. QED
        BY <2>1, <2>3, <3>1 DEF Log!Blank
    <2>. QED
      BY <1>1, <2>1, <2>2, <2>3
  <1>6. copy' = [session |-> s, upto |-> upto, got |-> prior.got \cup labels,
                 lost |-> prior.lost \cup gone]
    <2>1. Known' = ground'.got
      BY AllIsKnown, IInv' DEF Known, IInv, CopyInv
    <2>2. /\ ground'.cursor.session = s /\ ground'.cursor.after = upto
          /\ ground'.got = old.got \cup news /\ ground'.lost = old.lost \cup gone
      BY <1>1, <1>4 DEF Cursor
    <2>3. {g.label : g \in old.got \cup news} = {g.label : g \in old.got} \cup labels
      BY <1>3
    <2>. HIDE DEF news, labels, gone, s
    <2>. QED
      BY <2>1, <2>2, <2>3
  <1>7. \A i \in gone : i + Capacity <= recorded[s]
    <2>. SUFFICES ASSUME NEW i \in (a + 1) .. (upto - n) PROVE i + Capacity <= recorded[s]
      BY <1>4
    <2>. HIDE DEF n, s, news
    <2>1. a + n # upto /\ i <= upto - n
      BY <1>2
    <2>. QED
      BY <1>1, <1>2, <2>1
  <1>8. upto \in prior.upto .. recorded[s]
    <2>. HIDE DEF n, s, news
    <2>. QED
      BY <1>1, <1>2
  <1>. DEFINE base == IF s = copy.session THEN copy ELSE Log!Blank(s)
  <1>9. base = prior /\ base.upto = a /\ base.got = prior.got /\ base.lost = prior.lost
    <2>1. base = prior
      BY <1>5
    <2>2. prior.upto = a
      OBVIOUS
    <2>. HIDE DEF base, prior
    <2>. QED
      BY <2>1, <2>2
  <1>10. \E up \in base.upto .. recorded[s] :
         \E got \in SUBSET ((base.upto + 1) .. up) :
            LET absent == ((base.upto + 1) .. up) \ got
            IN /\ \A i \in absent : i + Capacity <= recorded[s]
               /\ copy' = [session |-> s, upto |-> up,
                           got |-> base.got \cup got, lost |-> base.lost \cup absent]
               /\ UNCHANGED recorded
    <2>1. upto \in base.upto .. recorded[s] /\ labels \in SUBSET ((base.upto + 1) .. upto)
      BY <1>4, <1>8, <1>9
    <2>2. gone = ((base.upto + 1) .. upto) \ labels
      BY <1>9
    <2>. HIDE DEF labels, news, n, s, base, prior, copy, gone
    <2>. USE <2>1
    <2>. WITNESS upto \in base.upto .. recorded[s]
    <2>. WITNESS labels \in SUBSET ((base.upto + 1) .. upto)
    <2>. QED
      BY <1>2, <1>6, <1>7, <1>9, <2>2
  <1>. HIDE DEF n, news
  <1>. QED
    BY <1>1, <1>10 DEF Log!Receive

\* Every step of the buffer is one of TraceLog's, or leaves recorded and copy alone.
LEMMA StepImplements ==
    ASSUME IInv, IInv', [Next]_vars
    PROVE  [Log!Next]_<<recorded, [session |-> ground.cursor.session,
                                   upto |-> ground.cursor.after,
                                   got |-> {g.label : g \in Known}, lost |-> ground.lost]>>
  <1>. DEFINE copy == [session |-> ground.cursor.session, upto |-> ground.cursor.after,
                       got |-> {g.label : g \in Known}, lost |-> ground.lost]
  <1>1. ground' = ground => copy' = copy
    BY DEF Known
  <1>2. ASSUME NEW p \in Poses, Record(p) PROVE Log!Next \/ UNCHANGED <<recorded, copy>>
    <2>1. ground' = ground
      BY <1>2 DEF Record
    <2>2. CASE UNCHANGED buffer
      BY <1>1, <2>1, <2>2 DEF buffer
    <2>3. CASE ~UNCHANGED buffer
      <3>1. /\ session' \in Streams
            /\ recorded' = [recorded EXCEPT ![session'] = recorded[session'] + 1]
        BY <1>2, <2>3, RecordEffect
      <3>2. Log!Record(session')
        BY <1>1, <2>1, <3>1 DEF Log!Record
      <3>. QED
        BY <3>1, <3>2 DEF Log!Next
    <2>. QED
      BY <2>2, <2>3
  <1>3. CASE GroundTake
    BY <1>3, TakeIsReceive DEF Log!Next
  <1>4. CASE GroundFault
    <2>1. recorded' = recorded
      BY <1>4 DEF GroundFault, airborne, buffer
    <2>2. CASE ground' = [ground EXCEPT !.waits = FALSE]
      <3>1. /\ ground'.cursor = ground.cursor /\ ground'.got = ground.got
            /\ ground'.lost = ground.lost
        BY <2>2 DEF IInv, TypeOK, Grounds
      <3>. QED
        BY <2>1, <3>1 DEF Known
    <2>3. CASE ground' = NewGround
      <3>1. /\ ground'.cursor.session = 0 /\ ground'.cursor.after = 0
            /\ ground'.got = {} /\ ground'.lost = {}
        BY <2>3 DEF NewGround, Cursor
      <3>2. Known' = {}
        BY <3>1 DEF Known
      <3>3. copy' = Log!Blank(0)
        BY <3>1, <3>2 DEF Log!Blank
      <3>. QED
        BY <2>1, <3>3 DEF Log!Next, Log!Forget
    <2>. QED
      BY <1>4, <2>2, <2>3 DEF GroundFault
  <1>5. ASSUME \/ SamplerEnd \/ TakeRequest \/ TakeLate \/ Observe \/ Reply
               \/ DrainBegin \/ DrainJoin \/ DrainConfirm \/ DrainTimeout
               \/ AirRestart \/ GroundAsk \/ UNCHANGED vars
        PROVE  UNCHANGED <<recorded, copy>>
    <2>1. /\ recorded' = recorded
          /\ ground' = ground \/ ground' = [ground EXCEPT !.waits = TRUE]
      BY <1>5 DEF SamplerEnd, TakeRequest, TakeLate, Take, Observe, Reply, DrainBegin, DrainJoin,
                  DrainConfirm, DrainTimeout, AirRestart, GroundAsk, airborne, buffer, vars
    <2>2. /\ ground'.cursor = ground.cursor /\ ground'.got = ground.got
          /\ ground'.lost = ground.lost
      BY <2>1 DEF IInv, TypeOK, Grounds
    <2>. QED
      BY <2>1, <2>2 DEF Known
  <1>. QED
    BY <1>2, <1>3, <1>4, <1>5 DEF Next

\* The endpoint implements TraceLog: what a ground program holds is what was recorded,
\* each sample under its own number, and every hole was announced (build_report).
THEOREM Implements == Spec => ImplementsLog
  <1>1. Init => Log!Init
    <2>. SUFFICES ASSUME Init PROVE Log!Init
      OBVIOUS
    <2>1. /\ ground.cursor.session = 0 /\ ground.cursor.after = 0
          /\ ground.got = {} /\ ground.lost = {}
      BY DEF Init, NewGround, Cursor
    <2>2. Known = {}
      BY <2>1 DEF Known
    <2>. QED
      BY <2>1, <2>2 DEF Init, Log!Init, Log!Blank
  <1>2. IInv /\ IInv' /\ [Next]_vars =>
          [Log!Next]_<<recorded, [session |-> ground.cursor.session,
                                  upto |-> ground.cursor.after,
                                  got |-> {g.label : g \in Known}, lost |-> ground.lost]>>
    BY StepImplements
  <1>. QED
    BY Invariance, <1>1, <1>2, PTL DEF Spec, ImplementsLog, Log!Spec

===============================================================================

--------------------------- MODULE FleetNode_proofs ---------------------------
(***************************************************************************)
(* For every inbox, queue, cache and radio, and any number of restarts of  *)
(* the ground program: the endpoint keeps the ledger of CommandLedger, a   *)
(* STOP that was answered has set the stop event, and the mission takes    *)
(* commands in the order the ground sent them, STOP first.                 *)
(*                                                                         *)
(* The argument is about order.  Requests leave the ground, and reach the  *)
(* worker, in the order of their names, repetitions of one side by side:   *)
(* what the worker meets again is therefore the request it judged last,    *)
(* and that one is in the cache, however small the cache is.               *)
(***************************************************************************)
EXTENDS FleetNode, SequenceTheorems, TLAPS

\* The order of the requests' names.
Le(i, j) == i[1] < j[1] \/ (i[1] = j[1] /\ i[2] <= j[2])

Top(g) == <<ground[g].session, ground[g].seq>>

\* A request under way is one the ground has sent, and the one it waits for if it
\* has that one's name.
Sent(r) == \A g \in Grounds :
    /\ Le(IdOf(r), Top(g))
    /\ ground[g].waits # NoRequest /\ IdOf(ground[g].waits) = IdOf(r)
         => r = ground[g].waits

GroundInv == \A g \in Grounds :
    /\ ground[g].session = sessions
    /\ ground[g].waits # NoRequest => IdOf(ground[g].waits) = Top(g)

FlightInv ==
    /\ \A r \in Requests : \A i \in 1 .. Len(up) : up[i] = r => Sent(r)
    /\ \A r \in Requests : \A i \in 1 .. Len(inbox) : inbox[i] = r => Sent(r)
    /\ \A r, s \in Requests : \A i, j \in 1 .. Len(up) :
          i <= j /\ up[i] = r /\ up[j] = s => Le(IdOf(r), IdOf(s))
    /\ \A r, s \in Requests : \A i, j \in 1 .. Len(inbox) :
          i <= j /\ inbox[i] = r /\ inbox[j] = s => Le(IdOf(r), IdOf(s))
    /\ \A r, s \in Requests : \A i \in 1 .. Len(inbox), j \in 1 .. Len(up) :
          inbox[i] = r /\ up[j] = s => Le(IdOf(r), IdOf(s))

\* The cache ends with the latest of the requests that were judged.
Newest == IdOf(cache[Len(cache)])

CacheInv ==
    /\ \A k \in 1 .. Len(cache) : /\ cache[k].session = current
                                  /\ verdict[IdOf(cache[k])] = cache[k].verdict
    /\ \A i \in Id : verdict[i] # None => cache # <<>> /\ Le(i, Newest)
    /\ cache # <<>> =>
          /\ \A g \in Grounds : Le(Newest, Top(g))
          /\ \A r \in Requests : \A i \in 1 .. Len(inbox) : inbox[i] = r => Le(Newest, IdOf(r))
          /\ \A r \in Requests : \A i \in 1 .. Len(up) : up[i] = r => Le(Newest, IdOf(r))

WorkerInv == worker.at # "idle" =>
    /\ worker.req \in Requests
    /\ worker.verdict # None /\ worker.verdict = verdict[IdOf(worker.req)]

\* What waits in the queue was accepted and never taken, each once.
QueueInv ==
    /\ \A k \in 1 .. Len(queue) : /\ verdict[IdOf(queue[k])] = "accepted"
                                  /\ taken[IdOf(queue[k])] = 0
    /\ \A k, l \in 1 .. Len(queue) : k # l => IdOf(queue[k]) # IdOf(queue[l])
    /\ \A i \in Id : taken[i] # 0 => verdict[i] # None

ToldInv == \A i \in Id : told[i] # {} => verdict[i] # None

StopInv == \A g \in Grounds :
    ground[g].waits.cmd = "stop" /\ verdict[IdOf(ground[g].waits)] # None => stop

IInv == /\ TypeOK /\ GroundInv /\ FlightInv /\ CacheInv /\ WorkerInv /\ QueueInv
        /\ ToldInv /\ StopInv

Grounded == [session : 0 .. MaxSession, seq : 0 .. MaxSeq, waits : Requests \cup {NoRequest}]

-----------------------------------------------------------------------------
\* Sequences.
LEMMA TailFacts ==
    ASSUME NEW S, NEW q \in Seq(S), q # <<>>
    PROVE  /\ Head(q) \in S /\ Head(q) = q[1] /\ 1 \in 1 .. Len(q)
           /\ Tail(q) \in Seq(S) /\ Len(Tail(q)) = Len(q) - 1
           /\ \A i \in 1 .. Len(Tail(q)) : i + 1 \in 1 .. Len(q) /\ Tail(q)[i] = q[i + 1]
OBVIOUS

LEMMA AppendFacts ==
    ASSUME NEW S, NEW q \in Seq(S), NEW e \in S
    PROVE  /\ Append(q, e) \in Seq(S) /\ Len(Append(q, e)) = Len(q) + 1
           /\ \A i \in 1 .. Len(q) : Append(q, e)[i] = q[i]
           /\ Append(q, e)[Len(q) + 1] = e
           /\ \A i \in 1 .. Len(q) + 1 : i \in 1 .. Len(q) \/ i = Len(q) + 1
OBVIOUS

LEMMA RemoveFacts ==
    ASSUME NEW S, NEW q \in Seq(S), NEW k \in 1 .. Len(q)
    PROVE  /\ RemoveAt(q, k) \in Seq(S) /\ Len(RemoveAt(q, k)) = Len(q) - 1
           /\ \A i \in 1 .. Len(q) - 1 :
                 /\ i \in 1 .. Len(q) /\ i + 1 \in 1 .. Len(q)
                 /\ RemoveAt(q, k)[i] = IF i < k THEN q[i] ELSE q[i + 1]
<1>1. /\ SubSeq(q, 1, k - 1) \in Seq(S) /\ Len(SubSeq(q, 1, k - 1)) = k - 1
      /\ \A i \in 1 .. k - 1 : SubSeq(q, 1, k - 1)[i] = q[i]
    OBVIOUS
<1>2. /\ SubSeq(q, k + 1, Len(q)) \in Seq(S) /\ Len(SubSeq(q, k + 1, Len(q))) = Len(q) - k
      /\ \A i \in 1 .. Len(q) - k : SubSeq(q, k + 1, Len(q))[i] = q[k + i]
    OBVIOUS
<1> DEFINE a == SubSeq(q, 1, k - 1)
           b == SubSeq(q, k + 1, Len(q))
<1>3. RemoveAt(q, k) = a \o b
    BY DEF RemoveAt
<1>4. a \in Seq(S) /\ b \in Seq(S) /\ Len(a) = k - 1 /\ Len(b) = Len(q) - k
    BY <1>1, <1>2
<1>5. /\ \A i \in 1 .. k - 1 : a[i] = q[i]
      /\ \A i \in 1 .. Len(q) - k : b[i] = q[k + i]
    BY <1>1, <1>2
<1> HIDE DEF a, b
<1>6. /\ a \o b \in Seq(S) /\ Len(a \o b) = Len(a) + Len(b)
      /\ \A i \in 1 .. Len(a) + Len(b) :
            (a \o b)[i] = IF i <= Len(a) THEN a[i] ELSE b[i - Len(a)]
    BY <1>4, ConcatProperties
<1>7. Len(a) + Len(b) = Len(q) - 1 /\ Len(q) \in Nat
    BY <1>4
<1>8. ASSUME NEW i \in 1 .. Len(q) - 1
      PROVE  /\ i \in 1 .. Len(q) /\ i + 1 \in 1 .. Len(q)
             /\ (a \o b)[i] = IF i < k THEN q[i] ELSE q[i + 1]
    <2>1. i \in 1 .. Len(q) /\ i + 1 \in 1 .. Len(q)
        BY <1>7
    <2>2. CASE i < k
        BY <1>4, <1>5, <1>6, <1>7, <2>1, <2>2
    <2>3. CASE ~(i < k)
        <3>1. i - Len(a) \in 1 .. Len(q) - k /\ k + (i - Len(a)) = i + 1 /\ ~(i <= Len(a))
            BY <1>4, <1>7, <2>3
        <3>2. (a \o b)[i] = b[i - Len(a)]
            BY <1>6, <1>7, <3>1
        <3>3. b[i - Len(a)] = q[i + 1]
            BY <1>5, <3>1
        <3> QED
            BY <2>1, <2>3, <3>2, <3>3
    <2> QED
        BY <2>2, <2>3
<1> QED
    BY <1>3, <1>6, <1>7, <1>8

LEMMA NoRequestIsNone == NoRequest \notin Requests /\ Foreign \notin Requests
BY ConstantsAssumption DEF NoRequest, Requests, Foreign

LEMMA InitInv == Init => IInv
<1> SUFFICES ASSUME Init PROVE IInv
    OBVIOUS
<1> USE DEF Init
<1>1. ground \in [Grounds -> Grounded]
    BY ConstantsAssumption DEF Off, Grounded
<1>2. worker \in [at : {"idle", "accept", "reply"},
                  req : Requests \cup {NoRequest}, verdict : Verdicts \cup {None}]
    BY DEF Idle
<1>3. TypeOK
  <2>1. \A S : <<>> \in Seq(S) /\ Len(<<>>) = 0
    OBVIOUS
  <2>2. /\ verdict \in [Id -> Verdicts \cup {None}]
        /\ told \in [Id -> SUBSET Verdicts]
        /\ taken \in [Id -> Nat]
    OBVIOUS
  <2>3. status \in [seq : 0 .. MaxSeq, code : {"idle", "accepted", "done", "failed"}]
    BY ConstantsAssumption
  <2>4. sessions \in 0 .. MaxSession /\ current \in 0 .. MaxSession
    BY ConstantsAssumption
  <2>5. \A n \in {MaxWire, InboxSize, QueueSize, CacheSize} : 0 <= n
    BY ConstantsAssumption
  <2> QED
    BY <1>1, <1>2, <2>1, <2>2, <2>3, <2>4, <2>5 DEF TypeOK, Grounded
<1>4. GroundInv /\ StopInv
    BY DEF GroundInv, StopInv, Off, NoRequest, None
<1>5. FlightInv /\ CacheInv /\ WorkerInv /\ QueueInv /\ ToldInv
    BY DEF FlightInv, CacheInv, WorkerInv, QueueInv, ToldInv, Idle
<1> QED
    BY <1>3, <1>4, <1>5 DEF IInv

-----------------------------------------------------------------------------
\* Names and their order.
Pairs == Nat \X Nat

LEMMA LeFacts ==
    /\ \A i \in Pairs : Le(i, i)
    /\ \A i, j \in Pairs : Le(i, j) /\ Le(j, i) => i = j
    /\ \A i, j, k \in Pairs : Le(i, j) /\ Le(j, k) => Le(i, k)
BY DEF Le, Pairs

LEMMA Naming ==
    ASSUME IInv
    PROVE  /\ \A r \in Requests \cup Responses : IdOf(r) \in Id /\ IdOf(r) \in Pairs
           /\ \A i \in Id : i \in Pairs
           /\ \A g \in Grounds : Top(g) \in Pairs
<1>1. \A i \in Id : i \in Pairs
    BY ConstantsAssumption DEF Id, Pairs
<1>2. ASSUME NEW r \in Requests \cup Responses PROVE IdOf(r) \in Id
    <2>1. r.session \in 1 .. MaxSession /\ r.seq \in 1 .. MaxSeq
        BY DEF Requests, Responses
    <2> QED
        BY <2>1 DEF IdOf, Id
<1>3. ASSUME NEW g \in Grounds PROVE Top(g) \in Pairs
    <2>1. ground[g].session \in 0 .. MaxSession /\ ground[g].seq \in 0 .. MaxSeq
        BY DEF IInv, TypeOK
    <2> QED
        BY <2>1, ConstantsAssumption DEF Top, Pairs
<1> QED
    BY <1>1, <1>2, <1>3

\* In which no worker, queue or history has a part.
still == <<worker, queue, status, doing, stop, ledger, memory, readonly>>

LEMMA StillTyped ==
    ASSUME IInv, UNCHANGED still,
           ground' \in [Grounds -> Grounded], sessions' \in 0 .. MaxSession,
           up' \in Seq(Requests \cup {Foreign}), Len(up') <= MaxWire,
           down' \in Seq(Responses), Len(down') <= MaxWire,
           inbox' \in Seq(Requests \cup {Foreign}), Len(inbox') <= InboxSize
    PROVE  TypeOK' /\ WorkerInv' /\ QueueInv' /\ ToldInv'
BY DEF IInv, TypeOK, Grounded, still, memory, ledger, WorkerInv, QueueInv, ToldInv

LEMMA GroundStartStep ==
    ASSUME IInv, NEW g \in Grounds, GroundStart(g)
    PROVE  IInv'
<1> USE DEF IInv
<1> DEFINE new == [session |-> sessions + 1, seq |-> 0, waits |-> NoRequest]
<1>1. new \in Grounded
    BY ConstantsAssumption DEF GroundStart, TypeOK, Grounded
<1>2. /\ ground' = [ground EXCEPT ![g] = new] /\ ground \in [Grounds -> Grounded]
      /\ sessions' = sessions + 1 /\ sessions' \in 0 .. MaxSession
      /\ UNCHANGED <<ether, inbox, memory, verdict, stop>> /\ UNCHANGED still
    BY ConstantsAssumption DEF GroundStart, TypeOK, Grounded, air, still, ledger
<1>3. \A h \in Grounds : h = g /\ ground'[h] = new
    BY <1>2, OneGround
<1> HIDE DEF new
<1>4. new.session = sessions + 1 /\ new.seq = 0 /\ new.waits = NoRequest
    BY DEF new
<1>5. TypeOK' /\ WorkerInv' /\ QueueInv' /\ ToldInv'
    BY <1>1, <1>2, StillTyped DEF TypeOK, ether
<1>6. GroundInv' /\ StopInv'
    BY <1>2, <1>3, <1>4 DEF GroundInv, StopInv, NoRequest, None
<1>7. \A i \in Pairs, h \in Grounds : Le(i, Top(h)) => Le(i, Top(h)')
    <2> TAKE i \in Pairs, h \in Grounds
    <2>1. Top(h) = <<sessions, ground[h].seq>> /\ Top(h)' = <<sessions + 1, 0>>
        BY <1>3, <1>4 DEF Top, GroundInv
    <2> QED
        BY <2>1 DEF Le, Pairs, TypeOK
<1>8. ASSUME NEW r \in Requests, Sent(r) PROVE Sent(r)'
    BY <1>3, <1>4, <1>7, <1>8, Naming DEF Sent
<1>9. FlightInv'
    BY <1>2, <1>8 DEF FlightInv, ether
<1>10. cache # <<>> => Newest \in Pairs
    BY Naming DEF Newest, TypeOK
<1>11. CacheInv'
    BY <1>2, <1>7, <1>10 DEF CacheInv, Newest, ether, memory
<1> QED
    BY <1>5, <1>6, <1>9, <1>11

LEMMA NewestNamed ==
    ASSUME IInv, cache # <<>>
    PROVE  Newest \in Pairs /\ Newest \in Id
<1>1. cache[Len(cache)] \in Responses
    BY DEF IInv, TypeOK
<1> QED
    BY <1>1, Naming DEF Newest

LEMMA GroundSendStep ==
    ASSUME IInv, NEW g \in Grounds, NEW c \in Commands, GroundSend(g, c)
    PROVE  IInv'
<1> USE DEF IInv
<1>1. /\ ground \in [Grounds -> Grounded] /\ ground[g] \in Grounded
      /\ ground[g].session \in 1 .. MaxSession /\ ground[g].seq + 1 \in 1 .. MaxSeq
      /\ ground[g].seq \in Nat
  <2>1. ground \in [Grounds -> Grounded] /\ ground[g] \in Grounded
    BY DEF TypeOK, Grounded
  <2>2. ground[g].session \in 0 .. MaxSession /\ ground[g].seq \in 0 .. MaxSeq
    BY <2>1 DEF Grounded
  <2> QED
    BY <2>1, <2>2, ConstantsAssumption DEF GroundSend
<1> DEFINE r0 == [src |-> g, session |-> ground[g].session, seq |-> ground[g].seq + 1,
                  cmd |-> c]
<1>2. r0 \in Requests
    BY <1>1 DEF Requests
<1>3. PICK r \in Requests : r = r0
    BY <1>2
<1>4. /\ r.session = ground[g].session /\ r.seq = ground[g].seq + 1 /\ r.cmd = c
      /\ IdOf(r) = <<ground[g].session, ground[g].seq + 1>>
    BY <1>3 DEF IdOf
<1> DEFINE n0 == [[ground[g] EXCEPT !.seq = r.seq] EXCEPT !.waits = r]
<1>5. n0 \in Grounded
  <2>1. r.seq \in 0 .. MaxSeq /\ r \in Requests \cup {NoRequest}
    BY <1>1, <1>4
  <2> QED
    BY <1>1, <2>1 DEF Grounded
<1>6. PICK new \in Grounded : new = n0
    BY <1>5
<1>7. new.session = r.session /\ new.seq = r.seq /\ new.waits = r
    BY <1>1, <1>4, <1>6 DEF Grounded
<1>8. /\ ground' = [ground EXCEPT ![g] = new] /\ ground[g].waits = NoRequest
      /\ up' = Append(up, r) /\ Len(up) < MaxWire
  <2>1. ground' = [ground EXCEPT ![g].seq = r.seq, ![g].waits = r]
    BY <1>3 DEF GroundSend
  <2>2. ground' = [ground EXCEPT ![g] = new]
    BY <1>1, <1>6, <2>1
  <2> QED
    BY <1>3, <2>2 DEF GroundSend
<1>9. UNCHANGED <<sessions, down, inbox, memory, verdict, stop>> /\ UNCHANGED still
    BY DEF GroundSend, air, still, ledger
<1>10. \A h \in Grounds : h = g /\ ground'[h] = new
    BY <1>1, <1>8, OneGround
<1>11. /\ up' \in Seq(Requests \cup {Foreign}) /\ Len(up') = Len(up) + 1
       /\ \A i \in 1 .. Len(up) : up'[i] = up[i]
       /\ up'[Len(up) + 1] = r
       /\ \A i \in 1 .. Len(up') : i \in 1 .. Len(up) \/ i = Len(up) + 1
    BY <1>8, AppendFacts DEF TypeOK
<1>12. TypeOK' /\ WorkerInv' /\ QueueInv' /\ ToldInv'
    <2>1. Len(up') <= MaxWire /\ ground' \in [Grounds -> Grounded]
      <3>1. Len(up') <= MaxWire
        BY <1>8, <1>11, ConstantsAssumption DEF TypeOK
      <3>2. ground' \in [Grounds -> Grounded]
        BY <1>1, <1>8
      <3> QED
        BY <3>1, <3>2
    <2> QED
        BY <1>9, <1>11, <2>1, StillTyped DEF TypeOK
<1>13. Top(g)' = IdOf(r) /\ Le(Top(g), IdOf(r)) /\ ~Le(IdOf(r), Top(g))
    BY <1>1, <1>4, <1>7, <1>10 DEF Top, Le
<1>14. IdOf(r) \in Pairs /\ IdOf(r) \in Id /\ Top(g) \in Pairs
    BY Naming
<1>15. \A i \in Pairs : Le(i, Top(g)) => Le(i, IdOf(r)) /\ i # IdOf(r)
    BY <1>13, <1>14, LeFacts
<1>16. cache # <<>> => Newest \in Pairs /\ Le(Newest, Top(g)) /\ Le(Newest, IdOf(r))
    BY <1>15, NewestNamed DEF CacheInv
<1>17. verdict[IdOf(r)] = None
    <2>1. verdict[IdOf(r)] # None => Le(IdOf(r), Top(g))
        BY <1>14, <1>16, LeFacts DEF CacheInv
    <2> QED
        BY <1>13, <2>1
<1>18. GroundInv' /\ StopInv'
    BY <1>4, <1>7, <1>9, <1>10, <1>13, <1>17 DEF GroundInv, StopInv
<1>19. ASSUME NEW s \in Requests, Sent(s) PROVE Sent(s)' /\ Le(IdOf(s), IdOf(r))
    <2>1. IdOf(s) \in Pairs /\ Le(IdOf(s), Top(g))
        BY <1>19, Naming DEF Sent
    <2>2. Le(IdOf(s), IdOf(r)) /\ IdOf(s) # IdOf(r)
        BY <1>15, <2>1
    <2> QED
        BY <1>7, <1>10, <1>13, <2>2 DEF Sent
<1>20. Sent(r)' /\ Le(IdOf(r), IdOf(r))
    BY <1>7, <1>10, <1>13, <1>14, LeFacts DEF Sent
<1>21. FlightInv'
    <2>1. \A s \in Requests : \A i \in 1 .. Len(up') : up'[i] = s => Sent(s)'
        BY <1>11, <1>19, <1>20 DEF FlightInv
    <2>2. \A s \in Requests : \A i \in 1 .. Len(inbox) : inbox[i] = s => Sent(s)'
        BY <1>19 DEF FlightInv
    <2>3. \A s, t \in Requests : \A i, j \in 1 .. Len(up') :
             i <= j /\ up'[i] = s /\ up'[j] = t => Le(IdOf(s), IdOf(t))
        <3>1. ASSUME NEW s \in Requests, NEW t \in Requests, NEW i \in 1 .. Len(up'),
                     NEW j \in 1 .. Len(up'), i <= j, up'[i] = s, up'[j] = t
              PROVE  Le(IdOf(s), IdOf(t))
            <4>1. CASE j \in 1 .. Len(up)
                <5>1. i \in 1 .. Len(up)
                    BY <1>11, <3>1, <4>1 DEF TypeOK
                <5> QED
                    BY <1>11, <3>1, <4>1, <5>1 DEF FlightInv
            <4>2. CASE j = Len(up) + 1
                BY <1>11, <1>19, <1>20, <3>1, <4>2 DEF FlightInv
            <4> QED
                BY <1>11, <4>1, <4>2
        <3> QED
            BY <3>1
    <2>4. \A s, t \in Requests : \A i \in 1 .. Len(inbox), j \in 1 .. Len(up') :
             inbox[i] = s /\ up'[j] = t => Le(IdOf(s), IdOf(t))
        BY <1>11, <1>19 DEF FlightInv
    <2> QED
        BY <1>9, <2>1, <2>2, <2>3, <2>4 DEF FlightInv
<1>22. CacheInv'
    <2>1. cache # <<>> =>
             \A s \in Requests : \A i \in 1 .. Len(up') : up'[i] = s => Le(Newest, IdOf(s))
        BY <1>11, <1>16 DEF CacheInv
    <2>2. Newest' = Newest /\ \A h \in Grounds : Top(h)' = IdOf(r)
        BY <1>9, <1>10, <1>13 DEF Newest, memory
    <2> QED
        BY <1>9, <1>16, <2>1, <2>2 DEF CacheInv, memory
<1> QED
    BY <1>12, <1>18, <1>21, <1>22

LEMMA GroundRetryStep ==
    ASSUME IInv, NEW g \in Grounds, GroundRetry(g)
    PROVE  IInv'
<1> USE DEF IInv
<1>1. ground[g].waits \in Requests /\ up' = Append(up, ground[g].waits) /\ Len(up) < MaxWire
    BY DEF GroundRetry, TypeOK
<1>2. PICK r \in Requests : r = ground[g].waits
    BY <1>1
<1>3. UNCHANGED <<ground, sessions, down, inbox, memory, verdict, stop>> /\ UNCHANGED still
    BY DEF GroundRetry, air, still, ledger
<1>4. /\ up' \in Seq(Requests \cup {Foreign}) /\ Len(up') = Len(up) + 1
      /\ \A i \in 1 .. Len(up) : up'[i] = up[i]
      /\ up'[Len(up) + 1] = r
      /\ \A i \in 1 .. Len(up') : i \in 1 .. Len(up) \/ i = Len(up) + 1
    BY <1>1, <1>2, AppendFacts DEF TypeOK
<1>5. TypeOK' /\ WorkerInv' /\ QueueInv' /\ ToldInv'
    <2>1. Len(up') <= MaxWire
        BY <1>1, <1>4, ConstantsAssumption DEF TypeOK
    <2> QED
        BY <1>3, <1>4, <2>1, StillTyped DEF TypeOK, Grounded
<1>6. r # NoRequest /\ IdOf(r) = Top(g) /\ IdOf(r) \in Pairs
    BY <1>1, <1>2, NoRequestIsNone, Naming DEF GroundInv
<1>7. \A h \in Grounds : h = g
    BY OneGround
<1>8. Sent(r) /\ Le(IdOf(r), IdOf(r))
    BY <1>2, <1>6, <1>7, LeFacts DEF Sent
<1>9. \A s \in Requests : Sent(s) => Le(IdOf(s), IdOf(r))
    BY <1>6 DEF Sent
<1>10. \A s \in Requests : Sent(s) => Sent(s)'
    BY <1>3 DEF Sent, Top
<1>11. FlightInv'
    <2>1. \A s \in Requests : \A i \in 1 .. Len(up') : up'[i] = s => Sent(s)'
        BY <1>4, <1>8, <1>10 DEF FlightInv
    <2>2. \A s \in Requests : \A i \in 1 .. Len(inbox) : inbox[i] = s => Sent(s)'
        BY <1>10 DEF FlightInv
    <2>3. ASSUME NEW s \in Requests, NEW t \in Requests, NEW i \in 1 .. Len(up'),
                 NEW j \in 1 .. Len(up'), i <= j, up'[i] = s, up'[j] = t
          PROVE  Le(IdOf(s), IdOf(t))
        <3>1. CASE j \in 1 .. Len(up)
            <4>1. i \in 1 .. Len(up)
                BY <1>4, <2>3, <3>1 DEF TypeOK
            <4> QED
                BY <1>4, <2>3, <3>1, <4>1 DEF FlightInv
        <3>2. CASE j = Len(up) + 1
            BY <1>4, <1>8, <1>9, <2>3, <3>2 DEF FlightInv
        <3> QED
            BY <1>4, <3>1, <3>2
    <2>4. \A s, t \in Requests : \A i \in 1 .. Len(inbox), j \in 1 .. Len(up') :
             inbox[i] = s /\ up'[j] = t => Le(IdOf(s), IdOf(t))
        BY <1>4, <1>9 DEF FlightInv
    <2> QED
        BY <1>3, <2>1, <2>2, <2>3, <2>4 DEF FlightInv
<1>12. CacheInv'
    <2>1. cache # <<>> => Le(Newest, IdOf(r))
        BY <1>6 DEF CacheInv
    <2>2. cache # <<>> =>
             \A s \in Requests : \A i \in 1 .. Len(up') : up'[i] = s => Le(Newest, IdOf(s))
        BY <1>4, <2>1 DEF CacheInv
    <2> QED
        BY <1>3, <2>2 DEF CacheInv, memory, Newest, Top
<1>13. GroundInv' /\ StopInv'
    BY <1>3 DEF GroundInv, StopInv, Top
<1> QED
    BY <1>5, <1>11, <1>12, <1>13

\* A program stops waiting.
LEMMA WaitLess ==
    ASSUME IInv, UNCHANGED <<sessions, up, inbox, still>>,
           down' \in Seq(Responses), Len(down') <= MaxWire,
           ground' \in [Grounds -> Grounded],
           \A h \in Grounds : /\ ground'[h].session = ground[h].session
                              /\ ground'[h].seq = ground[h].seq
                              /\ ground'[h].waits \in {ground[h].waits, NoRequest}
    PROVE  IInv'
<1> USE DEF IInv
<1>1. TypeOK' /\ WorkerInv' /\ QueueInv' /\ ToldInv'
    BY StillTyped DEF TypeOK
<1>2. \A h \in Grounds : Top(h)' = Top(h)
    BY DEF Top
<1>3. \A s \in Requests : Sent(s) => Sent(s)'
    BY <1>2 DEF Sent
<1>4. FlightInv'
    BY <1>3 DEF FlightInv
<1>5. GroundInv'
    BY <1>2 DEF GroundInv
<1>6. UNCHANGED <<verdict, stop, memory>>
    BY DEF still, ledger
<1>7. StopInv'
    BY <1>6 DEF StopInv, NoRequest, None
<1>8. CacheInv'
    BY <1>2, <1>6 DEF CacheInv, Newest, memory
<1> QED
    BY <1>1, <1>4, <1>5, <1>7, <1>8

LEMMA GroundGiveUpStep ==
    ASSUME IInv, NEW g \in Grounds, GroundGiveUp(g)
    PROVE  IInv'
<1>1. ground \in [Grounds -> Grounded] /\ ground[g] \in Grounded
    BY DEF IInv, TypeOK, Grounded
<1> DEFINE n0 == [ground[g] EXCEPT !.waits = NoRequest]
<1>2. /\ n0 \in Grounded /\ n0.session = ground[g].session /\ n0.seq = ground[g].seq
      /\ n0.waits = NoRequest
    BY <1>1 DEF Grounded
<1>3. ground' = [ground EXCEPT ![g] = n0]
    BY DEF GroundGiveUp
<1> HIDE DEF n0
<1>4. ground' \in [Grounds -> Grounded]
    BY <1>1, <1>2, <1>3
<1>5. UNCHANGED <<sessions, up, down, inbox, still>>
    BY DEF GroundGiveUp, air, still, ether
<1> QED
    BY <1>1, <1>2, <1>3, <1>4, <1>5, WaitLess DEF IInv, TypeOK

LEMMA GroundHearStep ==
    ASSUME IInv, GroundHear
    PROVE  IInv'
<1>1. ground \in [Grounds -> Grounded]
    BY DEF IInv, TypeOK, Grounded
<1>2. ASSUME NEW h \in Grounds
      PROVE  /\ ground'[h] \in Grounded
             /\ ground'[h].session = ground[h].session /\ ground'[h].seq = ground[h].seq
             /\ ground'[h].waits \in {ground[h].waits, NoRequest}
    <2>1. ground'[h] \in {ground[h], [ground[h] EXCEPT !.waits = NoRequest]}
        BY DEF GroundHear
    <2> QED
        BY <1>1, <2>1 DEF Grounded
<1>3. ground' \in [Grounds -> Grounded]
    <2>1. ground' = [h \in Grounds |-> ground'[h]]
        BY DEF GroundHear
    <2> QED
        BY <1>2, <2>1
<1>4. UNCHANGED <<sessions, up, inbox, still>>
    BY DEF GroundHear, air, still
<1>5. down' \in Seq(Responses) /\ Len(down') <= MaxWire
    <2>1. down \in Seq(Responses) /\ Len(down) <= MaxWire /\ MaxWire \in Nat
          /\ down # <<>> /\ down' = Tail(down)
        BY ConstantsAssumption DEF IInv, TypeOK, GroundHear
    <2> QED
        BY <2>1, TailFacts
<1> QED
    BY <1>2, <1>3, <1>4, <1>5, WaitLess

\* The radio and the inbox let frames go, and take strangers' in.
LEMMA UpTail ==
    ASSUME IInv, up # <<>>, up' = Tail(up), UNCHANGED <<ground, inbox>>
    PROVE  /\ up' \in Seq(Requests \cup {Foreign}) /\ Len(up') <= MaxWire
           /\ \A i \in 1 .. Len(up') : i + 1 \in 1 .. Len(up) /\ up'[i] = up[i + 1]
           /\ FlightInv'
<1> USE DEF IInv
<1>1. /\ up' \in Seq(Requests \cup {Foreign}) /\ Len(up') = Len(up) - 1
      /\ \A i \in 1 .. Len(up') : i + 1 \in 1 .. Len(up) /\ up'[i] = up[i + 1]
    BY TailFacts DEF TypeOK
<1>2. Len(up') <= MaxWire
    BY <1>1, ConstantsAssumption DEF TypeOK
<1>3. \A s \in Requests : Sent(s) => Sent(s)'
    BY DEF Sent, Top
<1>4. \A i, j \in 1 .. Len(up') : i <= j => i + 1 <= j + 1
    BY <1>1
<1>5. FlightInv'
    BY <1>1, <1>3, <1>4 DEF FlightInv
<1> QED
    BY <1>1, <1>2, <1>5

LEMMA InboxTail ==
    ASSUME IInv, inbox # <<>>, inbox' = Tail(inbox), UNCHANGED <<ground, up>>
    PROVE  /\ inbox' \in Seq(Requests \cup {Foreign}) /\ Len(inbox') <= InboxSize
           /\ \A i \in 1 .. Len(inbox') : i + 1 \in 1 .. Len(inbox) /\ inbox'[i] = inbox[i + 1]
           /\ Head(inbox) = inbox[1] /\ 1 \in 1 .. Len(inbox)
           /\ Head(inbox) \in Requests \cup {Foreign}
           /\ FlightInv'
<1> USE DEF IInv
<1>1. /\ inbox' \in Seq(Requests \cup {Foreign}) /\ Len(inbox') = Len(inbox) - 1
      /\ \A i \in 1 .. Len(inbox') : i + 1 \in 1 .. Len(inbox) /\ inbox'[i] = inbox[i + 1]
      /\ Head(inbox) = inbox[1] /\ 1 \in 1 .. Len(inbox)
      /\ Head(inbox) \in Requests \cup {Foreign}
    BY TailFacts DEF TypeOK
<1>2. Len(inbox') <= InboxSize
    BY <1>1, ConstantsAssumption DEF TypeOK
<1>3. \A s \in Requests : Sent(s) => Sent(s)'
    BY DEF Sent, Top
<1>4. \A i, j \in 1 .. Len(inbox') : i <= j => i + 1 <= j + 1
    BY <1>1
<1>5. FlightInv'
    BY <1>1, <1>3, <1>4 DEF FlightInv
<1> QED
    BY <1>1, <1>2, <1>5

LEMMA OverhearStep == ASSUME IInv, Overhear PROVE IInv'
<1> USE DEF IInv
<1>1. UNCHANGED <<ground, sessions, down, inbox, memory, verdict, stop>> /\ UNCHANGED still
    BY DEF Overhear, air, still, ledger
<1>2. /\ up' \in Seq(Requests \cup {Foreign}) /\ Len(up') = Len(up) + 1
      /\ \A i \in 1 .. Len(up) : up'[i] = up[i]
      /\ up'[Len(up) + 1] = Foreign
      /\ \A i \in 1 .. Len(up') : i \in 1 .. Len(up) \/ i = Len(up) + 1
    BY AppendFacts DEF Overhear, TypeOK
<1>3. TypeOK' /\ WorkerInv' /\ QueueInv' /\ ToldInv'
    <2>1. Len(up') <= MaxWire
        BY <1>2, ConstantsAssumption DEF Overhear, TypeOK
    <2> QED
        BY <1>1, <1>2, <2>1, StillTyped DEF TypeOK, Grounded
<1>4. \A s \in Requests : \A i \in 1 .. Len(up') :
         up'[i] = s => i \in 1 .. Len(up) /\ up[i] = s
    BY <1>2, NoRequestIsNone
<1>5. \A s \in Requests : Sent(s) => Sent(s)'
    BY <1>1 DEF Sent, Top
<1>6. FlightInv'
    BY <1>1, <1>4, <1>5 DEF FlightInv
<1>7. CacheInv'
    BY <1>1, <1>4 DEF CacheInv, memory, Newest, Top
<1>8. GroundInv' /\ StopInv'
    BY <1>1 DEF GroundInv, StopInv, Top
<1> QED
    BY <1>3, <1>6, <1>7, <1>8

LEMMA LoseStep == ASSUME IInv, Lose PROVE IInv'
<1> USE DEF IInv
<1>1. UNCHANGED <<ground, sessions, inbox, memory, verdict, stop>> /\ UNCHANGED still
    BY DEF Lose, air, still, ledger
<1>2. CASE up # <<>> /\ up' = Tail(up) /\ UNCHANGED down
    <2>1. /\ up' \in Seq(Requests \cup {Foreign}) /\ Len(up') <= MaxWire
          /\ \A i \in 1 .. Len(up') : i + 1 \in 1 .. Len(up) /\ up'[i] = up[i + 1]
          /\ FlightInv'
        BY <1>1, <1>2, UpTail
    <2>2. TypeOK' /\ WorkerInv' /\ QueueInv' /\ ToldInv'
        BY <1>1, <1>2, <2>1, StillTyped DEF TypeOK, Grounded
    <2>3. CacheInv'
        BY <1>1, <2>1 DEF CacheInv, memory, Newest, Top
    <2>4. GroundInv' /\ StopInv'
        BY <1>1 DEF GroundInv, StopInv, Top
    <2> QED
        BY <2>1, <2>2, <2>3, <2>4
<1>3. CASE down # <<>> /\ down' = Tail(down) /\ UNCHANGED up
    <2>1. down' \in Seq(Responses) /\ Len(down') <= MaxWire
        <3>1. down \in Seq(Responses) /\ Len(down) <= MaxWire /\ MaxWire \in Nat
            BY ConstantsAssumption DEF TypeOK
        <3> QED
            BY <1>3, <3>1, TailFacts
    <2> QED
        BY <1>1, <1>3, <2>1, WaitLess DEF TypeOK, Grounded
<1> QED
    BY <1>2, <1>3 DEF Lose

LEMMA FeedBytesStep == ASSUME IInv, FeedBytes PROVE IInv'
<1> USE DEF IInv
<1>1. UNCHANGED <<ground, sessions, down, memory, verdict, stop>> /\ UNCHANGED still
    BY DEF FeedBytes, still, ledger, memory
<1>2. up # <<>> /\ up' = Tail(up)
    BY DEF FeedBytes
<1>3. /\ up' \in Seq(Requests \cup {Foreign}) /\ Len(up') <= MaxWire
      /\ \A i \in 1 .. Len(up') : i + 1 \in 1 .. Len(up) /\ up'[i] = up[i + 1]
      /\ Head(up) = up[1] /\ 1 \in 1 .. Len(up) /\ Head(up) \in Requests \cup {Foreign}
    <2>1. /\ up' \in Seq(Requests \cup {Foreign}) /\ Len(up') = Len(up) - 1
          /\ \A i \in 1 .. Len(up') : i + 1 \in 1 .. Len(up) /\ up'[i] = up[i + 1]
          /\ Head(up) = up[1] /\ 1 \in 1 .. Len(up) /\ Head(up) \in Requests \cup {Foreign}
        BY <1>2, TailFacts DEF TypeOK
    <2>2. Len(up) <= MaxWire /\ Len(up) \in Nat
        BY DEF TypeOK
    <2>3. Len(up') <= MaxWire
        BY <2>1, <2>2, ConstantsAssumption
    <2> QED
        BY <2>1, <2>3
<1>4. \A i, j \in 1 .. Len(up') : i <= j => i + 1 <= j + 1
    BY <1>3
<1>5. /\ inbox' \in Seq(Requests \cup {Foreign}) /\ Len(inbox') <= InboxSize
      /\ \A i \in 1 .. Len(inbox') :
            \/ i \in 1 .. Len(inbox) /\ inbox'[i] = inbox[i]
            \/ i = Len(inbox) + 1 /\ inbox'[i] = up[1]
    <2>1. CASE Len(inbox) < InboxSize
        <3>1. inbox' = Append(inbox, up[1]) /\ up[1] \in Requests \cup {Foreign}
            BY <1>3, <2>1 DEF FeedBytes
        <3>2. inbox \in Seq(Requests \cup {Foreign}) /\ Len(inbox) \in Nat
            BY DEF TypeOK
        <3> QED
            BY <2>1, <3>1, <3>2, AppendFacts, ConstantsAssumption
    <2>2. CASE ~(Len(inbox) < InboxSize)
        BY <2>2 DEF FeedBytes, TypeOK
    <2> QED
        BY <2>1, <2>2
<1>6. TypeOK' /\ WorkerInv' /\ QueueInv' /\ ToldInv'
    BY <1>1, <1>3, <1>5, StillTyped DEF TypeOK, Grounded
<1>7. \A s \in Requests : Sent(s) => Sent(s)'
    BY <1>1 DEF Sent, Top
<1>8. FlightInv'
    <2>1. \A s \in Requests : \A i \in 1 .. Len(up') : up'[i] = s => Sent(s)'
        BY <1>3, <1>7 DEF FlightInv
    <2>2. \A s \in Requests : \A i \in 1 .. Len(inbox') : inbox'[i] = s => Sent(s)'
        BY <1>3, <1>5, <1>7 DEF FlightInv
    <2>3. \A s, t \in Requests : \A i, j \in 1 .. Len(up') :
             i <= j /\ up'[i] = s /\ up'[j] = t => Le(IdOf(s), IdOf(t))
        BY <1>3, <1>4 DEF FlightInv
    <2>4. ASSUME NEW s \in Requests, NEW t \in Requests, NEW i \in 1 .. Len(inbox'),
                 NEW j \in 1 .. Len(inbox'), i <= j, inbox'[i] = s, inbox'[j] = t
          PROVE  Le(IdOf(s), IdOf(t))
        <3>1. CASE j \in 1 .. Len(inbox) /\ inbox'[j] = inbox[j]
            <4>1. i \in 1 .. Len(inbox) /\ inbox'[i] = inbox[i]
                BY <1>5, <2>4, <3>1 DEF TypeOK
            <4> QED
                BY <2>4, <3>1, <4>1 DEF FlightInv
        <3>2. CASE j = Len(inbox) + 1 /\ inbox'[j] = up[1]
            <4>1. CASE i \in 1 .. Len(inbox) /\ inbox'[i] = inbox[i]
                BY <1>3, <2>4, <3>2, <4>1 DEF FlightInv
            <4>2. CASE i = Len(inbox) + 1 /\ inbox'[i] = up[1]
                BY <2>4, <3>2, <4>2, Naming, LeFacts
            <4> QED
                BY <1>5, <4>1, <4>2
        <3> QED
            BY <1>5, <3>1, <3>2
    <2>5. ASSUME NEW s \in Requests, NEW t \in Requests, NEW i \in 1 .. Len(inbox'),
                 NEW j \in 1 .. Len(up'), inbox'[i] = s, up'[j] = t
          PROVE  Le(IdOf(s), IdOf(t))
        <3>1. j + 1 \in 1 .. Len(up) /\ up[j + 1] = t /\ 1 <= j + 1
            BY <1>3, <2>5
        <3>2. CASE i \in 1 .. Len(inbox) /\ inbox'[i] = inbox[i]
            BY <2>5, <3>1, <3>2 DEF FlightInv
        <3>3. CASE inbox'[i] = up[1]
            BY <1>3, <2>5, <3>1, <3>3 DEF FlightInv
        <3> QED
            BY <1>5, <3>2, <3>3
    <2> QED
        BY <2>1, <2>2, <2>3, <2>4, <2>5 DEF FlightInv
<1>9. CacheInv'
    <2>1. cache # <<>> =>
            /\ \A r \in Requests : \A i \in 1 .. Len(inbox') : inbox'[i] = r => Le(Newest, IdOf(r))
            /\ \A r \in Requests : \A i \in 1 .. Len(up') : up'[i] = r => Le(Newest, IdOf(r))
        BY <1>3, <1>5 DEF CacheInv
    <2> QED
        BY <1>1, <2>1 DEF CacheInv, memory, Newest, Top
<1>10. GroundInv' /\ StopInv'
    BY <1>1 DEF GroundInv, StopInv, Top
<1> QED
    BY <1>6, <1>8, <1>9, <1>10

LEMMA IgnoreStrangerStep == ASSUME IInv, IgnoreStranger PROVE IInv'
<1> USE DEF IInv
<1>1. UNCHANGED <<ground, sessions, up, down, memory, verdict, stop>> /\ UNCHANGED still
    BY DEF IgnoreStranger, outside, ether, still, ledger
<1>2. /\ inbox' \in Seq(Requests \cup {Foreign}) /\ Len(inbox') <= InboxSize
      /\ \A i \in 1 .. Len(inbox') : i + 1 \in 1 .. Len(inbox) /\ inbox'[i] = inbox[i + 1]
      /\ FlightInv'
    BY <1>1, InboxTail DEF IgnoreStranger
<1>3. TypeOK' /\ WorkerInv' /\ QueueInv' /\ ToldInv'
    BY <1>1, <1>2, StillTyped DEF TypeOK, Grounded
<1>4. CacheInv'
    BY <1>1, <1>2 DEF CacheInv, memory, Newest, Top
<1>5. GroundInv' /\ StopInv'
    BY <1>1 DEF GroundInv, StopInv, Top
<1> QED
    BY <1>2, <1>3, <1>4, <1>5

-----------------------------------------------------------------------------
\* The worker judges, or answers from the cache.
LEMMA HeadNamed ==
    ASSUME IInv, inbox # <<>>, Controls(Head(inbox))
    PROVE  /\ Head(inbox) \in Requests /\ Head(inbox) = inbox[1] /\ 1 \in 1 .. Len(inbox)
           /\ Sent(Head(inbox))
           /\ cache # <<>> => Le(Newest, IdOf(Head(inbox)))
<1>1. Head(inbox) = inbox[1] /\ 1 \in 1 .. Len(inbox) /\ Head(inbox) \in Requests \cup {Foreign}
    BY TailFacts DEF IInv, TypeOK
<1>2. Head(inbox) # Foreign
    BY ConstantsAssumption DEF Controls, Foreign
<1> QED
    BY <1>1, <1>2 DEF IInv, FlightInv, CacheInv

LEMMA HandleRepeatedStep == ASSUME IInv, HandleRepeated PROVE IInv'
<1> USE DEF IInv
<1>1. inbox # <<>> /\ Controls(Head(inbox)) /\ inbox' = Tail(inbox)
    BY DEF HandleRepeated
<1>2. UNCHANGED <<ground, sessions, up, down, current, readonly, queue, status, doing, stop,
                  verdict, told, taken>>
    BY DEF HandleRepeated, outside, ether, ledger
<1>3. PICK r \in Requests : r = Head(inbox)
    BY <1>1, HeadNamed
<1>4. PICK k \in Hits(CacheFor(r), r) :
         /\ worker' = [at |-> "reply", req |-> r, verdict |-> cache[k].verdict]
         /\ cache' = Append(RemoveAt(cache, k), cache[k])
    BY <1>3 DEF HandleRepeated
<1>5. k \in 1 .. Len(cache) /\ IdOf(cache[k]) = IdOf(r)
    <2>1. k \in 1 .. Len(CacheFor(r)) /\ IdOf(CacheFor(r)[k]) = IdOf(r)
        BY <1>4 DEF Hits
    <2>2. Len(<<>>) = 0 /\ k \in Int
        BY <2>1
    <2>3. CacheFor(r) = cache
        BY <2>1, <2>2 DEF CacheFor
    <2> QED
        BY <2>1, <2>3
<1>6. PICK m \in Responses : m = cache[k]
    BY <1>5 DEF TypeOK
<1>7. m.verdict \in Verdicts /\ m.verdict # None /\ IdOf(m) = IdOf(r) /\ cache # <<>>
    <2>1. m.verdict \in Verdicts
        BY DEF Responses
    <2>2. cache # <<>>
        BY <1>5
    <2> QED
        BY <1>5, <1>6, <2>1, <2>2 DEF Verdicts, None
<1>8. verdict[IdOf(r)] = m.verdict /\ IdOf(r) \in Id
    BY <1>5, <1>6, Naming DEF CacheInv
<1>9. Newest = IdOf(r)
    <2>1. Le(Newest, IdOf(r))
        BY <1>1, <1>3, <1>7, HeadNamed
    <2>2. Le(IdOf(r), Newest)
        BY <1>7, <1>8 DEF CacheInv
    <2> QED
        BY <1>7, <2>1, <2>2, Naming, NewestNamed, LeFacts
<1>10. /\ cache' \in Seq(Responses) /\ Len(cache') = Len(cache) /\ cache' # <<>>
       /\ cache'[Len(cache')] = m
       /\ \A i \in 1 .. Len(cache') : \E j \in 1 .. Len(cache) : cache'[i] = cache[j]
    <2> DEFINE rest == RemoveAt(cache, k)
    <2>1. cache \in Seq(Responses) /\ Len(cache) \in Nat
        BY DEF TypeOK
    <2>2. /\ rest \in Seq(Responses) /\ Len(rest) = Len(cache) - 1
          /\ \A i \in 1 .. Len(cache) - 1 :
                /\ i \in 1 .. Len(cache) /\ i + 1 \in 1 .. Len(cache)
                /\ rest[i] = IF i < k THEN cache[i] ELSE cache[i + 1]
        BY <1>5, <2>1, RemoveFacts
    <2>3. cache' = Append(rest, m)
        BY <1>4, <1>6
    <2> HIDE DEF rest
    <2>4. /\ cache' \in Seq(Responses) /\ Len(cache') = Len(rest) + 1
          /\ \A i \in 1 .. Len(rest) : cache'[i] = rest[i]
          /\ cache'[Len(rest) + 1] = m
          /\ \A i \in 1 .. Len(rest) + 1 : i \in 1 .. Len(rest) \/ i = Len(rest) + 1
        BY <2>2, <2>3, AppendFacts
    <2>5. Len(cache') = Len(cache) /\ cache'[Len(cache')] = m /\ cache' # <<>>
        BY <1>5, <2>1, <2>2, <2>4
    <2>6. ASSUME NEW i \in 1 .. Len(cache') PROVE \E j \in 1 .. Len(cache) : cache'[i] = cache[j]
        <3>1. CASE i \in 1 .. Len(rest)
            BY <2>2, <2>4, <3>1
        <3>2. CASE i = Len(rest) + 1
            BY <1>5, <1>6, <2>4, <3>2
        <3> QED
            BY <2>4, <3>1, <3>2
    <2> QED
        BY <2>4, <2>5, <2>6
<1>11. /\ inbox' \in Seq(Requests \cup {Foreign}) /\ Len(inbox') <= InboxSize
       /\ \A i \in 1 .. Len(inbox') : i + 1 \in 1 .. Len(inbox) /\ inbox'[i] = inbox[i + 1]
       /\ FlightInv'
    BY <1>1, <1>2, InboxTail
<1>12. TypeOK'
    <2>1. worker' \in [at : {"idle", "accept", "reply"},
                       req : Requests \cup {NoRequest}, verdict : Verdicts \cup {None}]
        BY <1>4, <1>6, <1>7
    <2> QED
        BY <1>2, <1>10, <1>11, <2>1 DEF TypeOK
<1>13. WorkerInv'
    BY <1>2, <1>4, <1>6, <1>7, <1>8 DEF WorkerInv
<1>14. CacheInv'
    <2>1. Newest' = Newest
        BY <1>7, <1>9, <1>10 DEF Newest
    <2>2. \A i \in 1 .. Len(cache') : /\ cache'[i].session = current'
                                      /\ verdict'[IdOf(cache'[i])] = cache'[i].verdict
        BY <1>2, <1>10 DEF CacheInv
    <2> QED
        BY <1>2, <1>7, <1>10, <1>11, <2>1, <2>2 DEF CacheInv, Top
<1>15. GroundInv' /\ StopInv' /\ QueueInv' /\ ToldInv'
    BY <1>2 DEF GroundInv, StopInv, Top, QueueInv, ToldInv
<1> QED
    BY <1>11, <1>12, <1>13, <1>14, <1>15

LEMMA JudgementType ==
    ASSUME NEW r, NEW posed
    PROVE  Judgement(r, posed) \in Verdicts /\ Judgement(r, posed) # None
BY DEF Judgement, Verdicts, None

\* A request not in the cache was never judged.
LEMMA MissIsNew ==
    ASSUME IInv, inbox # <<>>, Controls(Head(inbox)),
           Hits(CacheFor(Head(inbox)), Head(inbox)) = {}
    PROVE  verdict[IdOf(Head(inbox))] = None
<1> USE DEF IInv
<1>1. PICK r \in Requests : r = Head(inbox)
    BY HeadNamed
<1>2. SUFFICES ASSUME verdict[IdOf(r)] # None PROVE FALSE
    BY <1>1
<1>3. cache # <<>> /\ Le(IdOf(r), Newest) /\ Le(Newest, IdOf(r))
    BY <1>1, <1>2, Naming, HeadNamed DEF CacheInv
<1>4. Newest = IdOf(r)
    BY <1>3, Naming, NewestNamed, LeFacts
<1>5. Len(cache) \in 1 .. Len(cache)
    BY <1>3 DEF TypeOK
<1>6. r.session = current
    BY <1>4, <1>5 DEF CacheInv, Newest, IdOf
<1> QED
    BY <1>1, <1>4, <1>5, <1>6 DEF Hits, CacheFor, Newest

LEMMA PutItemFacts ==
    ASSUME NEW items \in Seq(Responses), Len(items) <= CacheSize, NEW m \in Responses
    PROVE  /\ PutItem(items, m) \in Seq(Responses)
           /\ Len(PutItem(items, m)) <= CacheSize /\ PutItem(items, m) # <<>>
           /\ PutItem(items, m)[Len(PutItem(items, m))] = m
           /\ \A i \in 1 .. Len(PutItem(items, m)) :
                 \/ PutItem(items, m)[i] = m
                 \/ \E j \in 1 .. Len(items) : PutItem(items, m)[i] = items[j]
<1> DEFINE grown == Append(items, m)
<1>1. /\ grown \in Seq(Responses) /\ Len(grown) = Len(items) + 1
      /\ \A i \in 1 .. Len(items) : grown[i] = items[i]
      /\ grown[Len(items) + 1] = m
      /\ \A i \in 1 .. Len(items) + 1 : i \in 1 .. Len(items) \/ i = Len(items) + 1
    BY AppendFacts
<1>2. Len(items) \in Nat /\ CacheSize \in Nat \ {0}
    BY ConstantsAssumption
<1>3. PutItem(items, m) = IF Len(grown) > CacheSize THEN Tail(grown) ELSE grown
    BY DEF PutItem
<1> HIDE DEF grown
<1>4. \A i \in 1 .. Len(grown) : grown[i] = m \/ \E j \in 1 .. Len(items) : grown[i] = items[j]
    BY <1>1
<1>5. CASE Len(grown) > CacheSize
    <2>1. grown # <<>>
        BY <1>1, <1>2
    <2>2. /\ Tail(grown) \in Seq(Responses) /\ Len(Tail(grown)) = Len(items)
          /\ \A i \in 1 .. Len(Tail(grown)) :
                i + 1 \in 1 .. Len(grown) /\ Tail(grown)[i] = grown[i + 1]
        BY <1>1, <1>2, <2>1, TailFacts
    <2>3. Len(items) \in 1 .. Len(items) /\ Tail(grown) # <<>>
        BY <1>1, <1>2, <1>5, <2>2
    <2> QED
        BY <1>1, <1>3, <1>4, <1>5, <2>2, <2>3
<1>6. CASE ~(Len(grown) > CacheSize)
    BY <1>1, <1>2, <1>3, <1>4, <1>6
<1> QED
    BY <1>5, <1>6

LEMMA HandleNewStep == ASSUME IInv, HandleNew PROVE IInv'
<1> USE DEF IInv
<1>1. /\ inbox # <<>> /\ Controls(Head(inbox)) /\ inbox' = Tail(inbox)
      /\ Hits(CacheFor(Head(inbox)), Head(inbox)) = {}
    BY DEF HandleNew
<1>2. UNCHANGED <<ground, sessions, up, down, readonly, status, doing, told, taken>>
    BY DEF HandleNew, outside, ether
<1>3. PICK r \in Requests : r = Head(inbox)
    BY <1>1, HeadNamed
<1>4. PICK posed \in BOOLEAN :
         LET v == Judgement(r, posed)
         IN /\ cache' = PutItem(CacheFor(r), Response(r, v))
            /\ queue' = IF v = "accepted" THEN Append(queue, r) ELSE queue
            /\ worker' = [at |-> IF v = "accepted" THEN "accept" ELSE "reply",
                          req |-> r, verdict |-> v]
            /\ verdict' = [verdict EXCEPT ![IdOf(r)] = v]
    BY <1>3 DEF HandleNew
<1>5. PICK v \in Verdicts : v = Judgement(r, posed)
    BY JudgementType
<1>6. v # None
    BY <1>5, JudgementType
<1>7. PICK m \in Responses : m = Response(r, v)
    BY DEF Requests, Responses, Response
<1>8. IdOf(m) = IdOf(r) /\ m.verdict = v /\ m.session = r.session
    BY <1>7 DEF Response, IdOf
<1>9. /\ cache' = PutItem(CacheFor(r), m)
      /\ queue' = IF v = "accepted" THEN Append(queue, r) ELSE queue
      /\ worker' = [at |-> IF v = "accepted" THEN "accept" ELSE "reply",
                    req |-> r, verdict |-> v]
      /\ verdict' = [verdict EXCEPT ![IdOf(r)] = v]
    BY <1>4, <1>5, <1>7
<1>10. IdOf(r) \in Id /\ IdOf(r) \in Pairs /\ verdict[IdOf(r)] = None
    BY <1>1, <1>3, Naming, MissIsNew
<1>11. /\ verdict' \in [Id -> Verdicts \cup {None}] /\ verdict'[IdOf(r)] = v
       /\ \A i \in Id : i # IdOf(r) => verdict'[i] = verdict[i]
    BY <1>9, <1>10 DEF TypeOK
<1>12. Sent(r) /\ (cache # <<>> => Le(Newest, IdOf(r)) /\ Newest \in Pairs)
    BY <1>1, <1>3, HeadNamed, NewestNamed
<1>13. current' = r.session /\ r.session \in 1 .. MaxSession
       /\ stop' = (stop \/ r.cmd = "stop")
    BY <1>3 DEF HandleNew, Stops, Requests
<1>14. /\ inbox' \in Seq(Requests \cup {Foreign}) /\ Len(inbox') <= InboxSize
       /\ \A i \in 1 .. Len(inbox') : i + 1 \in 1 .. Len(inbox) /\ inbox'[i] = inbox[i + 1]
       /\ inbox[1] = r /\ 1 \in 1 .. Len(inbox)
       /\ FlightInv'
    BY <1>1, <1>2, <1>3, InboxTail
<1>15. CacheFor(r) \in Seq(Responses) /\ Len(CacheFor(r)) <= CacheSize
    BY ConstantsAssumption DEF CacheFor, TypeOK
<1>16. /\ cache' \in Seq(Responses) /\ Len(cache') <= CacheSize /\ cache' # <<>>
       /\ cache'[Len(cache')] = m
       /\ \A i \in 1 .. Len(cache') :
             cache'[i] = m \/ \E j \in 1 .. Len(CacheFor(r)) : cache'[i] = CacheFor(r)[j]
    BY <1>9, <1>15, PutItemFacts
<1>17. /\ queue' \in Seq(Requests) /\ Len(queue') <= QueueSize
       /\ \A k \in 1 .. Len(queue') :
             \/ k \in 1 .. Len(queue) /\ queue'[k] = queue[k]
             \/ k = Len(queue) + 1 /\ queue'[k] = r /\ v = "accepted"
    <2>1. queue \in Seq(Requests) /\ Len(queue) <= QueueSize /\ Len(queue) \in Nat
        BY DEF TypeOK
    <2>2. CASE v = "accepted"
        <3>1. queue' = Append(queue, r)
            BY <1>9, <2>2
        <3>2. ~Busy
            <4>1. r.cmd \in {"poll", "ping", "goto", "start", "stop"}
                BY ConstantsAssumption DEF Requests
            <4> QED
                BY <1>5, <2>2, <4>1 DEF Judgement
        <3>3. Len(queue) + 1 <= QueueSize
            BY <2>1, <3>2, ConstantsAssumption DEF Busy
        <3> QED
            BY <2>1, <2>2, <3>1, <3>3, AppendFacts
    <2>3. CASE v # "accepted"
        BY <1>9, <2>1, <2>3
    <2> QED
        BY <2>2, <2>3
<1>18. TypeOK'
    <2>1. worker' \in [at : {"idle", "accept", "reply"},
                       req : Requests \cup {NoRequest}, verdict : Verdicts \cup {None}]
        BY <1>9
    <2>2. stop' \in BOOLEAN /\ current' \in 0 .. MaxSession
        BY <1>13, ConstantsAssumption DEF TypeOK
    <2> QED
        BY <1>2, <1>11, <1>14, <1>16, <1>17, <2>1, <2>2 DEF TypeOK
<1>19. WorkerInv'
    BY <1>6, <1>9, <1>11 DEF WorkerInv
<1>20. CacheInv'
    <2>1. Newest' = IdOf(r)
        BY <1>8, <1>16 DEF Newest
    <2>2. ASSUME NEW i \in 1 .. Len(cache')
          PROVE  cache'[i].session = current' /\ verdict'[IdOf(cache'[i])] = cache'[i].verdict
        <3>1. CASE cache'[i] = m
            BY <1>8, <1>11, <1>13, <3>1
        <3>2. ASSUME NEW j \in 1 .. Len(CacheFor(r)), cache'[i] = CacheFor(r)[j]
              PROVE  cache'[i].session = current' /\ verdict'[IdOf(cache'[i])] = cache'[i].verdict
            <4>1. Len(<<>>) = 0 /\ j \in Int
                OBVIOUS
            <4>2. CacheFor(r) = cache /\ r.session = current
                BY <3>2, <4>1 DEF CacheFor
            <4>3. cache[j] \in Responses /\ cache'[i] = cache[j] /\ j \in 1 .. Len(cache)
                BY <3>2, <4>2 DEF TypeOK
            <4>4. IdOf(cache[j]) # IdOf(r)
                BY <1>1, <1>3, <4>2, <4>3 DEF Hits
            <4>5. IdOf(cache[j]) \in Id
                BY <4>3, Naming
            <4> QED
                BY <1>11, <1>13, <4>2, <4>3, <4>4, <4>5 DEF CacheInv
        <3> QED
            BY <1>16, <3>1, <3>2
    <2>3. ASSUME NEW i \in Id, verdict'[i] # None PROVE Le(i, IdOf(r))
        <3>1. CASE i = IdOf(r)
            BY <1>10, <3>1, LeFacts
        <3>2. CASE i # IdOf(r)
            <4>1. cache # <<>> /\ Le(i, Newest) /\ i \in Pairs
                BY <1>11, <2>3, <3>2, Naming DEF CacheInv
            <4> QED
                BY <1>10, <1>12, <4>1, LeFacts
        <3> QED
            BY <3>1, <3>2
    <2>4. \A g \in Grounds : Le(IdOf(r), Top(g)')
        BY <1>2, <1>12 DEF Sent, Top
    <2>5. \A s \in Requests : \A i \in 1 .. Len(inbox') : inbox'[i] = s => Le(IdOf(r), IdOf(s))
        <3>1. \A i \in 1 .. Len(inbox') : 1 <= i + 1
            OBVIOUS
        <3> QED
            BY <1>14, <3>1 DEF FlightInv
    <2>6. \A s \in Requests : \A i \in 1 .. Len(up') : up'[i] = s => Le(IdOf(r), IdOf(s))
        BY <1>2, <1>14 DEF FlightInv
    <2> QED
        BY <1>16, <2>1, <2>2, <2>3, <2>4, <2>5, <2>6 DEF CacheInv
<1>21. QueueInv'
    <2>1. \A k \in 1 .. Len(queue) : IdOf(queue[k]) \in Id /\ IdOf(queue[k]) # IdOf(r)
        <3>1. ASSUME NEW k \in 1 .. Len(queue) PROVE queue[k] \in Requests
            BY DEF TypeOK
        <3>2. \A k \in 1 .. Len(queue) : verdict[IdOf(queue[k])] = "accepted"
            BY DEF QueueInv
        <3> QED
            BY <1>10, <3>1, <3>2, Naming DEF None
    <2>2. taken[IdOf(r)] = 0
        BY <1>10 DEF QueueInv
    <2>3. ASSUME NEW k \in 1 .. Len(queue')
          PROVE  verdict'[IdOf(queue'[k])] = "accepted" /\ taken'[IdOf(queue'[k])] = 0
        BY <1>2, <1>11, <1>17, <2>1, <2>2 DEF QueueInv
    <2>4. ASSUME NEW k \in 1 .. Len(queue'), NEW l \in 1 .. Len(queue'), k # l
          PROVE  IdOf(queue'[k]) # IdOf(queue'[l])
        BY <1>17, <2>1, <2>4 DEF QueueInv
    <2>5. \A i \in Id : taken'[i] # 0 => verdict'[i] # None
        BY <1>2, <1>6, <1>11 DEF QueueInv
    <2> QED
        BY <2>3, <2>4, <2>5 DEF QueueInv
<1>22. ToldInv'
    BY <1>2, <1>6, <1>11 DEF ToldInv
<1>23. StopInv'
    <2>1. ASSUME NEW g \in Grounds, ground[g].waits.cmd = "stop",
                 verdict'[IdOf(ground[g].waits)] # None
          PROVE  stop'
        <3>1. ground[g].waits # NoRequest
            BY <2>1 DEF NoRequest, None
        <3>2. ground[g].waits \in Requests
            BY <3>1 DEF TypeOK
        <3>3. IdOf(ground[g].waits) \in Id
            BY <3>2, Naming
        <3>4. CASE IdOf(ground[g].waits) = IdOf(r)
            BY <1>12, <1>13, <2>1, <3>1, <3>4 DEF Sent
        <3>5. CASE IdOf(ground[g].waits) # IdOf(r)
            BY <1>11, <1>13, <2>1, <3>3, <3>5 DEF StopInv
        <3> QED
            BY <3>4, <3>5
    <2> QED
        BY <1>2, <2>1 DEF StopInv
<1>24. GroundInv'
    BY <1>2 DEF GroundInv, Top
<1> QED
    BY <1>14, <1>18, <1>19, <1>20, <1>21, <1>22, <1>23, <1>24

LEMMA WorkerAcceptStep == ASSUME IInv, WorkerAccept PROVE IInv'
<1> USE DEF IInv
<1>1. /\ UNCHANGED <<ground, sessions, up, down, readonly, inbox, current, cache, queue,
                     doing, stop, verdict, told, taken>>
    BY DEF WorkerAccept, outside, ether, memory, ledger
<1>2. /\ worker.at = "accept" /\ worker.req \in Requests /\ worker' = [worker EXCEPT !.at = "reply"]
      /\ status' = [seq |-> worker.req.seq, code |-> "accepted"]
    BY DEF WorkerAccept, WorkerInv
<1>3. worker' \in [at : {"idle", "accept", "reply"},
                   req : Requests \cup {NoRequest}, verdict : Verdicts \cup {None}]
      /\ worker'.req = worker.req /\ worker'.verdict = worker.verdict
    BY <1>2 DEF TypeOK
<1>4. status' \in [seq : 0 .. MaxSeq, code : {"idle", "accepted", "done", "failed"}]
    <2>1. worker.req.seq \in 0 .. MaxSeq
        BY <1>2, ConstantsAssumption DEF Requests
    <2> QED
        BY <1>2, <2>1
<1>5. TypeOK' /\ WorkerInv'
    BY <1>1, <1>2, <1>3, <1>4 DEF TypeOK, WorkerInv
<1>6. FlightInv' /\ GroundInv'
    BY <1>1 DEF FlightInv, GroundInv, Sent, Top
<1>7. CacheInv' /\ QueueInv' /\ ToldInv' /\ StopInv'
    BY <1>1 DEF CacheInv, QueueInv, ToldInv, StopInv, Newest, Top
<1> QED
    BY <1>5, <1>6, <1>7

LEMMA WorkerWriteStep == ASSUME IInv, WorkerWrite PROVE IInv'
<1> USE DEF IInv
<1>1. /\ UNCHANGED <<ground, sessions, up, readonly, inbox, current, cache, queue, status,
                     doing, stop, verdict, taken>>
    BY DEF WorkerWrite, memory
<1>2. worker.at = "reply" /\ worker.req \in Requests /\ worker' = Idle
    BY DEF WorkerWrite, WorkerInv
<1>3. worker.verdict \in Verdicts /\ worker.verdict = verdict[IdOf(worker.req)]
    BY <1>2 DEF WorkerInv, TypeOK
<1>4. IdOf(worker.req) \in Id
    BY <1>2, Naming
<1>5. /\ down' \in Seq(Responses) /\ Len(down') <= MaxWire
      /\ told' \in [Id -> SUBSET Verdicts]
      /\ \A i \in Id : i # IdOf(worker.req) => told'[i] = told[i]
    <2>1. CASE /\ Len(down) < MaxWire
               /\ down' = Append(down, Response(worker.req, worker.verdict))
               /\ told' = [told EXCEPT ![IdOf(worker.req)] = @ \cup {worker.verdict}]
        <3>1. Response(worker.req, worker.verdict) \in Responses
            BY <1>2, <1>3 DEF Requests, Responses, Response
        <3>2. PICK m \in Responses : m = Response(worker.req, worker.verdict)
            BY <3>1
        <3>3. down \in Seq(Responses) /\ Len(down) \in Nat /\ MaxWire \in Nat
            BY ConstantsAssumption DEF TypeOK
        <3>4. down' \in Seq(Responses) /\ Len(down') = Len(down) + 1
            BY <2>1, <3>2, <3>3, AppendFacts
        <3>5. told' \in [Id -> SUBSET Verdicts]
              /\ \A i \in Id : i # IdOf(worker.req) => told'[i] = told[i]
            BY <1>3, <1>4, <2>1 DEF TypeOK
        <3> QED
            BY <2>1, <3>3, <3>4, <3>5
    <2>2. CASE UNCHANGED <<down, told>>
        BY <2>2 DEF TypeOK
    <2> QED
        BY <2>1, <2>2 DEF WorkerWrite
<1>6. TypeOK' /\ WorkerInv'
    BY <1>1, <1>2, <1>5 DEF TypeOK, WorkerInv, Idle
<1>7. ToldInv'
    BY <1>1, <1>2, <1>4, <1>5 DEF ToldInv, WorkerInv
<1>8. FlightInv' /\ GroundInv'
    BY <1>1 DEF FlightInv, GroundInv, Sent, Top
<1>9. CacheInv' /\ QueueInv' /\ StopInv'
    BY <1>1 DEF CacheInv, QueueInv, StopInv, Newest, Top
<1> QED
    BY <1>6, <1>7, <1>8, <1>9


-----------------------------------------------------------------------------
\* The mission.
LEMMA ReceiveStep == ASSUME IInv, Receive PROVE IInv'
<1> USE DEF IInv
<1>1. /\ UNCHANGED <<ground, sessions, up, down, readonly, inbox, current, cache, worker,
                     status, stop, verdict, told>>
    BY DEF Receive, outside, ether, memory
<1>2. PICK k \in 1 .. Len(queue) :
         /\ doing' = queue[k]
         /\ queue' = RemoveAt(queue, k)
         /\ taken' = [taken EXCEPT ![IdOf(queue[k])] = @ + 1]
    BY DEF Receive
<1>3. PICK r \in Requests : r = queue[k]
    BY DEF TypeOK
<1>4. IdOf(r) \in Id
    BY Naming
<1>5. /\ queue' \in Seq(Requests) /\ Len(queue') = Len(queue) - 1
      /\ \A i \in 1 .. Len(queue) - 1 :
            /\ i \in 1 .. Len(queue) /\ i + 1 \in 1 .. Len(queue)
            /\ queue'[i] = IF i < k THEN queue[i] ELSE queue[i + 1]
    <2>1. queue \in Seq(Requests)
        BY DEF TypeOK
    <2> QED
        BY <1>2, <2>1, RemoveFacts
\* Where an element of the shorter queue was.
<1> DEFINE at(i) == IF i < k THEN i ELSE i + 1
<1>6. \A i \in 1 .. Len(queue') :
         at(i) \in 1 .. Len(queue) /\ at(i) # k /\ queue'[i] = queue[at(i)]
    BY <1>5
<1>7. \A i, j \in 1 .. Len(queue') : i # j => at(i) # at(j)
    BY <1>5
<1> HIDE DEF at
<1>8. /\ taken' \in [Id -> Nat] /\ \A i \in Id : i # IdOf(r) => taken'[i] = taken[i]
    BY <1>2, <1>3, <1>4 DEF TypeOK
<1>9. TypeOK'
    <2>1. Len(queue') <= QueueSize
        <3>1. Len(queue) <= QueueSize /\ Len(queue) \in Nat
            BY DEF TypeOK
        <3> QED
            BY <1>5, <3>1, ConstantsAssumption
    <2> QED
        BY <1>1, <1>2, <1>3, <1>5, <1>8, <2>1 DEF TypeOK
<1>10. QueueInv'
    <2>1. ASSUME NEW i \in 1 .. Len(queue')
          PROVE  /\ queue'[i] = queue[at(i)] /\ at(i) \in 1 .. Len(queue)
                 /\ IdOf(queue'[i]) \in Id /\ IdOf(queue'[i]) # IdOf(r)
        <3>1. queue'[i] \in Requests
            BY <1>5
        <3>2. IdOf(queue'[i]) \in Id
            BY <3>1, Naming
        <3> QED
            BY <1>3, <1>6, <3>2 DEF QueueInv
    <2>2. ASSUME NEW i \in 1 .. Len(queue')
          PROVE  verdict'[IdOf(queue'[i])] = "accepted" /\ taken'[IdOf(queue'[i])] = 0
        BY <1>1, <1>8, <2>1 DEF QueueInv
    <2>3. ASSUME NEW i \in 1 .. Len(queue'), NEW j \in 1 .. Len(queue'), i # j
          PROVE  IdOf(queue'[i]) # IdOf(queue'[j])
        BY <1>7, <2>1, <2>3 DEF QueueInv
    <2>4. verdict[IdOf(r)] # None
        BY <1>3 DEF QueueInv, None
    <2>5. \A i \in Id : taken'[i] # 0 => verdict'[i] # None
        BY <1>1, <1>8, <2>4 DEF QueueInv
    <2> QED
        BY <2>2, <2>3, <2>5 DEF QueueInv
<1>11. FlightInv' /\ GroundInv'
    BY <1>1 DEF FlightInv, GroundInv, Sent, Top
<1>12. CacheInv' /\ WorkerInv' /\ ToldInv' /\ StopInv'
    BY <1>1 DEF CacheInv, WorkerInv, ToldInv, StopInv, Newest, Top
<1> QED
    BY <1>9, <1>10, <1>11, <1>12

LEMMA FinishStep == ASSUME IInv, NEW code \in {"done", "failed"}, Finish(code) PROVE IInv'
<1> USE DEF IInv
<1>1. /\ UNCHANGED <<ground, sessions, up, down, readonly, inbox, current, cache, worker,
                     queue, stop, verdict, told, taken>>
    BY DEF Finish, outside, ether, memory, ledger
<1>2. TypeOK'
    <2>1. doing \in Requests
        BY DEF Finish, TypeOK
    <2>2. doing.seq \in 0 .. MaxSeq
        BY <2>1, ConstantsAssumption DEF Requests
    <2>3. status' \in [seq : 0 .. MaxSeq, code : {"idle", "accepted", "done", "failed"}]
        BY <2>2 DEF Finish
    <2> QED
        BY <1>1, <2>3 DEF TypeOK, Finish
<1>3. FlightInv' /\ GroundInv'
    BY <1>1 DEF FlightInv, GroundInv, Sent, Top
<1>4. CacheInv' /\ WorkerInv' /\ QueueInv' /\ ToldInv' /\ StopInv'
    BY <1>1 DEF CacheInv, WorkerInv, QueueInv, ToldInv, StopInv, Newest, Top
<1> QED
    BY <1>2, <1>3, <1>4

-----------------------------------------------------------------------------
(* The inductive invariant: requests travel in the order of their names, the *)
(* cache ends with the latest that was judged, the queue holds what was      *)
(* accepted and not yet taken.                                               *)
THEOREM Invariance == Spec => []IInv
<1>1. Init => IInv
    BY InitInv
<1>2. IInv /\ [Next]_vars => IInv'
    <2> SUFFICES ASSUME IInv, [Next]_vars PROVE IInv'
        OBVIOUS
    <2>1. ASSUME NEW g \in Grounds,
                 GroundStart(g) \/ (\E c \in Commands : GroundSend(g, c))
                 \/ GroundRetry(g) \/ GroundGiveUp(g)
          PROVE  IInv'
        BY <2>1, GroundStartStep, GroundSendStep, GroundRetryStep, GroundGiveUpStep
    <2>2. ASSUME GroundHear \/ Overhear \/ Lose \/ FeedBytes PROVE IInv'
        BY <2>2, GroundHearStep, OverhearStep, LoseStep, FeedBytesStep
    <2>3. CASE Worker
        BY <2>3, IgnoreStrangerStep, HandleRepeatedStep, HandleNewStep, WorkerAcceptStep,
           WorkerWriteStep DEF Worker
    <2>4. CASE Mission
        BY <2>4, ReceiveStep, FinishStep DEF Mission
    <2>5. CASE UNCHANGED vars
        <3>1. UNCHANGED <<ground, sessions, up, down, readonly, inbox, current, cache, worker,
                          queue, status, doing, stop, verdict, told, taken>>
            BY <2>5 DEF vars, ether, memory, ledger
        <3>2. TypeOK' = TypeOK
            BY <3>1 DEF TypeOK
        <3>3. FlightInv' /\ GroundInv'
            BY <3>1 DEF IInv, FlightInv, GroundInv, Sent, Top
        <3>4. CacheInv' /\ WorkerInv' /\ QueueInv' /\ ToldInv' /\ StopInv'
            BY <3>1 DEF IInv, CacheInv, WorkerInv, QueueInv, ToldInv, StopInv, Newest, Top
        <3> QED
            BY <3>2, <3>3, <3>4 DEF IInv
    <2> QED
        BY <2>1, <2>2, <2>3, <2>4, <2>5 DEF Next
<1> QED
    BY <1>1, <1>2, PTL DEF Spec

(* The variables of the endpoint keep their types and their bounds.          *)
THEOREM TypeCorrect == Spec => []TypeOK
<1>1. IInv => TypeOK
    BY DEF IInv
<1> QED
    BY <1>1, Invariance, PTL

(* A STOP that was answered has set the stop event, whatever the answer.     *)
THEOREM StopEffective == Spec => []StopTakesEffect
<1>1. IInv => StopTakesEffect
    <2> SUFFICES ASSUME IInv, NEW g \in Grounds, ground[g].waits.cmd = "stop",
                        told[IdOf(ground[g].waits)] # {}
                 PROVE  stop
        BY DEF StopTakesEffect
    <2>1. ground[g].waits \in Requests
        BY DEF IInv, TypeOK, NoRequest, None
    <2>2. IdOf(ground[g].waits) \in Id
        BY <2>1, Naming
    <2> QED
        BY <2>2 DEF IInv, ToldInv, StopInv
<1> QED
    BY <1>1, Invariance, PTL

-----------------------------------------------------------------------------
\* The order in which commands are taken.

\* The queue holds the accepted requests as the ground sent them.
TurnInv ==
    /\ \A j, k \in 1 .. Len(queue) : j < k => Before(IdOf(queue[j]), IdOf(queue[k]))
    /\ doing # NoRequest => verdict[IdOf(doing)] # None
    /\ InTurn

LEMMA BeforeFacts == \A i, j \in Pairs : Le(i, j) /\ i # j => Before(i, j)
BY DEF Le, Before, Pairs

\* A request the worker judges was sent after all it has judged.
LEMMA NewIsLatest ==
    ASSUME IInv, inbox # <<>>, Controls(Head(inbox)),
           Hits(CacheFor(Head(inbox)), Head(inbox)) = {},
           NEW i \in Id, verdict[i] # None
    PROVE  Before(i, IdOf(Head(inbox)))
<1>1. PICK r \in Requests : r = Head(inbox)
    BY HeadNamed
<1>2. IdOf(r) \in Pairs /\ i \in Pairs
    BY Naming
<1>3. cache # <<>> /\ Le(i, Newest)
    BY DEF IInv, CacheInv
<1>4. Newest \in Pairs /\ Le(Newest, IdOf(r))
    BY <1>1, <1>3, HeadNamed, NewestNamed
<1>5. Le(i, IdOf(r))
    BY <1>2, <1>3, <1>4, LeFacts
<1>6. i # IdOf(r)
    BY <1>1, MissIsNew
<1> QED
    BY <1>1, <1>2, <1>5, <1>6, BeforeFacts

LEMMA TurnHandleNew == ASSUME IInv, TurnInv, HandleNew PROVE TurnInv'
<1>1. /\ inbox # <<>> /\ Controls(Head(inbox))
      /\ Hits(CacheFor(Head(inbox)), Head(inbox)) = {} /\ doing' = doing
    BY DEF HandleNew
<1>2. PICK r \in Requests : r = Head(inbox)
    BY <1>1, HeadNamed
<1>3. PICK v \in Verdicts :
         /\ v # None
         /\ queue' = IF v = "accepted" THEN Append(queue, r) ELSE queue
         /\ verdict' = [verdict EXCEPT ![IdOf(r)] = v]
    BY <1>2, JudgementType DEF HandleNew
<1>4. queue \in Seq(Requests) /\ verdict \in [Id -> Verdicts \cup {None}]
    BY DEF IInv, TypeOK
<1>5. IdOf(r) \in Id /\ \A i \in Id : verdict[i] # None => Before(i, IdOf(r))
    BY <1>1, <1>2, Naming, NewIsLatest
<1>6. \A k \in 1 .. Len(queue) : Before(IdOf(queue[k]), IdOf(r))
    <2> TAKE k \in 1 .. Len(queue)
    <2>1. queue[k] \in Requests /\ verdict[IdOf(queue[k])] # None
        BY <1>4 DEF IInv, QueueInv, None
    <2> QED
        BY <1>5, <2>1, Naming
<1>7. \A k \in 1 .. Len(queue') :
         \/ k \in 1 .. Len(queue) /\ queue'[k] = queue[k]
         \/ k = Len(queue) + 1 /\ queue'[k] = r
    BY <1>3, <1>4, AppendFacts
<1>8. doing # NoRequest => IdOf(doing) \in Id /\ Before(IdOf(doing), IdOf(r))
    <2>1. doing \in Requests \cup {NoRequest}
        BY DEF IInv, TypeOK
    <2> QED
        BY <1>5, <2>1, Naming DEF TurnInv
<1>9. \A j, k \in 1 .. Len(queue') : j < k => Before(IdOf(queue'[j]), IdOf(queue'[k]))
    BY <1>4, <1>6, <1>7 DEF TurnInv
<1>10. doing' # NoRequest => verdict'[IdOf(doing')] # None
    BY <1>1, <1>3, <1>4, <1>8 DEF TurnInv
<1>11. InTurn'
    BY <1>1, <1>7, <1>8 DEF TurnInv, InTurn
<1> QED
    BY <1>9, <1>10, <1>11 DEF TurnInv

LEMMA TurnReceive == ASSUME IInv, TurnInv, Receive PROVE TurnInv'
<1>1. PICK k \in 1 .. Len(queue) :
         /\ NextUp(k) /\ doing' = queue[k] /\ queue' = RemoveAt(queue, k)
         /\ verdict' = verdict
    BY DEF Receive
<1>2. queue \in Seq(Requests)
    BY DEF IInv, TypeOK
<1>3. /\ Len(queue') = Len(queue) - 1
      /\ \A i \in 1 .. Len(queue) - 1 :
            /\ i \in 1 .. Len(queue) /\ i + 1 \in 1 .. Len(queue)
            /\ queue'[i] = IF i < k THEN queue[i] ELSE queue[i + 1]
    BY <1>1, <1>2, RemoveFacts
<1> DEFINE at(i) == IF i < k THEN i ELSE i + 1
<1>4. \A i \in 1 .. Len(queue') :
         at(i) \in 1 .. Len(queue) /\ at(i) # k /\ queue'[i] = queue[at(i)]
    BY <1>3
<1>5. \A i, j \in 1 .. Len(queue') : i < j => at(i) < at(j)
    BY <1>3
<1>6. \A i \in 1 .. Len(queue') : at(i) > k \/ at(i) \in 1 .. k - 1
    BY <1>4
<1> HIDE DEF at
<1>7. \A i, j \in 1 .. Len(queue') : i < j => Before(IdOf(queue'[i]), IdOf(queue'[j]))
    BY <1>4, <1>5 DEF TurnInv
<1>8. verdict'[IdOf(doing')] # None
    BY <1>1 DEF IInv, QueueInv, None
<1>9. ASSUME NEW i \in 1 .. Len(queue')
      PROVE  \/ Before(IdOf(doing'), IdOf(queue'[i]))
             \/ doing'.cmd = "stop" /\ queue'[i].cmd # "stop"
    <2>1. CASE at(i) > k
        BY <1>1, <1>4, <2>1 DEF TurnInv
    <2>2. CASE at(i) \in 1 .. k - 1
        <3>1. queue'[i].cmd # "stop" /\ k # 1
            BY <1>1, <1>4, <2>2 DEF NextUp
        <3> QED
            BY <1>1, <3>1 DEF NextUp
    <2> QED
        BY <1>6, <2>1, <2>2
<1> QED
    BY <1>7, <1>8, <1>9 DEF TurnInv, InTurn

(* Commands of one priority are taken in the order the ground sent them, and *)
(* only a STOP overtakes: each request the worker judges is later than all   *)
(* it has judged (the cache ends with the latest of those), so the queue is  *)
(* in the order of the names, and taking from it keeps the rest later.       *)
THEOREM TakenInTurn == Spec => []InTurn
<1>1. Init => TurnInv
    BY DEF Init, TurnInv, InTurn
<1>2. IInv /\ TurnInv /\ [Next]_vars => TurnInv'
    <2> SUFFICES ASSUME IInv, TurnInv, [Next]_vars PROVE TurnInv'
        OBVIOUS
    <2>1. CASE HandleNew
        BY <2>1, TurnHandleNew
    <2>2. CASE Receive
        BY <2>2, TurnReceive
    <2>3. CASE \E code \in {"done", "failed"} : Finish(code)
        <3>1. queue' = queue /\ doing' = NoRequest
            BY <2>3 DEF Finish
        <3> QED
            BY <3>1 DEF TurnInv, InTurn
    <2>4. CASE UNCHANGED <<queue, doing, verdict>>
        BY <2>4 DEF TurnInv, InTurn
    <2> QED
        BY <2>1, <2>2, <2>3, <2>4
           DEF Next, GroundStart, GroundSend, GroundRetry, GroundGiveUp, GroundHear,
               Overhear, Lose, FeedBytes, Worker, IgnoreStranger, HandleRepeated,
               WorkerAccept, WorkerWrite, Mission, air, outside, memory, ledger, vars
<1> QED
    BY <1>1, <1>2, Invariance, PTL DEF Spec, TurnInv

-----------------------------------------------------------------------------
(* The endpoint implements the ledger of CommandLedger: a request and its    *)
(* repetitions have one verdict, replies carry no other, and the mission     *)
(* takes an accepted command once at most.                                   *)
THEOREM Implements == Spec => ImplementsLedger
<1>1. Init => Ledger!LInit
    BY DEF Init, Ledger!LInit
<1>2. IInv /\ [Next]_vars => [Ledger!LNext]_<<verdict, told, taken>>
    <2> SUFFICES ASSUME IInv, [Next]_vars
                 PROVE  Ledger!LNext \/ UNCHANGED <<verdict, told, taken>>
        OBVIOUS
    <2>1. CASE HandleNew
        <3>1. PICK r \in Requests : r = Head(inbox)
            BY <2>1, HeadNamed DEF HandleNew
        <3>2. PICK posed \in BOOLEAN :
                 verdict' = [verdict EXCEPT ![IdOf(r)] = Judgement(r, posed)]
            BY <2>1, <3>1 DEF HandleNew
        <3>3. IdOf(r) \in Id /\ verdict[IdOf(r)] = None
            BY <2>1, <3>1, Naming, MissIsNew DEF HandleNew
        <3>4. Ledger!Judge(IdOf(r), Judgement(r, posed))
            BY <2>1, <3>2, <3>3 DEF HandleNew, Ledger!Judge
        <3> QED
            BY <3>3, <3>4, JudgementType DEF Ledger!LNext
    <2>2. CASE WorkerWrite
        <3>1. /\ IdOf(worker.req) \in Id /\ verdict[IdOf(worker.req)] # None
              /\ worker.verdict = verdict[IdOf(worker.req)]
            BY <2>2, Naming DEF WorkerWrite, IInv, WorkerInv
        <3>2. CASE told' = [told EXCEPT ![IdOf(worker.req)] = @ \cup {worker.verdict}]
            <4>1. Ledger!Tell(IdOf(worker.req))
                BY <2>2, <3>1, <3>2 DEF WorkerWrite, Ledger!Tell
            <4> QED
                BY <3>1, <4>1 DEF Ledger!LNext
        <3>3. CASE UNCHANGED told
            BY <2>2, <3>3 DEF WorkerWrite
        <3> QED
            BY <2>2, <3>2, <3>3 DEF WorkerWrite
    <2>3. CASE Receive
        <3>1. PICK k \in 1 .. Len(queue) :
                 taken' = [taken EXCEPT ![IdOf(queue[k])] = @ + 1]
            BY <2>3 DEF Receive
        <3>2. queue[k] \in Requests
            BY DEF IInv, TypeOK
        <3>3. /\ IdOf(queue[k]) \in Id /\ verdict[IdOf(queue[k])] = "accepted"
              /\ taken[IdOf(queue[k])] = 0
            BY <3>2, Naming DEF IInv, QueueInv
        <3>4. taken' = [taken EXCEPT ![IdOf(queue[k])] = 1]
            BY <3>1, <3>3 DEF IInv, TypeOK
        <3>5. Ledger!Take(IdOf(queue[k]))
            BY <2>3, <3>3, <3>4 DEF Receive, Ledger!Take
        <3> QED
            BY <3>3, <3>5 DEF Ledger!LNext
    <2>4. CASE UNCHANGED ledger
        BY <2>4 DEF ledger
    <2> QED
        BY <2>1, <2>2, <2>3, <2>4
           DEF Next, GroundStart, GroundSend, GroundRetry, GroundGiveUp, GroundHear,
               Overhear, Lose, FeedBytes, Worker, IgnoreStranger, HandleRepeated,
               WorkerAccept, Mission, Finish, air, vars
<1> QED
    BY <1>1, <1>2, Invariance, PTL DEF Spec, ImplementsLedger, Ledger!LSpec
===============================================================================

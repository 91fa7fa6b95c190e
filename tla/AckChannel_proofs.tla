-------------------------- MODULE AckChannel_proofs ---------------------------
(***************************************************************************)
(* Theorems about AckChannel, for any threads, frames, keys, numbers of    *)
(* attempts and slots.                                                     *)
(***************************************************************************)
EXTENDS AckChannel, TLAPS

\* The success of this call has a reason.
Vouched(t) == thread[t].due \/ thread[t].shared

CheckInv ==
    /\ check.at = "store" => check.count \in 1 .. Len(stack)
    /\ check.at = "read" => check.count # 0 /\ check.key # None

CallInv ==
    \A t \in Threads :
      LET c == thread[t]
      IN /\ c.event # None <=> c.at \in {"wait", "pop"}
         /\ c.at = "idle" => c.frame = None
         /\ c.at # "idle" => c.result = "none"
         /\ c.at \notin {"idle", "again"} => c.left # 0
         /\ c.answered => Vouched(t)

\* An event stands under one key, and who waits for it has that key.
ApartInv ==
    /\ \A k, l \in Keys : dict[k] = dict[l] /\ dict[k] # None => k = l
    /\ \A t \in Threads, k \in Keys :
         thread[t].event = dict[k] /\ dict[k] # None => Key[thread[t].frame] = k

\* What may set the event of a call vouches for it.
AckedInv ==
    \A t \in Threads :
      /\ \A i \in 1 .. Len(stack) : Calling(t, stack[i]) => Vouched(t)
      /\ check.key # None /\ Calling(t, check.key) => Vouched(t)
      /\ \A k \in downlink : Calling(t, k) => Vouched(t)
UplinkInv ==
    \A t \in Threads : \A i \in 1 .. Len(uplink) :
      Calling(t, Key[uplink[i]]) => uplink[i] = thread[t].frame \/ Vouched(t)
FiredInv ==
    \A t \in Threads :
      thread[t].at # "idle" /\ (thread[t].event \in fired
                                \/ dict[Key[thread[t].frame]] \in fired) => Vouched(t)

\* Two calls of one key know of each other, and only then is an entry gone early.
SharedInv ==
    /\ \A t, u \in Threads :
         t # u /\ thread[u].at # "idle" /\ Calling(t, Key[thread[u].frame]) => thread[t].shared
    /\ \A t \in Threads :
         thread[t].at \notin {"idle", "again"} /\ dict[Key[thread[t].frame]] = None =>
           thread[t].shared

IInv ==
    /\ TypeOK /\ CheckInv /\ CallInv /\ ApartInv /\ AckedInv /\ UplinkInv /\ FiredInv
    /\ SharedInv /\ AckMeansHeard /\ KeyErrorIsShared /\ EntryHasCaller

-----------------------------------------------------------------------------
\* What the types say, apart from the large sets.
LEMMA Typing ==
  ASSUME IInv
  PROVE  /\ None \notin fired /\ None \notin Keys /\ None \notin Events
         /\ \A t \in Threads : thread[t].at # "idle" =>
              thread[t].frame \in Frames /\ Key[thread[t].frame] \in Keys
         /\ \A t \in Threads :
              /\ thread[t] \in Calls
              /\ thread[t].due \in BOOLEAN /\ thread[t].shared \in BOOLEAN
BY ConstantsAssumption DEF IInv, TypeOK, Calls

LEMMA TailFacts ==
  ASSUME NEW S, NEW q \in Seq(S), q # <<>>, NEW n \in Nat, Len(q) <= n
  PROVE  /\ Head(q) \in S /\ 1 \in 1 .. Len(q) /\ q[1] = Head(q)
         /\ Tail(q) \in Seq(S) /\ Len(Tail(q)) = Len(q) - 1 /\ Len(Tail(q)) <= n
         /\ \A i \in 1 .. Len(Tail(q)) : i + 1 \in 1 .. Len(q) /\ Tail(q)[i] = q[i + 1]
OBVIOUS

LEMMA NoCallTyped == NoCall \in Calls
BY ConstantsAssumption DEF NoCall, Calls

\* A call that returns.
LEMMA Returning ==
  ASSUME IInv, NEW t \in Threads, NEW r \in {"none", "ok", "keyerror"}, Return(t, r)
  PROVE  /\ thread' \in [Threads -> Calls]
         /\ \A u \in Threads \ {t} : thread'[u] = thread[u]
         /\ thread'[t].at = "idle" /\ thread'[t].event = None /\ thread'[t].frame = None
         /\ ~thread'[t].answered /\ thread'[t].result = r
         /\ thread'[t].due = thread[t].due /\ thread'[t].shared = thread[t].shared
<1> DEFINE c == [NoCall EXCEPT !.result = r, !.due = thread[t].due,
                               !.shared = thread[t].shared]
<1>1. /\ c \in Calls
      /\ c.at = "idle" /\ c.event = None /\ c.frame = None /\ ~c.answered
      /\ c.result = r /\ c.due = thread[t].due /\ c.shared = thread[t].shared
  <2>1. thread[t].due \in BOOLEAN /\ thread[t].shared \in BOOLEAN
    BY Typing
  <2>2. c \in Calls
    BY NoCallTyped, <2>1 DEF Calls
  <2>3. /\ c.at = "idle" /\ c.event = None /\ c.frame = None /\ ~c.answered
        /\ c.result = r
    BY DEF NoCall
  <2>4. c.due = thread[t].due
    BY DEF NoCall
  <2>5. c.shared = thread[t].shared
    BY DEF NoCall
  <2>6. QED
    BY <2>2, <2>3, <2>4, <2>5
<1> HIDE DEF c
<1>2. thread' = [thread EXCEPT ![t] = c] /\ thread \in [Threads -> Calls]
  BY DEF Return, IInv, TypeOK, c
<1>3. QED
  BY <1>1, <1>2

LEMMA PopStep ==
  ASSUME IInv, NEW t \in Threads, Pop(t)
  PROVE  IInv'
<1> USE ConstantsAssumption DEF IInv, vars, caller, fc
<1> DEFINE key == Key[thread[t].frame]
<1>1. /\ thread[t].at = "pop" /\ thread[t].frame \in Frames
      /\ key = Key[thread[t].frame] /\ key \in Keys
      /\ UNCHANGED <<uplink, stack, check, downlink>>
      /\ raised' = raised \ {key}
      /\ fired' \subseteq fired
  BY DEF Pop, Keep, TypeOK
<1>2. dict' = [dict EXCEPT ![key] = None]
  BY DEF Pop
<1>3. /\ thread' \in [Threads -> Calls]
      /\ \A u \in Threads \ {t} : thread'[u] = thread[u]
      /\ thread'[t].at \in {"idle", "again"}
      /\ thread'[t].event = None
      /\ ~thread'[t].answered
      /\ thread'[t].due = thread[t].due /\ thread'[t].shared = thread[t].shared
      /\ thread'[t].frame = IF thread'[t].at = "idle" THEN None ELSE thread[t].frame
      /\ thread'[t].at = "again" => thread'[t].result = "none"
      /\ thread'[t].result = "ok" => thread[t].answered
      /\ thread'[t].result = "keyerror" => dict[key] = None
  <2>1. CASE dict[key] = None
    <3>1. Return(t, "keyerror")
      BY <2>1 DEF Pop
    <3>2. QED
      BY <2>1, <3>1, Returning
  <2>2. CASE dict[key] # None /\ thread[t].answered
    <3>1. Return(t, "ok")
      BY <2>2 DEF Pop
    <3>2. QED
      BY <2>2, <3>1, Returning
  <2>3. CASE dict[key] # None /\ ~thread[t].answered
    BY <2>3 DEF Pop, TypeOK, Calls, CallInv
  <2>4. QED
    BY <2>1, <2>2, <2>3
<1> HIDE DEF key
<1>4. \A k \in Keys : dict'[k] = IF k = key THEN None ELSE dict[k]
  BY <1>1, <1>2 DEF TypeOK
<1> USE <1>1, <1>3, <1>4, Typing
<1>5. TypeOK'
  BY <1>2 DEF TypeOK
<1>6. CheckInv'
  BY DEF CallInv, CheckInv, Vouched, Calling
<1>7. CallInv'
  BY DEF CallInv, Vouched, Calling
<1>8. ApartInv'
  BY DEF CallInv, ApartInv, Vouched, Calling
<1>9. AckedInv'
  BY DEF CallInv, AckedInv, Vouched, Calling
<1>10. UplinkInv'
  BY DEF CallInv, UplinkInv, Vouched, Calling
<1>11. FiredInv'
  BY DEF CallInv, FiredInv, Vouched, Calling
<1>12. SharedInv'
  BY DEF CallInv, SharedInv, Vouched, Calling
<1>13. AckMeansHeard'
  BY DEF CallInv, AckMeansHeard, Vouched, Calling
<1>14. KeyErrorIsShared'
  BY DEF SharedInv, KeyErrorIsShared
<1>15. EntryHasCaller'
  BY DEF CallInv, EntryHasCaller, Vouched, Calling
<1>16. QED
  BY <1>5, <1>6, <1>7, <1>8, <1>9, <1>10, <1>11, <1>12, <1>13, <1>14, <1>15 DEF IInv

LEMMA WriteStep ==
  ASSUME IInv, NEW t \in Threads, Write(t)
  PROVE  IInv'
<1> USE ConstantsAssumption DEF IInv, vars, caller, fc
<1>1. /\ thread[t].at = "send" /\ thread[t].frame \in Frames
      /\ UNCHANGED <<dict, raised, fired, stack, check, downlink>>
  BY DEF Write, TypeOK
<1>2. /\ uplink' \in Seq(Frames) /\ Len(uplink') <= MaxWire
      /\ Len(uplink') = Len(uplink) + 1
      /\ \A i \in 1 .. Len(uplink') :
           uplink'[i] = IF i <= Len(uplink) THEN uplink[i] ELSE thread[t].frame
  <2>1. uplink \in Seq(Frames) /\ Len(uplink) < MaxWire /\ MaxWire \in Nat
        /\ uplink' = Append(uplink, thread[t].frame)
    BY DEF Write, TypeOK
  <2>2. QED
    BY <1>1, <2>1
<1>3. /\ thread'[t].at = "look"
      /\ thread' \in [Threads -> Calls]
      /\ \A u \in Threads \ {t} : thread'[u] = thread[u]
      /\ thread'[t].frame = thread[t].frame
      /\ thread'[t].left = thread[t].left
      /\ thread'[t].event = thread[t].event
      /\ thread'[t].result = thread[t].result
      /\ thread'[t].answered = thread[t].answered
      /\ thread'[t].due = thread[t].due
      /\ thread'[t].shared = thread[t].shared
  <2> DEFINE c == [thread[t] EXCEPT !.at = "look"]
  <2>1. thread[t] \in Calls /\ thread \in [Threads -> Calls]
    BY DEF TypeOK
  <2>2. c \in Calls
    BY <2>1 DEF Calls
  <2>3. thread' = [thread EXCEPT ![t] = c]
    BY <2>1 DEF Write
  <2>4. QED
    BY <2>1, <2>2, <2>3 DEF Calls
<1> USE <1>1, <1>3, Typing
<1>4. TypeOK'
  BY <1>2 DEF TypeOK
<1>5. CheckInv'
  BY DEF CheckInv
<1>6. CallInv'
  BY DEF CallInv, Vouched
<1>7. ApartInv'
  BY DEF CallInv, ApartInv
<1>8. AckedInv'
  BY DEF CallInv, AckedInv, Vouched, Calling
<1>9. UplinkInv'
  BY <1>2 DEF CallInv, SharedInv, UplinkInv, Vouched, Calling
<1>10. FiredInv'
  BY DEF CallInv, FiredInv, Vouched, Calling
<1>11. SharedInv'
  BY DEF CallInv, SharedInv, Vouched, Calling
<1>12. AckMeansHeard'
  BY DEF CallInv, AckMeansHeard, Vouched
<1>13. KeyErrorIsShared'
  BY DEF SharedInv, KeyErrorIsShared
<1>14. EntryHasCaller'
  BY DEF EntryHasCaller, Calling
<1>15. QED
  BY <1>4, <1>5, <1>6, <1>7, <1>8, <1>9, <1>10, <1>11, <1>12, <1>13, <1>14 DEF IInv

LEMMA WriteFailsStep ==
  ASSUME IInv, NEW t \in Threads, WriteFails(t)
  PROVE  IInv'
<1> USE ConstantsAssumption DEF IInv, vars, caller, fc
<1>1. /\ thread[t].at = "send" /\ thread[t].frame \in Frames
      /\ raised' = raised \cup {Key[thread[t].frame]}
      /\ UNCHANGED <<dict, fired, uplink, stack, check, downlink>>
  BY DEF WriteFails, Raise, TypeOK
<1>2. thread' = [thread EXCEPT ![t] = NoCall] /\ NoCall \in Calls
  BY NoCallTyped DEF WriteFails, Raise
<1>3. /\ thread'[t] = NoCall
      /\ thread' \in [Threads -> Calls]
      /\ \A u \in Threads \ {t} : thread'[u] = thread[u]
  BY <1>2 DEF TypeOK
<1> USE <1>1, <1>3, Typing DEF NoCall
<1>4. TypeOK'
  <2>1. raised' \subseteq Keys
    BY DEF TypeOK
  <2>2. \A u \in Threads : thread'[u].at # "idle" => thread'[u].frame \in Frames
    BY DEF TypeOK
  <2>3. QED
    BY <2>1, <2>2 DEF TypeOK
<1>5. CheckInv'
  BY DEF CheckInv
<1>6. CallInv'
  BY DEF CallInv, Vouched
<1>7. ApartInv'
  BY DEF CallInv, ApartInv
<1>8. AckedInv'
  BY DEF CallInv, AckedInv, Vouched, Calling
<1>9. UplinkInv'
  BY DEF CallInv, UplinkInv, Vouched, Calling
<1>10. FiredInv'
  BY DEF CallInv, FiredInv, Vouched, Calling
<1>11. SharedInv'
  BY DEF CallInv, SharedInv, Vouched, Calling
<1>12. AckMeansHeard'
  BY DEF CallInv, AckMeansHeard, Vouched
<1>13. KeyErrorIsShared'
  BY DEF SharedInv, KeyErrorIsShared
<1>14. EntryHasCaller'
  BY DEF EntryHasCaller, Calling
<1>15. QED
  BY <1>4, <1>5, <1>6, <1>7, <1>8, <1>9, <1>10, <1>11, <1>12, <1>13, <1>14 DEF IInv

LEMMA LookStep ==
  ASSUME IInv, NEW t \in Threads, Look(t)
  PROVE  IInv'
<1> USE ConstantsAssumption DEF IInv, vars, caller, fc
<1> DEFINE e == dict[Key[thread[t].frame]]
<1>1. /\ thread[t].at = "look" /\ thread[t].frame \in Frames /\ e \in Events \cup {None}
      /\ UNCHANGED <<dict, raised, fired, uplink, stack, check, downlink>>
  BY DEF Look, TypeOK
<1>2. CASE e = None
  <2>1. Return(t, "keyerror")
    BY <1>2 DEF Look
  <2>2. /\ thread'[t].at = "idle" /\ thread'[t].event = None /\ thread'[t].frame = None
        /\ ~thread'[t].answered /\ thread'[t].result = "keyerror"
        /\ thread'[t].due = thread[t].due /\ thread'[t].shared = thread[t].shared
        /\ thread' \in [Threads -> Calls]
        /\ \A u \in Threads \ {t} : thread'[u] = thread[u]
    BY <2>1, Returning
  <2>3. TypeOK'
    BY <1>1, <1>2, <2>2, Typing DEF TypeOK
  <2>4. CheckInv'
    BY <1>1, <1>2, <2>2, Typing DEF CheckInv
  <2>5. CallInv'
    BY <1>1, <1>2, <2>2, Typing DEF CallInv, Vouched
  <2>6. ApartInv'
    BY <1>1, <1>2, <2>2, Typing DEF CallInv, ApartInv
  <2>7. AckedInv'
    BY <1>1, <1>2, <2>2, Typing DEF CallInv, AckedInv, Vouched, Calling
  <2>8. UplinkInv'
    BY <1>1, <1>2, <2>2, Typing DEF CallInv, UplinkInv, Vouched, Calling
  <2>9. FiredInv'
    BY <1>1, <1>2, <2>2, Typing DEF CallInv, FiredInv, Vouched, Calling
  <2>10. SharedInv'
    BY <1>1, <1>2, <2>2, Typing DEF CallInv, SharedInv, Vouched, Calling
  <2>11. AckMeansHeard'
    BY <1>1, <1>2, <2>2, Typing DEF CallInv, AckMeansHeard, Vouched
  <2>12. KeyErrorIsShared'
    BY <1>1, <1>2, <2>2, Typing DEF SharedInv, KeyErrorIsShared
  <2>13. EntryHasCaller'
    BY <1>1, <1>2, <2>2, Typing DEF EntryHasCaller, Calling
  <2>14. QED
    BY <2>3, <2>4, <2>5, <2>6, <2>7, <2>8, <2>9, <2>10, <2>11, <2>12, <2>13 DEF IInv
<1>3. CASE e # None
  <2>1. /\ thread'[t].at = "wait" /\ thread'[t].event = e
        /\ thread' \in [Threads -> Calls]
        /\ \A u \in Threads \ {t} : thread'[u] = thread[u]
        /\ thread'[t].frame = thread[t].frame
        /\ thread'[t].left = thread[t].left
        /\ thread'[t].result = thread[t].result
        /\ thread'[t].answered = thread[t].answered
        /\ thread'[t].due = thread[t].due
        /\ thread'[t].shared = thread[t].shared
    <3> DEFINE c == [thread[t] EXCEPT !.at = "wait", !.event = e]
    <3>1. thread[t] \in Calls /\ thread \in [Threads -> Calls]
      BY DEF TypeOK
    <3>2. c \in Calls
      BY <1>1, <1>3, <3>1 DEF Calls
    <3>3. thread' = [thread EXCEPT ![t] = c]
      BY <1>1, <1>3, <3>1 DEF Look
    <3>4. QED
      BY <3>1, <3>2, <3>3 DEF Calls
  <2>2. TypeOK'
    BY <1>1, <1>3, <2>1, Typing DEF TypeOK
  <2>3. CheckInv'
    BY <1>1, <1>3, <2>1, Typing DEF CheckInv
  <2>4. CallInv'
    BY <1>1, <1>3, <2>1, Typing DEF CallInv, Vouched
  <2>5. ApartInv'
    BY <1>1, <1>3, <2>1, Typing DEF CallInv, ApartInv
  <2>6. AckedInv'
    BY <1>1, <1>3, <2>1, Typing DEF CallInv, AckedInv, Vouched, Calling
  <2>7. UplinkInv'
    BY <1>1, <1>3, <2>1, Typing DEF CallInv, UplinkInv, Vouched, Calling
  <2>8. FiredInv'
    BY <1>1, <1>3, <2>1, Typing DEF CallInv, FiredInv, Vouched, Calling
  <2>9. SharedInv'
    BY <1>1, <1>3, <2>1, Typing DEF CallInv, SharedInv, Vouched, Calling
  <2>10. AckMeansHeard'
    BY <1>1, <1>3, <2>1, Typing DEF CallInv, AckMeansHeard, Vouched
  <2>11. KeyErrorIsShared'
    BY <1>1, <1>3, <2>1, Typing DEF SharedInv, KeyErrorIsShared
  <2>12. EntryHasCaller'
    BY <1>1, <1>3, <2>1, Typing DEF EntryHasCaller, Calling
  <2>13. QED
    BY <2>2, <2>3, <2>4, <2>5, <2>6, <2>7, <2>8, <2>9, <2>10, <2>11, <2>12 DEF IInv
<1>4. QED
  BY <1>2, <1>3

LEMMA WaitStep ==
  ASSUME IInv, NEW t \in Threads, Wait(t)
  PROVE  IInv'
<1> USE ConstantsAssumption DEF IInv, vars, caller, fc
<1>1. /\ thread[t].at = "wait" /\ thread[t].frame \in Frames
      /\ UNCHANGED <<dict, raised, fired, uplink, stack, check, downlink>>
  BY DEF Wait, TypeOK
<1>2. /\ thread'[t].at = "pop" /\ (thread'[t].answered <=> thread[t].event \in fired)
      /\ thread' \in [Threads -> Calls]
      /\ \A u \in Threads \ {t} : thread'[u] = thread[u]
      /\ thread'[t].frame = thread[t].frame
      /\ thread'[t].left = thread[t].left
      /\ thread'[t].event = thread[t].event
      /\ thread'[t].result = thread[t].result
      /\ thread'[t].due = thread[t].due
      /\ thread'[t].shared = thread[t].shared
  <2> DEFINE b == thread[t].event \in fired
  <2> DEFINE c == [thread[t] EXCEPT !.at = "pop", !.answered = b]
  <2>0. b \in BOOLEAN
    OBVIOUS
  <2> HIDE DEF b
  <2>1. thread[t] \in Calls /\ thread \in [Threads -> Calls]
    BY DEF TypeOK
  <2>2. c \in Calls
    BY <2>0, <2>1 DEF Calls
  <2>3. thread' = [thread EXCEPT ![t] = c]
    BY <2>1 DEF Wait, b
  <2>4. QED
    BY <2>1, <2>2, <2>3 DEF Calls, b
<1> USE <1>1, <1>2, Typing
<1>3. TypeOK'
  BY DEF TypeOK
<1>4. CheckInv'
  BY DEF CheckInv
<1>5. CallInv'
  BY DEF CallInv, FiredInv, Vouched
<1>6. ApartInv'
  BY DEF CallInv, ApartInv
<1>7. AckedInv'
  BY DEF CallInv, AckedInv, Vouched, Calling
<1>8. UplinkInv'
  BY DEF CallInv, UplinkInv, Vouched, Calling
<1>9. FiredInv'
  BY DEF CallInv, FiredInv, Vouched, Calling
<1>10. SharedInv'
  BY DEF CallInv, SharedInv, Vouched, Calling
<1>11. AckMeansHeard'
  BY DEF CallInv, AckMeansHeard, Vouched
<1>12. KeyErrorIsShared'
  BY DEF SharedInv, KeyErrorIsShared
<1>13. EntryHasCaller'
  BY DEF EntryHasCaller, Calling
<1>14. QED
  BY <1>3, <1>4, <1>5, <1>6, <1>7, <1>8, <1>9, <1>10, <1>11, <1>12, <1>13 DEF IInv

LEMMA ReceiveStep ==
  ASSUME IInv, NEW key \in Keys, Receive(key)
  PROVE  IInv'
<1> USE ConstantsAssumption DEF IInv, vars, caller, fc
<1>1. /\ key \in downlink /\ downlink' \subseteq downlink
      /\ UNCHANGED <<thread, dict, raised, uplink, stack, check>>
  BY DEF Receive
<1>2. /\ None \notin fired' /\ fired' \subseteq Events
      /\ \A e \in fired' : e \in fired \/ e = dict[key]
  BY Typing DEF Receive, Keep, TypeOK
<1> USE <1>1, <1>2, Typing
<1>3. TypeOK'
  BY DEF TypeOK
<1>4. CheckInv'
  BY DEF CheckInv
<1>5. CallInv'
  BY DEF CallInv, Vouched
<1>6. ApartInv'
  BY DEF CallInv, ApartInv
<1>7. AckedInv'
  BY DEF CallInv, AckedInv, Vouched, Calling
<1>8. UplinkInv'
  BY DEF CallInv, UplinkInv, Vouched, Calling
<1>9. FiredInv'
  BY DEF CallInv, FiredInv, Vouched, Calling, ApartInv, AckedInv
<1>10. SharedInv'
  BY DEF CallInv, SharedInv, Vouched, Calling
<1>11. AckMeansHeard'
  BY DEF CallInv, AckMeansHeard, Vouched
<1>12. KeyErrorIsShared'
  BY DEF SharedInv, KeyErrorIsShared
<1>13. EntryHasCaller'
  BY DEF EntryHasCaller, Calling
<1>14. QED
  BY <1>3, <1>4, <1>5, <1>6, <1>7, <1>8, <1>9, <1>10, <1>11, <1>12, <1>13 DEF IInv

LEMMA LoseStep ==
  ASSUME IInv, NEW key \in Keys, Lose(key)
  PROVE  IInv'
<1> USE ConstantsAssumption DEF IInv, vars, caller, fc
<1>1. /\ downlink' \subseteq downlink
      /\ UNCHANGED <<thread, dict, raised, fired, uplink, stack, check>>
  BY DEF Lose
<1> USE <1>1
<1>2. TypeOK'
  BY DEF TypeOK
<1>3. CheckInv'
  BY DEF CheckInv
<1>4. CallInv'
  BY DEF CallInv, Vouched
<1>5. ApartInv'
  BY DEF CallInv, ApartInv
<1>6. AckedInv'
  BY DEF CallInv, AckedInv, Vouched, Calling
<1>7. UplinkInv'
  BY DEF CallInv, UplinkInv, Vouched, Calling
<1>8. FiredInv'
  BY DEF CallInv, FiredInv, Vouched, Calling
<1>9. SharedInv'
  BY DEF CallInv, SharedInv, Vouched, Calling
<1>10. AckMeansHeard'
  BY DEF CallInv, AckMeansHeard, Vouched
<1>11. KeyErrorIsShared'
  BY DEF SharedInv, KeyErrorIsShared
<1>12. EntryHasCaller'
  BY DEF EntryHasCaller, Calling
<1>13. QED
  BY <1>2, <1>3, <1>4, <1>5, <1>6, <1>7, <1>8, <1>9, <1>10, <1>11, <1>12 DEF IInv

LEMMA RefuseStep ==
  ASSUME IInv, Refuse
  PROVE  IInv'
<1> USE ConstantsAssumption DEF IInv, vars, caller, fc
<1>1. UNCHANGED <<thread, dict, raised, fired, downlink, stack, check>>
  BY DEF Refuse
<1>2. /\ uplink # <<>> /\ uplink' = Tail(uplink)
  BY DEF Refuse
<1> USE <1>1
<1>3. /\ Head(uplink) \in Frames /\ 1 \in 1 .. Len(uplink) /\ uplink[1] = Head(uplink)
      /\ uplink' \in Seq(Frames) /\ Len(uplink') <= MaxWire
      /\ Len(uplink') = Len(uplink) - 1
      /\ \A i \in 1 .. Len(uplink') : i + 1 \in 1 .. Len(uplink) /\ uplink'[i] = uplink[i + 1]
  BY <1>2, TailFacts DEF TypeOK
<1>4. TypeOK'
  BY <1>3 DEF TypeOK
<1>5. CheckInv'
  BY DEF CheckInv
<1>6. CallInv'
  BY DEF CallInv, Vouched
<1>7. ApartInv'
  BY DEF CallInv, ApartInv
<1>8. AckedInv'
  BY DEF CallInv, AckedInv, Vouched, Calling
<1>9. UplinkInv'
  BY <1>3 DEF CallInv, UplinkInv, Vouched, Calling
<1>10. FiredInv'
  BY DEF CallInv, FiredInv, Vouched, Calling
<1>11. SharedInv'
  BY DEF CallInv, SharedInv, Vouched, Calling
<1>12. AckMeansHeard'
  BY DEF CallInv, AckMeansHeard, Vouched
<1>13. KeyErrorIsShared'
  BY DEF SharedInv, KeyErrorIsShared
<1>14. EntryHasCaller'
  BY DEF EntryHasCaller, Calling
<1>15. QED
  BY <1>4, <1>5, <1>6, <1>7, <1>8, <1>9, <1>10, <1>11, <1>12, <1>13, <1>14 DEF IInv

LEMMA DataAnlStep ==
  ASSUME IInv, DataAnl
  PROVE  IInv'
<1> USE ConstantsAssumption DEF IInv, vars, caller, fc
<1> DEFINE h == Head(uplink)
<1> DEFINE key == Key[h]
<1>1. UNCHANGED <<dict, raised, fired, downlink, check>>
  BY DEF DataAnl
<1>2. /\ uplink # <<>> /\ uplink' = Tail(uplink)
  BY DEF DataAnl
<1>3. /\ h \in Frames /\ 1 \in 1 .. Len(uplink) /\ uplink[1] = h
      /\ uplink' \in Seq(Frames) /\ Len(uplink') <= MaxWire
      /\ Len(uplink') = Len(uplink) - 1
      /\ \A i \in 1 .. Len(uplink') : i + 1 \in 1 .. Len(uplink) /\ uplink'[i] = uplink[i + 1]
  BY <1>2, TailFacts DEF TypeOK
<1>4. /\ key \in Keys /\ key = Key[h]
      /\ stack' = IF Len(stack) >= AckSlots THEN stack ELSE Append(stack, key)
  BY <1>3 DEF DataAnl, SendAck
<1>5. /\ stack' \in Seq(Keys) /\ Len(stack') <= AckSlots /\ Len(stack') >= Len(stack)
      /\ \A i \in 1 .. Len(stack') :
           stack'[i] = key \/ (i \in 1 .. Len(stack) /\ stack'[i] = stack[i])
  BY <1>4 DEF TypeOK
<1>6. /\ thread' \in [Threads -> Calls]
      /\ \A u \in Threads :
           /\ thread'[u].at = thread[u].at /\ thread'[u].frame = thread[u].frame
           /\ thread'[u].left = thread[u].left /\ thread'[u].event = thread[u].event
           /\ thread'[u].result = thread[u].result /\ thread'[u].answered = thread[u].answered
           /\ thread'[u].shared = thread[u].shared
           /\ thread[u].due \/ thread[u].frame = h => thread'[u].due
  <2> DEFINE b(u) == thread[u].due \/ thread[u].frame = h
  <2> DEFINE c(u) == [thread[u] EXCEPT !.due = b(u)]
  <2>1. \A u \in Threads : b(u) \in BOOLEAN /\ thread[u] \in Calls
    BY DEF TypeOK
  <2>2. thread' = [u \in Threads |-> c(u)]
    BY DEF DataAnl
  <2>3. ASSUME NEW u \in Threads
        PROVE  /\ c(u) \in Calls
               /\ c(u).at = thread[u].at /\ c(u).frame = thread[u].frame
               /\ c(u).left = thread[u].left /\ c(u).event = thread[u].event
               /\ c(u).result = thread[u].result /\ c(u).answered = thread[u].answered
               /\ c(u).shared = thread[u].shared
               /\ c(u).due = b(u)
    <3> HIDE DEF b
    <3>1. QED
      BY <2>1 DEF Calls
  <2> HIDE DEF c
  <2>4. \A u \in Threads : thread'[u] = c(u)
    BY <2>2
  <2>5. thread' \in [Threads -> Calls]
    BY <2>2, <2>3
  <2>6. QED
    BY <2>3, <2>4, <2>5
<1> HIDE DEF h, key
<1> USE <1>1, <1>6, Typing
<1>7. TypeOK'
  BY <1>3, <1>5 DEF TypeOK
<1>8. CheckInv'
  BY <1>5 DEF CheckInv
<1>9. CallInv'
  BY DEF CallInv, Vouched
<1>10. ApartInv'
  BY DEF CallInv, ApartInv
<1>a. \A u \in Threads : Vouched(u) => Vouched(u)'
  BY DEF Vouched
<1>11. AckedInv'
  <2>1. \A u \in Threads : Calling(u, key) => Vouched(u)'
    BY <1>3, <1>4 DEF UplinkInv, Calling, Vouched
  <2>2. QED
    BY <1>4, <1>5, <1>a, <2>1 DEF AckedInv, Calling
<1>12. UplinkInv'
  <2>1. SUFFICES ASSUME NEW u \in Threads, NEW i \in 1 .. Len(uplink'),
                        thread'[u].at # "idle",
                        Key[thread'[u].frame] = Key[uplink'[i]], ~Vouched(u)'
                 PROVE  uplink'[i] = thread'[u].frame
    BY DEF UplinkInv, Calling
  <2>2. i + 1 \in 1 .. Len(uplink) /\ uplink'[i] = uplink[i + 1]
    BY <1>3
  <2>3. Calling(u, Key[uplink[i + 1]]) /\ ~Vouched(u)
    BY <1>a, <2>1, <2>2 DEF Calling
  <2>4. QED
    BY <2>2, <2>3 DEF UplinkInv
<1>13. FiredInv'
  BY DEF CallInv, FiredInv, Vouched, Calling
<1>14. SharedInv'
  BY DEF CallInv, SharedInv, Vouched, Calling
<1>15. AckMeansHeard'
  BY DEF CallInv, AckMeansHeard, Vouched
<1>16. KeyErrorIsShared'
  BY DEF SharedInv, KeyErrorIsShared
<1>17. EntryHasCaller'
  BY DEF EntryHasCaller, Calling
<1>18. QED
  BY <1>7, <1>8, <1>9, <1>10, <1>11, <1>12, <1>13, <1>14, <1>15, <1>16, <1>17 DEF IInv

LEMMA CheckLoadStep ==
  ASSUME IInv, CheckLoad
  PROVE  IInv'
<1> USE ConstantsAssumption DEF IInv, vars, caller, fc
<1>1. UNCHANGED <<thread, dict, raised, fired, downlink, uplink, stack>>
  BY DEF CheckLoad
<1>2. /\ check'.at = "store" /\ check'.count = Len(stack) /\ check'.key = check.key
      /\ check'.count \in 1 .. Len(stack)
      /\ check' \in [at : {"off", "store", "read"}, count : 0 .. AckSlots, key : Keys \cup {None}]
  <2>1. stack \in Seq(Keys) /\ stack # <<>> /\ Len(stack) <= AckSlots /\ AckSlots \in Nat
    BY DEF CheckLoad, TypeOK
  <2>2. Len(stack) \in 1 .. Len(stack) /\ Len(stack) \in 0 .. AckSlots
    BY <2>1
  <2>3. QED
    BY <2>2 DEF CheckLoad, TypeOK
<1> USE <1>1, <1>2
<1>3. TypeOK'
  BY DEF TypeOK
<1>4. CheckInv'
  BY DEF CheckInv
<1>5. CallInv'
  BY DEF CallInv, Vouched
<1>6. ApartInv'
  BY DEF CallInv, ApartInv
<1>7. AckedInv'
  BY DEF CallInv, AckedInv, Vouched, Calling
<1>8. UplinkInv'
  BY DEF CallInv, UplinkInv, Vouched, Calling
<1>9. FiredInv'
  BY DEF CallInv, FiredInv, Vouched, Calling
<1>10. SharedInv'
  BY DEF CallInv, SharedInv, Vouched, Calling
<1>11. AckMeansHeard'
  BY DEF CallInv, AckMeansHeard, Vouched
<1>12. KeyErrorIsShared'
  BY DEF SharedInv, KeyErrorIsShared
<1>13. EntryHasCaller'
  BY DEF EntryHasCaller, Calling
<1>14. QED
  BY <1>3, <1>4, <1>5, <1>6, <1>7, <1>8, <1>9, <1>10, <1>11, <1>12, <1>13 DEF IInv

LEMMA CheckStoreStep ==
  ASSUME IInv, CheckStore
  PROVE  IInv'
<1> USE ConstantsAssumption DEF IInv, vars, caller, fc
<1> DEFINE n == check.count
<1>1. UNCHANGED <<thread, dict, raised, fired, downlink, uplink>>
  BY DEF CheckStore
<1>2. stack \in Seq(Keys) /\ n \in 1 .. Len(stack) /\ Len(stack) <= AckSlots /\ AckSlots \in Nat
  BY DEF CheckStore, TypeOK, CheckInv
<1>3. stack[n] \in Keys
  BY <1>2
<1>4. /\ check'.at = "read" /\ check'.count = n /\ check'.key = stack[n] /\ n # 0
      /\ check' \in [at : {"off", "store", "read"}, count : 0 .. AckSlots, key : Keys \cup {None}]
  <2>1. check' = [check EXCEPT !.at = "read", !.key = stack[n]] /\ check.count = n
    BY DEF CheckStore
  <2>2. n \in 0 .. AckSlots /\ n # 0
    BY <1>2
  <2>3. check \in [at : {"off", "store", "read"}, count : 0 .. AckSlots, key : Keys \cup {None}]
    BY DEF TypeOK
  <2> HIDE DEF n
  <2>4. QED
    BY <1>3, <2>1, <2>2, <2>3
<1>5. /\ stack' \in Seq(Keys) /\ Len(stack') = n - 1 /\ Len(stack') <= AckSlots
      /\ \A i \in 1 .. Len(stack') : i \in 1 .. Len(stack) /\ stack'[i] = stack[i]
  <2>1. stack' = SubSeq(stack, 1, n - 1)
    BY DEF CheckStore
  <2> HIDE DEF n
  <2>2. QED
    BY <1>2, <2>1
<1> HIDE DEF n
<1> USE <1>1, <1>4, Typing
<1>6. TypeOK'
  BY <1>5 DEF TypeOK
<1>7. CheckInv'
  BY <1>2, <1>3 DEF CheckInv
<1>8. CallInv'
  BY DEF CallInv, Vouched
<1>9. ApartInv'
  BY DEF CallInv, ApartInv
<1>10. AckedInv'
  BY <1>2, <1>3, <1>5 DEF CallInv, AckedInv, Vouched, Calling
<1>11. UplinkInv'
  BY DEF CallInv, UplinkInv, Vouched, Calling
<1>12. FiredInv'
  BY DEF CallInv, FiredInv, Vouched, Calling
<1>13. SharedInv'
  BY DEF CallInv, SharedInv, Vouched, Calling
<1>14. AckMeansHeard'
  BY DEF CallInv, AckMeansHeard, Vouched
<1>15. KeyErrorIsShared'
  BY DEF SharedInv, KeyErrorIsShared
<1>16. EntryHasCaller'
  BY DEF EntryHasCaller, Calling
<1>17. QED
  BY <1>6, <1>7, <1>8, <1>9, <1>10, <1>11, <1>12, <1>13, <1>14, <1>15, <1>16 DEF IInv

LEMMA CheckSendStep ==
  ASSUME IInv, CheckSend
  PROVE  IInv'
<1> USE ConstantsAssumption DEF IInv, vars, caller, fc
<1> DEFINE key == IF Len(stack) >= check.count THEN stack[check.count] ELSE check.key
<1>1. UNCHANGED <<thread, dict, raised, fired, uplink, stack>>
  BY DEF CheckSend
<1>2. /\ check' = CheckOff
      /\ downlink' = downlink \cup {key}
  BY DEF CheckSend
<1>3. /\ key \in Keys
      /\ \/ \E i \in 1 .. Len(stack) : key = stack[i]
         \/ key = check.key /\ check.key # None
  BY DEF CheckSend, CheckInv, TypeOK
<1>4. /\ check'.at = "off" /\ check'.count = 0 /\ check'.key = None
      /\ check' \in [at : {"off", "store", "read"}, count : 0 .. AckSlots, key : Keys \cup {None}]
  BY <1>2 DEF CheckOff
<1> HIDE DEF key
<1> USE <1>1, <1>4, Typing
<1>5. TypeOK'
  BY <1>2, <1>3 DEF TypeOK
<1>6. CheckInv'
  BY DEF CheckInv
<1>7. CallInv'
  BY DEF CallInv, Vouched
<1>8. ApartInv'
  BY DEF CallInv, ApartInv
<1>9. AckedInv'
  BY <1>2, <1>3 DEF CallInv, AckedInv, Vouched, Calling
<1>10. UplinkInv'
  BY DEF CallInv, UplinkInv, Vouched, Calling
<1>11. FiredInv'
  BY DEF CallInv, FiredInv, Vouched, Calling
<1>12. SharedInv'
  BY DEF CallInv, SharedInv, Vouched, Calling
<1>13. AckMeansHeard'
  BY DEF CallInv, AckMeansHeard, Vouched
<1>14. KeyErrorIsShared'
  BY DEF SharedInv, KeyErrorIsShared
<1>15. EntryHasCaller'
  BY DEF EntryHasCaller, Calling
<1>16. QED
  BY <1>5, <1>6, <1>7, <1>8, <1>9, <1>10, <1>11, <1>12, <1>13, <1>14, <1>15 DEF IInv

\* The dictionary, once a call is registered.
LEMMA Registering ==
  ASSUME IInv, NEW t \in Threads, NEW call \in Calls, call.frame \in Frames,
         Register(t, call)
  PROVE  \E e \in Events :
           LET key == Key[call.frame]
           IN /\ \A k \in Keys : dict[k] # e
              /\ \A u \in Threads : thread[u].event # e
              /\ dict' \in [Keys -> Events \cup {None}]
              /\ \A k \in Keys : dict'[k] = IF k = key THEN e ELSE dict[k]
              /\ e \notin fired' /\ fired' \subseteq fired
              /\ UNCHANGED <<uplink, stack, check, downlink>>
<1> DEFINE key == Key[call.frame]
<1>1. PICK e \in Events \ Held :
        /\ dict' = [dict EXCEPT ![key] = e]
        /\ fired' = ((fired \ {e}) \cap Held') \ {None}
        /\ UNCHANGED <<uplink, stack, check, downlink>>
  BY DEF Register, Entry, Keep, fc
<1>2. key \in Keys /\ dict \in [Keys -> Events \cup {None}]
  BY ConstantsAssumption DEF IInv, TypeOK
<1> HIDE DEF key
<1>3. /\ \A k \in Keys : dict[k] # e
      /\ \A u \in Threads : thread[u].event # e
  BY <1>1 DEF Held
<1>4. /\ dict' \in [Keys -> Events \cup {None}]
      /\ \A k \in Keys : dict'[k] = IF k = key THEN e ELSE dict[k]
      /\ e \notin fired' /\ fired' \subseteq fired
  BY <1>1, <1>2
<1>5. QED
  BY <1>1, <1>3, <1>4 DEF key

LEMMA CallStep ==
  ASSUME IInv, NEW t \in Threads, NEW f \in Frames, Call(t, f)
  PROVE  IInv'
<1> USE ConstantsAssumption DEF IInv, vars, caller, fc
<1> DEFINE key == Key[f]
<1> DEFINE d == Due(key)
<1> DEFINE s == \E u \in Threads : Calling(u, key)
<1> DEFINE call == [NoCall EXCEPT !.frame = f, !.left = MaxRetry, !.due = d, !.shared = s]
<1>1. thread[t].at = "idle" /\ Register(t, call) /\ key \in Keys
  BY DEF Call
<1>2. d \in BOOLEAN /\ s \in BOOLEAN /\ MaxRetry \in 0 .. MaxRetry /\ MaxRetry # 0
  BY DEF Due
<1>3. /\ \A i \in 1 .. Len(uplink) : Key[uplink[i]] = key => d
      /\ \A i \in 1 .. Len(stack) : stack[i] = key => d
      /\ key = check.key => d
      /\ key \in downlink => d
      /\ \A u \in Threads : Calling(u, key) => s
  BY DEF Due
<1> HIDE DEF d, s
<1>4. /\ call \in Calls
      /\ call.at = "idle" /\ call.frame = f /\ call.left = MaxRetry /\ call.event = None
      /\ call.result = "none" /\ ~call.answered
  BY <1>2, NoCallTyped DEF Calls, NoCall
<1>5. (call.due <=> d) /\ (call.shared <=> s)
  BY <1>2 DEF NoCall
<1> HIDE DEF call
<1>6. PICK e \in Events :
      /\ \A k \in Keys : dict[k] # e
      /\ \A u \in Threads : thread[u].event # e
      /\ dict' \in [Keys -> Events \cup {None}]
      /\ \A k \in Keys : dict'[k] = IF k = key THEN e ELSE dict[k]
      /\ e \notin fired' /\ fired' \subseteq fired
      /\ UNCHANGED <<uplink, stack, check, downlink>>
  BY <1>1, <1>4, Registering
<1>7. /\ raised' = raised \ {key}
      /\ thread' = [u \in Threads |->
                      IF u = t THEN [call EXCEPT !.at = "send"] ELSE
                      [thread[u] EXCEPT !.shared = @ \/ Calling(u, key)]]
  BY <1>1, <1>2, <1>4 DEF Register
<1>8. /\ thread' \in [Threads -> Calls]
      /\ thread'[t].at = "send" /\ thread'[t].frame = f /\ thread'[t].left = MaxRetry
      /\ thread'[t].event = None /\ thread'[t].result = "none" /\ ~thread'[t].answered
      /\ (thread'[t].due <=> d) /\ (thread'[t].shared <=> s)
      /\ \A u \in Threads \ {t} :
           /\ thread'[u].at = thread[u].at /\ thread'[u].frame = thread[u].frame
           /\ thread'[u].left = thread[u].left /\ thread'[u].event = thread[u].event
           /\ thread'[u].result = thread[u].result /\ thread'[u].answered = thread[u].answered
           /\ thread'[u].due = thread[u].due
           /\ thread[u].shared \/ Calling(u, key) <=> thread'[u].shared
  <2> DEFINE b(u) == thread[u].shared \/ Calling(u, key)
  <2> DEFINE other(u) == [thread[u] EXCEPT !.shared = b(u)]
  <2> DEFINE mine == [call EXCEPT !.at = "send"]
  <2>1. \A u \in Threads : b(u) \in BOOLEAN /\ thread[u] \in Calls
    BY DEF TypeOK
  <2>2. thread' = [u \in Threads |-> IF u = t THEN mine ELSE other(u)]
    BY <1>7
  <2>3. ASSUME NEW u \in Threads
        PROVE  /\ other(u) \in Calls
               /\ other(u).at = thread[u].at /\ other(u).frame = thread[u].frame
               /\ other(u).left = thread[u].left /\ other(u).event = thread[u].event
               /\ other(u).result = thread[u].result
               /\ other(u).answered = thread[u].answered
               /\ other(u).due = thread[u].due
               /\ other(u).shared = b(u)
    <3> HIDE DEF b
    <3>1. QED
      BY <2>1 DEF Calls
  <2>4. /\ mine \in Calls
        /\ mine.at = "send" /\ mine.frame = f /\ mine.left = MaxRetry
        /\ mine.event = None /\ mine.result = "none" /\ ~mine.answered
        /\ (mine.due <=> d) /\ (mine.shared <=> s)
    BY <1>4, <1>5 DEF Calls
  <2> HIDE DEF other, mine
  <2>5. thread'[t] = mine /\ \A u \in Threads \ {t} : thread'[u] = other(u)
    BY <2>2
  <2>6. thread' \in [Threads -> Calls]
    BY <2>2, <2>3, <2>4
  <2>7. \A u \in Threads \ {t} : thread[u].shared \/ Calling(u, key) <=> thread'[u].shared
    BY <2>3, <2>5
  <2> HIDE DEF b
  <2>8. QED
    BY <2>3, <2>4, <2>5, <2>6, <2>7
<1>r. raised' = raised \ {key}
  BY <1>7
<1> HIDE DEF key
<1> USE <1>1, <1>2, <1>6, <1>8, <1>r, Typing
<1>k. key = Key[f] /\ None \notin fired'
  BY DEF key
<1>9. TypeOK'
  BY DEF TypeOK
<1>10. CheckInv'
  BY DEF CheckInv
<1>11. CallInv'
  BY DEF CallInv, Vouched
<1>12. ApartInv'
  BY <1>k DEF CallInv, ApartInv
<1>13. AckedInv'
  BY <1>3, <1>k DEF CallInv, AckedInv, Vouched, Calling
<1>14. UplinkInv'
  BY <1>3, <1>k DEF CallInv, UplinkInv, Vouched, Calling
<1>15. FiredInv'
  BY <1>k DEF CallInv, FiredInv, Vouched, Calling
<1>16. SharedInv'
  BY <1>3, <1>k DEF CallInv, SharedInv, Vouched, Calling
<1>17. AckMeansHeard'
  BY DEF CallInv, AckMeansHeard, Vouched
<1>18. KeyErrorIsShared'
  BY DEF CallInv, KeyErrorIsShared
<1>19. EntryHasCaller'
  BY <1>k DEF EntryHasCaller, Calling
<1>20. QED
  BY <1>9, <1>10, <1>11, <1>12, <1>13, <1>14, <1>15, <1>16, <1>17, <1>18, <1>19 DEF IInv

LEMMA AgainStep ==
  ASSUME IInv, NEW t \in Threads, Again(t)
  PROVE  IInv'
<1> USE ConstantsAssumption DEF IInv, vars, caller, fc
<1> DEFINE key == Key[thread[t].frame]
<1>1. /\ thread[t].at = "again" /\ Register(t, thread[t])
      /\ thread[t].frame \in Frames /\ key \in Keys /\ thread[t] \in Calls
  BY Typing DEF Again
<1>2. PICK e \in Events :
      /\ \A k \in Keys : dict[k] # e
      /\ \A u \in Threads : thread[u].event # e
      /\ dict' \in [Keys -> Events \cup {None}]
      /\ \A k \in Keys : dict'[k] = IF k = key THEN e ELSE dict[k]
      /\ e \notin fired' /\ fired' \subseteq fired
      /\ UNCHANGED <<uplink, stack, check, downlink>>
  BY <1>1, Registering
<1>3. CASE thread[t].left = 0
  <2>1. raised' = raised \cup {key} /\ thread' = [thread EXCEPT ![t] = NoCall]
    BY <1>1, <1>3 DEF Register, Raise
  <2>2. /\ thread' \in [Threads -> Calls]
        /\ \A u \in Threads \ {t} : thread'[u] = thread[u]
        /\ thread'[t].at = "idle" /\ thread'[t].event = None /\ thread'[t].frame = None
        /\ ~thread'[t].answered /\ thread'[t].result = "none"
    <3>1. thread \in [Threads -> Calls]
      BY DEF TypeOK
    <3>2. thread'[t] = NoCall /\ thread' \in [Threads -> Calls]
          /\ \A u \in Threads \ {t} : thread'[u] = thread[u]
      BY <2>1, <3>1, NoCallTyped
    <3>3. QED
      BY <3>2 DEF NoCall
  <2> HIDE DEF key
  <2>k. key = Key[thread[t].frame] /\ None \notin fired'
    BY <1>2, Typing DEF key
  <2> USE <1>1, <1>2, <2>1, <2>2, <2>k, Typing
  <2>3. TypeOK'
    BY DEF TypeOK
  <2>4. CheckInv'
    BY DEF CheckInv
  <2>5. CallInv'
    BY DEF CallInv, Vouched
  <2>6. ApartInv'
    BY DEF CallInv, ApartInv
  <2>7. AckedInv'
    BY DEF CallInv, AckedInv, Vouched, Calling
  <2>8. UplinkInv'
    BY DEF CallInv, UplinkInv, Vouched, Calling
  <2>9. FiredInv'
    BY DEF CallInv, FiredInv, Vouched, Calling
  <2>10. SharedInv'
    BY DEF CallInv, SharedInv, Vouched, Calling
  <2>11. AckMeansHeard'
    BY DEF CallInv, AckMeansHeard, Vouched
  <2>12. KeyErrorIsShared'
    BY DEF CallInv, KeyErrorIsShared
  <2>13. EntryHasCaller'
    BY DEF EntryHasCaller, Calling
  <2>14. QED
    BY <2>3, <2>4, <2>5, <2>6, <2>7, <2>8, <2>9, <2>10, <2>11, <2>12, <2>13 DEF IInv
<1>4. CASE thread[t].left # 0
  <2> DEFINE b(u) == thread[u].shared \/ Calling(u, key)
  <2> DEFINE other(u) == [thread[u] EXCEPT !.shared = b(u)]
  <2> DEFINE mine == [thread[t] EXCEPT !.at = "send"]
  <2>1. raised' = raised \ {key}
        /\ thread' = [u \in Threads |-> IF u = t THEN mine ELSE other(u)]
    BY <1>1, <1>4 DEF Register
  <2>2. \A u \in Threads : b(u) \in BOOLEAN /\ thread[u] \in Calls
    BY DEF TypeOK
  <2>3. ASSUME NEW u \in Threads
        PROVE  /\ other(u) \in Calls
               /\ other(u).at = thread[u].at /\ other(u).frame = thread[u].frame
               /\ other(u).left = thread[u].left /\ other(u).event = thread[u].event
               /\ other(u).result = thread[u].result
               /\ other(u).answered = thread[u].answered
               /\ other(u).due = thread[u].due
               /\ other(u).shared = b(u)
    <3> HIDE DEF b
    <3>1. QED
      BY <2>2 DEF Calls
  <2>4. /\ mine \in Calls
        /\ mine.at = "send" /\ mine.frame = thread[t].frame /\ mine.left = thread[t].left
        /\ mine.event = thread[t].event /\ mine.result = thread[t].result
        /\ mine.answered = thread[t].answered
        /\ mine.due = thread[t].due /\ mine.shared = thread[t].shared
    BY <1>1 DEF Calls
  <2> HIDE DEF other, mine
  <2>5. thread'[t] = mine /\ \A u \in Threads \ {t} : thread'[u] = other(u)
    BY <2>1
  <2>6. /\ thread' \in [Threads -> Calls]
        /\ thread'[t].at = "send" /\ thread'[t].frame = thread[t].frame
        /\ thread'[t].left = thread[t].left /\ thread'[t].event = thread[t].event
        /\ thread'[t].result = thread[t].result
        /\ thread'[t].answered = thread[t].answered
        /\ thread'[t].due = thread[t].due /\ thread'[t].shared = thread[t].shared
        /\ \A u \in Threads \ {t} :
             /\ thread'[u].at = thread[u].at /\ thread'[u].frame = thread[u].frame
             /\ thread'[u].left = thread[u].left /\ thread'[u].event = thread[u].event
             /\ thread'[u].result = thread[u].result
             /\ thread'[u].answered = thread[u].answered
             /\ thread'[u].due = thread[u].due
             /\ thread[u].shared \/ Calling(u, key) <=> thread'[u].shared
    BY <2>1, <2>3, <2>4, <2>5
  <2> HIDE DEF key
  <2>k. key = Key[thread[t].frame] /\ None \notin fired'
    BY <1>2, Typing DEF key
  <2> USE <1>1, <1>2, <1>4, <2>6, <2>k, Typing
  <2>7. TypeOK'
    BY <2>1 DEF TypeOK
  <2>8. CheckInv'
    BY DEF CheckInv
  <2>9. CallInv'
    BY DEF CallInv, Vouched
  <2>10. ApartInv'
    BY DEF CallInv, ApartInv
  <2>11. AckedInv'
    BY DEF CallInv, AckedInv, Vouched, Calling
  <2>12. UplinkInv'
    BY DEF CallInv, UplinkInv, Vouched, Calling
  <2>13. FiredInv'
    BY DEF CallInv, FiredInv, Vouched, Calling
  <2>14. SharedInv'
    BY DEF CallInv, SharedInv, Vouched, Calling
  <2>15. AckMeansHeard'
    BY DEF CallInv, AckMeansHeard, Vouched
  <2>16. KeyErrorIsShared'
    BY DEF CallInv, KeyErrorIsShared
  <2>17. EntryHasCaller'
    BY <2>1 DEF EntryHasCaller, Calling
  <2>18. QED
    BY <2>7, <2>8, <2>9, <2>10, <2>11, <2>12, <2>13, <2>14, <2>15, <2>16, <2>17 DEF IInv
<1>5. QED
  BY <1>3, <1>4

-----------------------------------------------------------------------------
LEMMA InitInv == Init => IInv
<1> SUFFICES ASSUME Init PROVE IInv
  OBVIOUS
<1> USE ConstantsAssumption DEF Init, NoCall, CheckOff, Calling
<1>1. TypeOK
  <2>1. thread \in [Threads -> Calls]
    BY NoCallTyped
  <2>2. /\ uplink \in Seq(Frames) /\ Len(uplink) <= MaxWire
        /\ stack \in Seq(Keys) /\ Len(stack) <= AckSlots
    OBVIOUS
  <2>3. check \in [at : {"off", "store", "read"}, count : 0 .. AckSlots,
                   key : Keys \cup {None}]
    OBVIOUS
  <2>4. QED
    BY <2>1, <2>2, <2>3 DEF TypeOK
<1>2. CheckInv /\ CallInv /\ ApartInv
  BY DEF CheckInv, CallInv, ApartInv
<1>3. AckedInv /\ UplinkInv /\ FiredInv /\ SharedInv
  BY DEF AckedInv, UplinkInv, FiredInv, SharedInv
<1>4. AckMeansHeard /\ KeyErrorIsShared /\ EntryHasCaller
  BY DEF AckMeansHeard, KeyErrorIsShared, EntryHasCaller
<1>5. QED
  BY <1>1, <1>2, <1>3, <1>4 DEF IInv

LEMMA StutterInv == IInv /\ UNCHANGED vars => IInv'
BY DEF IInv, TypeOK, CheckInv, CallInv, ApartInv, AckedInv, UplinkInv, FiredInv, SharedInv,
       AckMeansHeard, KeyErrorIsShared, EntryHasCaller, Vouched, Calling, vars, caller, fc

LEMMA StepInv == IInv /\ [Next]_vars => IInv'
<1> SUFFICES ASSUME IInv, Next PROVE IInv'
  BY StutterInv
<1>1. CASE \E t \in Threads, f \in Frames : Call(t, f)
  BY <1>1, CallStep
<1>2. CASE \E t \in Threads : Proceed(t)
  BY <1>2, AgainStep, WriteStep, WriteFailsStep, LookStep, WaitStep, PopStep DEF Proceed
<1>3. CASE \E k \in Keys : Receive(k) \/ Lose(k)
  BY <1>3, ReceiveStep, LoseStep
<1>4. CASE DataAnl \/ Refuse
  BY <1>4, DataAnlStep, RefuseStep
<1>5. CASE CheckLoad \/ CheckStore \/ CheckSend
  BY <1>5, CheckLoadStep, CheckStoreStep, CheckSendStep
<1>6. QED
  BY <1>1, <1>2, <1>3, <1>4, <1>5, ConstantsAssumption DEF Next

\* The inductive invariant holds of every behaviour of the channel: what may set the
\* event of a call (dictionary, stack, wire) vouches for the call's success.
THEOREM Invariance == Spec => []IInv
BY InitInv, StepInv, PTL DEF Spec

\* Every reachable state is well typed: at most 32 keys are stacked, and no interrupt
\* between the steps of CheckAck makes it read outside of them.
THEOREM TypeCorrect == Spec => []TypeOK
<1>1. IInv => TypeOK
  BY DEF IInv
<1>2. QED
  BY <1>1, Invariance, PTL

\* send_data_to_fc returns as acknowledged only if the controller carried the frame
\* out during the call, unless the key was due already or another call used it.
THEOREM SuccessIsEarned == Spec => []AckMeansHeard
<1>1. IInv => AckMeansHeard
  BY DEF IInv
<1>2. QED
  BY <1>1, Invariance, PTL

\* Without a concurrent call of the same key, send_data_to_fc never fails on its own
\* dictionary (lines 483 to 488).
THEOREM KeyErrors == Spec => []KeyErrorIsShared
<1>1. IInv => KeyErrorIsShared
  BY DEF IInv
<1>2. QED
  BY <1>1, Invariance, PTL

\* What is left in the dictionary was left by a call that raised (line 456 registers
\* before line 457 tests the retries).
THEOREM Entries == Spec => []EntryHasCaller
<1>1. IInv => EntryHasCaller
  BY DEF IInv
<1>2. QED
  BY <1>1, Invariance, PTL
===============================================================================

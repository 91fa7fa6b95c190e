------------------------------- MODULE TraceLog -------------------------------
(***************************************************************************)
(* What PoseTraceBuffer promises a ground program: its copy of a stream of *)
(* pose samples has every sample, under its own number, except those it    *)
(* was told are gone, and only an overwritten sample is ever gone.         *)
(***************************************************************************)
EXTENDS Naturals

CONSTANTS Sessions, Capacity

VARIABLES
    recorded,  \* how many samples each stream has been given
    copy       \* the stream a ground program follows, as far as it has come

Blank(s) == [session |-> s, upto |-> 0, got |-> {}, lost |-> {}]

Init ==
    /\ recorded = [s \in Sessions |-> 0]
    /\ copy = Blank(0)

Record(s) ==
    /\ recorded' = [recorded EXCEPT ![s] = @ + 1]
    /\ UNCHANGED copy

\* The ground learns of some of the samples that follow the last one it knows of,
\* or of a stream it did not follow, and of the others that they are gone.
Receive(s) ==
    LET old == IF s = copy.session THEN copy ELSE Blank(s)
    IN \E upto \in old.upto .. recorded[s] :
       \E got \in SUBSET ((old.upto + 1) .. upto) :
          LET gone == ((old.upto + 1) .. upto) \ got
          IN /\ \A n \in gone : n + Capacity <= recorded[s]
             /\ copy' = [session |-> s, upto |-> upto,
                         got |-> old.got \cup got, lost |-> old.lost \cup gone]
             /\ UNCHANGED recorded

Forget ==
    /\ copy' = Blank(0)
    /\ UNCHANGED recorded

Next ==
    \/ \E s \in Sessions : Record(s) \/ Receive(s)
    \/ Forget

Spec == Init /\ [][Next]_<<recorded, copy>>
===============================================================================

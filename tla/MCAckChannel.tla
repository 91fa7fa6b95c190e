---------------------------- MODULE MCAckChannel ----------------------------
(* Small instances of AckChannel for TLC.                                    *)
EXTENDS AckChannel, TLC

CONSTANTS t1, t2, f1, f2, f3, k1, k2, e1, e2, e3, e4

TwoThreads == {t1, t2}
ThreeFrames == {f1, f2, f3}
TwoKeys == {k1, k2}

\* f1 and f2 have the same sum.
Sums == [f \in ThreeFrames |-> IF f = f3 THEN k2 ELSE k1]
FourEvents == {e1, e2, e3, e4}
EventSymmetry == Permutations(FourEvents)

OneAndTwo == [t \in TwoThreads |-> IF t = t1 THEN {f1} ELSE {f2, f3}]
=============================================================================

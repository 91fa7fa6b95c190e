---------------------------- MODULE CommandLedger ----------------------------
(***************************************************************************)
(* What the airborne FleetBus endpoint promises about every request it     *)
(* receives, however often the radio brings it (details.md, section 7): it *)
(* is judged once, every reply to it carries that one verdict, and only an *)
(* accepted one is handed to the mission, once.                            *)
(***************************************************************************)
EXTENDS Naturals

CONSTANTS
    Id,        \* requests: a ground session and a sequence number
    Verdicts,  \* "accepted" and the other verdicts a reply may carry
    None       \* no verdict yet

VARIABLES
    verdict,   \* the verdict on each request
    told,      \* the verdicts that replies to it have carried
    taken      \* how often the mission has taken it

LInit ==
    /\ verdict = [i \in Id |-> None]
    /\ told = [i \in Id |-> {}]
    /\ taken = [i \in Id |-> 0]

Judge(i, v) ==
    /\ verdict[i] = None
    /\ verdict' = [verdict EXCEPT ![i] = v]
    /\ UNCHANGED <<told, taken>>

Tell(i) ==
    /\ verdict[i] # None
    /\ told' = [told EXCEPT ![i] = @ \cup {verdict[i]}]
    /\ UNCHANGED <<verdict, taken>>

Take(i) ==
    /\ verdict[i] = "accepted"
    /\ taken[i] = 0
    /\ taken' = [taken EXCEPT ![i] = 1]
    /\ UNCHANGED <<verdict, told>>

LNext ==
    \E i \in Id :
        \/ \E v \in Verdicts : Judge(i, v)
        \/ Tell(i)
        \/ Take(i)

LSpec == LInit /\ [][LNext]_<<verdict, told, taken>>
==============================================================================

---------------------------- MODULE StartAgreement -----------------------------
(***************************************************************************)
(* What the cars and the operator may rely on: a start is the end of one   *)
(* dialogue, held with one car, in one order.  A run is bound, its doors   *)
(* are closed, the map is made once and stays as it is, and the start is   *)
(* taken for the task that car has saved, if the operator allows starts.   *)
(* What has been reached is never undone or done for another car; a STOP   *)
(* ends the dialogue for good, but for a restart of FAST-LIO that was      *)
(* about to be called when STOP came: that one call may still be made, and *)
(* leads nowhere.  What a car is told is so.                               *)
(***************************************************************************)
EXTENDS Naturals

CONSTANTS Sessions, Runs, Tasks, NoRun, NoTask

VARIABLES
    allow,      \* the operator allows starts
    stage,      \* how far the dialogue has come
    run,        \* the run it is about, and its car
    doors,      \* the payload doors
    task,       \* the task saved last
    session,    \* the car that saved it
    restarts,   \* how often FAST-LIO was restarted
    cancelled,  \* a STOP has ended the dialogue
    committed,  \* a restart is about to be called
    told        \* what the cars were told

avars == <<allow, stage, run, doors, task, session, restarts, cancelled,
           committed, told>>

Said(cmd, s, n) == [cmd |-> cmd, session |-> s, id |-> n]

AInit ==
    /\ allow \in BOOLEAN
    /\ stage = "free"
    /\ run = NoRun
    /\ doors \in {"open", "closed"}
    /\ task = NoTask
    /\ session = 0
    /\ restarts = 0
    /\ cancelled = FALSE
    /\ committed = FALSE
    /\ told = {}

Bind(s, n) ==
    /\ stage = "free" /\ ~cancelled
    /\ stage' = "bound"
    /\ run' = [id |-> n, session |-> s]
    /\ UNCHANGED <<allow, doors, task, session, restarts, cancelled, committed, told>>

MoveDoors ==
    /\ stage = "bound"
    /\ doors' \in {"open", "closed", "unsure"}
    /\ UNCHANGED <<allow, stage, run, task, session, restarts, cancelled, committed, told>>

Close ==
    /\ stage = "bound" /\ ~cancelled
    /\ doors = "closed"
    /\ stage' = "closed"
    /\ told' = told \cup {Said("close", run.session, run.id)}
    /\ UNCHANGED <<allow, run, doors, task, session, restarts, cancelled, committed>>

\* The last moment at which a STOP keeps FAST-LIO from being restarted.
Commit ==
    /\ stage = "closed" /\ ~cancelled
    /\ restarts = 0 /\ ~committed
    /\ committed' = TRUE
    /\ UNCHANGED <<allow, stage, run, doors, task, session, restarts, cancelled, told>>

\* Cancelled or not.
Restart ==
    /\ stage = "closed"
    /\ committed
    /\ committed' = FALSE
    /\ restarts' = 1
    /\ UNCHANGED <<allow, stage, run, doors, task, session, cancelled, told>>

Withdraw ==
    /\ committed
    /\ committed' = FALSE
    /\ UNCHANGED <<allow, stage, run, doors, task, session, restarts, cancelled, told>>

MakeMap ==
    /\ stage = "closed" /\ ~cancelled /\ ~committed
    /\ stage' = "mapped"
    /\ UNCHANGED <<allow, run, doors, task, session, restarts, cancelled, committed, told>>

\* A task is replaced as a whole, never altered under its number.
Save(s, t) ==
    /\ stage # "started" /\ ~cancelled
    /\ ~(task.id = t.id /\ session = s)
    /\ task' = t
    /\ session' = s
    /\ UNCHANGED <<allow, stage, run, doors, restarts, cancelled, committed, told>>

TakeStart ==
    /\ stage = "mapped" /\ ~cancelled
    /\ allow
    /\ task # NoTask
    /\ session = run.session
    /\ stage' = "started"
    /\ told' = told \cup {Said("start", session, task.id)}
    /\ UNCHANGED <<allow, run, doors, task, session, restarts, cancelled, committed>>

\* A map that was ready is no longer; a start that was taken stays taken.
Cancel ==
    /\ cancelled' = TRUE
    /\ stage' = IF stage = "mapped" THEN "closed" ELSE stage
    /\ told' \in {told, told \cup {[cmd |-> "stop"]}}
    /\ UNCHANGED <<allow, run, doors, task, session, restarts, committed>>

\* A car that asks again is told what is so.
Repeat(s, n) ==
    /\ \/ /\ stage \in {"closed", "mapped"}
          /\ run = [id |-> n, session |-> s]
          /\ told' = told \cup {Said("close", s, n)}
       \/ /\ stage = "mapped"
          /\ run = [id |-> n, session |-> s]
          /\ told' = told \cup {Said("remap", s, n)}
       \/ /\ stage = "started"
          /\ session = s /\ task.id = n
          /\ told' = told \cup {Said("start", s, n)}
    /\ UNCHANGED <<allow, stage, run, doors, task, session, restarts, cancelled, committed>>

ANext ==
    \/ \E s \in Sessions :
          \/ \E n \in Runs : Bind(s, n)
          \/ \E t \in Tasks : Save(s, t)
          \/ \E n \in Runs \cup {t.id : t \in Tasks} : Repeat(s, n)
    \/ MoveDoors \/ Close \/ Commit \/ Restart \/ Withdraw \/ MakeMap \/ TakeStart \/ Cancel

ASpec == AInit /\ [][ANext]_avars
==============================================================================

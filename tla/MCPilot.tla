------------------------------- MODULE MCPilot -------------------------------
(* Four pilots: one moves the sticks, one the mode switch, one the switch    *)
(*   for take-off and landing, one the emergency stop; they lose the signal, *)
(*   and a companion commands beside them.                                   *)
EXTENDS Pilot

Still == [link |-> "ok", mode |-> "position", stick |-> "centre",
          switch |-> "middle", stop |-> FALSE]
Lost == [Still EXCEPT !.link = "lost"]
Stop == [Still EXCEPT !.stop = TRUE]

MCScenes == {
    [inputs |-> {Lost} \cup {[Still EXCEPT !.stick = s] : s \in {"centre", "toe_out", "corner"}},
     others |-> {"unlock", "lock"}],
    [inputs |-> {Lost, Still, [Still EXCEPT !.mode = "program"]}, others |-> {"theirs"}],
    [inputs |-> {Lost} \cup {[Still EXCEPT !.switch = s] : s \in {"takeoff", "middle", "land"}},
     others |-> {"theirs"}],
    [inputs |-> {Still, Stop, [Stop EXCEPT !.link = "failsafe"]},
     others |-> {"unlock"}]}
==============================================================================

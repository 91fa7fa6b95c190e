----------------------------- MODULE MCLxCommand -----------------------------
(* Small instances of LxCommand for TLC.                                    *)
EXTENDS LxCommand

CONSTANTS land, mode, user

NoCmds == {}
MainCmds == {land}
TimCmds == {mode}
TwoModes == {mode, land}
UserCmds == {user}
==============================================================================

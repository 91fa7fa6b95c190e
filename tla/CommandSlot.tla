----------------------------- MODULE CommandSlot ------------------------------
(***************************************************************************)
(* What the users of the command link may rely on: the slot has one holder *)
(* at a time.  It takes a command when it is free, and is free again when  *)
(* the inertial unit has confirmed the command, or when it was transmitted *)
(* Limit times.  A confirmed command is one the unit has heard, of this    *)
(* holder and not of an earlier one.                                       *)
(*                                                                         *)
(* The promise ends when two contexts met in the slot (broken).            *)
(***************************************************************************)
EXTENDS Naturals

CONSTANTS Command, None, Limit

VARIABLES
    holder,  \* the command that waits to be confirmed, or None
    tries,   \* its transmissions
    heard,   \* the unit has heard it
    broken

svars == <<holder, tries, heard, broken>>

SInit ==
    /\ holder = None
    /\ tries = 0
    /\ heard = FALSE
    /\ broken = FALSE

Take(c) ==
    /\ holder = None
    /\ holder' = c
    /\ UNCHANGED <<tries, heard, broken>>

Transmit ==
    /\ holder # None
    /\ tries < Limit
    /\ tries' = tries + 1
    /\ UNCHANGED <<holder, heard, broken>>

Hear ==
    /\ holder # None
    /\ tries > 0
    /\ heard' = TRUE
    /\ UNCHANGED <<holder, tries, broken>>

Release ==
    /\ holder' = None
    /\ tries' = 0
    /\ heard' = FALSE
    /\ UNCHANGED broken

Confirm == heard /\ Release

GiveUp == tries = Limit /\ Release

SNext ==
    \/ \E c \in Command : Take(c)
    \/ Transmit \/ Hear
    \/ Confirm \/ GiveUp
    \/ broken'

SSpec == SInit /\ [][SNext]_svars
==============================================================================

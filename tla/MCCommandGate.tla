---------------------------- MODULE MCCommandGate ----------------------------
\* Instances of CommandGate for TLC.
EXTENDS CommandGate
CONSTANTS bob, carol
MCUsers == {bob, carol}
MCTickets == 1..2
=============================================================================

----------------------------- MODULE MCContext -----------------------------
(***************************************************************************)
(* Three threads, the first one and two new ones, on the configurations of *)
(* the ports that switch as they should.  RL78 leaves interrupts masked    *)
(* after a yield (MCContextRl78.cfg shows how).                            *)
(***************************************************************************)
EXTENDS RmpContext, TLC

\* What the theorems of RmpContextProofs ask of a port.
ASSUME PortsAssumption ==
    \A name \in Ports :
       LET p == Port(name) IN /\ Switchable(p) /\ Prompt(p)
                              /\ p \in Masked \/ Reopens(p)
=============================================================================

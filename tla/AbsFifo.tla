------------------------------ MODULE AbsFifo ------------------------------
(***************************************************************************)
(* What the FIFOs promise, alone and as part of message queues: the nodes  *)
(* of a FIFO are read in the order in which they were written, each once,  *)
(* a node is in at most one FIFO, and writing or reading one FIFO does     *)
(* nothing to the others.  Only an empty FIFO can be deleted, and a new    *)
(* one is empty.                                                           *)
(***************************************************************************)
EXTENDS SequencesExt

CONSTANTS Fifo, Node

VARIABLES
    used,   \* the FIFOs that exist
    queue   \* the nodes of each FIFO, in the order in which they were written

Init == used = {} /\ queue = [f \in Fifo |-> <<>>]

Create(f) ==
    /\ f \notin used
    /\ used' = used \cup {f}
    /\ UNCHANGED queue

Delete(f) ==
    /\ f \in used /\ queue[f] = <<>>
    /\ used' = used \ {f}
    /\ UNCHANGED queue

Write(f, n) ==
    /\ f \in used
    /\ \A g \in Fifo : n \notin ToSet(queue[g])
    /\ queue' = [queue EXCEPT ![f] = Append(@, n)]
    /\ UNCHANGED used

Read(f) ==
    /\ f \in used /\ queue[f] # <<>>
    /\ queue' = [queue EXCEPT ![f] = Tail(@)]
    /\ UNCHANGED used

Next == \E f \in Fifo : \/ Create(f) \/ Delete(f) \/ Read(f)
                        \/ \E n \in Node : Write(f, n)
Spec == Init /\ [][Next]_<<used, queue>>
============================================================================

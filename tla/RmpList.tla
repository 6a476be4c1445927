------------------------------ MODULE RmpList ------------------------------
(***************************************************************************)
(* Doubly linked lists with a head (RMP_List_Crt, _Ins, _Del) and the      *)
(* FIFOs made of them (RMP_Fifo_Crt, _Del, _Read, _Write), as operators on *)
(* the memory p that holds their pointers.  The other modules hold a list  *)
(* as a sequence; here it is the pointers the code writes.                 *)
(***************************************************************************)
EXTENDS Integers, SequencesExt

CONSTANTS
    Fifo,       \* FIFOs; a FIFO stands for its list head, too
    Node        \* the nodes that can be put on them

Cell == Fifo \cup Node

ASSUME ListAssumption == Fifo \cap Node = {} /\ IsFiniteSet(Node)

Pointers ==
    [next : [Cell -> Cell], prev : [Cell -> Cell],
     num  : [Fifo -> Nat],          \* Cur_Num
     used : SUBSET Fifo]            \* State is RMP_FIFO_USED

\* RMP_List_Crt, RMP_List_Del and RMP_List_Ins, write by write.
List_Crt(p, h) == [p EXCEPT !.prev[h] = h, !.next[h] = h]

\* Mutant: the backward pointer is not written.
List_Del_Half(p, prv, nxt) == [p EXCEPT !.next[prv] = nxt]

List_Del(p, prv, nxt) == [p EXCEPT !.prev[nxt] = prv, !.next[prv] = nxt]

List_Ins(p, new, prv, nxt) ==
    [p EXCEPT !.prev[nxt] = new, !.next[new] = nxt,
              !.prev[new] = prv, !.next[prv] = new]

\* RMP_Fifo_Crt of a FIFO that is free.
Crt_Fifo(p, f) ==
    [List_Crt(p, f) EXCEPT !.num[f] = 0, !.used = @ \cup {f}]

\* RMP_Fifo_Del of a FIFO that is used and counts no node.
Del_Fifo(p, f) == [p EXCEPT !.used = @ \ {f}]

\* RMP_Fifo_Read of a FIFO that is used and not empty: the first node goes.
Readable(p, f) == f \in p.used /\ p.next[f] # f
Read_Fifo(p, f) ==
    LET n == p.next[f]
    IN  [List_Del(p, p.prev[n], p.next[n]) EXCEPT !.num[f] = @ - 1]

\* Mutant: the node goes to the front.
Write_Fifo_Front(p, f, n) ==
    [List_Ins(p, n, f, p.next[f]) EXCEPT !.num[f] = @ + 1]

\* RMP_Fifo_Write and RMP_Fifo_Write_ISR of a FIFO that is used.
Write_Fifo(p, f, n) ==
    [List_Ins(p, n, p.prev[f], f) EXCEPT !.num[f] = @ + 1]

\* The nodes reached from the head of f by next, up to the head or, should
\* the pointers not lead back to it, up to one more than there are nodes.
Nodes(p, f) ==
    LET path[i \in 0..(Cardinality(Node) + 1)] ==
            IF i = 0 THEN <<f>>
            ELSE LET s == path[i - 1]
                     n == p.next[Last(s)]
                 IN  IF n = f THEN s ELSE Append(s, n)
    IN  Tail(path[Cardinality(Node) + 1])

\* A well-formed list: its pointers lead back to the head, prev is the
\* inverse of next, no node occurs twice, and Cur_Num counts the nodes.
WellFormed(p, f) ==
    LET s == Nodes(p, f)
        ring == <<f>> \o s \o <<f>>
    IN  /\ IsInjective(s) /\ ToSet(s) \subseteq Node
        /\ p.num[f] = Len(s)
        /\ \A i \in 1..(Len(ring) - 1) : /\ p.next[ring[i]] = ring[i + 1]
                                         /\ p.prev[ring[i + 1]] = ring[i]
============================================================================

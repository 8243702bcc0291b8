---------------------------- MODULE BoundedQueue ----------------------------
(***************************************************************************)
(* What fifo.v promises its users: a bounded queue whose accepted writes   *)
(* come out once, in order, and that may gain and lose an entry in the     *)
(* same cycle.  When a request is accepted is left open here.              *)
(***************************************************************************)
EXTENDS Naturals, Sequences

CONSTANTS Data, Capacity

VARIABLE buf

Init == buf = <<>>

Push(d) ==
    /\ Len(buf) < Capacity
    /\ buf' = Append(buf, d)

Pop ==
    /\ buf # <<>>
    /\ buf' = Tail(buf)

PopPush(d) ==
    /\ buf # <<>> /\ Len(buf) < Capacity
    /\ buf' = Append(Tail(buf), d)

Clear == buf' = <<>>

Next ==
    \/ \E d \in Data : Push(d) \/ PopPush(d)
    \/ Pop
    \/ Clear

Spec == Init /\ [][Next]_buf
=============================================================================

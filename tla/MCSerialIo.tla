----------------------------- MODULE MCSerialIo -----------------------------
(* Two threads, three bytes, the first two of them the end of a line; a    *)
(* line that is begun at the second is shorter than the delimiter.  The    *)
(* inter-byte time-out is off for one read of two bytes, not for another.  *)
EXTENDS SerialIo, TLC

CONSTANTS t1, t2

C(o, n, i) == [op |-> o, size |-> n, interval |-> i]

MCCalls ==
    t1 :> {C("read", 2, 2), C("read", 2, 1), C("readlines", 3, 1), C("write", 2, 2),
           C("flush", 1, 2), C("close", 1, 2)}
 @@ t2 :> {C("readline", 3, 1), C("flushInput", 1, 2), C("flushOutput", 1, 2),
           C("write", 2, 2), C("setPort", 1, 2)}

MCStream == <<"r", "n", "a">>

MCEol == <<"r", "n">>
=============================================================================

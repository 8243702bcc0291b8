------------------------------ MODULE MemStage ------------------------------
(***************************************************************************)
(* The memory side: the part of the EX/MEM register (ex_mem.v) a load or   *)
(* store uses, the MEM stage (mem.v) that turns it into a request to       *)
(* memory_control, and the stall priorities (control.v).                   *)
(***************************************************************************)
EXTENDS MemoryControl

VARIABLE exmem    \* [op, func3, addr, data]: the instruction in MEM

Func3 == {"B", "H", "W", "BU", "HU"}

MemOp == {"LOAD", "STORE", "OTHER"}

Bubble == [op |-> "OTHER", func3 |-> "B", addr |-> 0, data |-> ZeroWord]

Width(func3) == IF func3 = "W" THEN 4 ELSE IF func3 \in {"H", "HU"} THEN 2 ELSE 1

IsMemOp(x) == x.op \in {"LOAD", "STORE"}

\* store_data_i, store_data_i[15:0] or store_data_i[7:0], zero-extended.
StoreData(x) == [k \in 0..3 |-> IF k < Width(x.func3) THEN x.data[k] ELSE Zero]

\* The addresses a load or store covers.
Span(x) == {RamIdx(x.addr + k) : k \in 0 .. Width(x.func3) - 1}

-----------------------------------------------------------------------------
(* Combinational wires, while rst is low.                                  *)

\* The stage asks for a stall until memory_control reports it is done.
MemStallReq == IsMemOp(exmem) /\ ~mem_enable

\* Mutant: the request does not wait for a fetch under way.
MutMemReq == LET en == MemStallReq IN
    [en |-> en,
     wr |-> en /\ exmem.op = "STORE",
     addr |-> IF en THEN exmem.addr ELSE 0,
     width |-> IF en THEN Width(exmem.func3) ELSE 0,
     data |-> IF en /\ exmem.op = "STORE" THEN StoreData(exmem) ELSE ZeroWord]

MemReq == LET en == MemStallReq /\ ~mem_busy IN
    [en |-> en,
     wr |-> en /\ exmem.op = "STORE",
     addr |-> IF en THEN exmem.addr ELSE 0,
     width |-> IF en THEN Width(exmem.func3) ELSE 0,
     data |-> IF en /\ exmem.op = "STORE" THEN StoreData(exmem) ELSE ZeroWord]

\* Mutant: a stall asked for by ID outranks the one MEM asks for.
MutStallDepth(idStall, ifStall) ==
    IF idStall THEN 3 ELSE IF MemStallReq THEN 5 ELSE IF ifStall THEN 2 ELSE 0

\* control.v's five stall bits are always a run of ones from bit 0; the
\* depth is the length of the run.
StallDepth(idStall, ifStall) ==
    IF MemStallReq THEN 5 ELSE IF idStall THEN 3 ELSE IF ifStall THEN 2 ELSE 0

Stalled(bit, depth) == bit < depth
=============================================================================

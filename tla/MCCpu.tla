------------------------------- MODULE MCCpu -------------------------------
(***************************************************************************)
(* Two-bit bytes, a memory of 32 bytes: five instruction slots and twelve  *)
(* bytes of data.  The programs are all ways to fill the first slots from  *)
(* a pool chosen for its hazards; the slots left over subtract, so that    *)
(* they read what is still in flight, and the fifth jumps back to the      *)
(* first.  From the second time round the cache feeds an instruction to    *)
(* the pipeline at every edge.  All bytes are even, hence all values.      *)
(***************************************************************************)
EXTENDS Cpu, TLC

CONSTANTS Slots,    \* free instruction slots of a program
          Pool      \* instruction words that may fill them

I(op, f, alt, rd, rs1, rs2, im) ==
    [opcode |-> op, func3 |-> f, alt |-> alt, rd |-> rd, rs1 |-> rs1, rs2 |-> rs2,
     imm |-> im]

Tail == 10
Loop == 170

MCDecode ==
       2 :> I("OP_IMM", "ADD_SUB", FALSE, 1, 0, 3, 20)    \* addi x1, x0, 20
    @@ 8 :> I("OP_IMM", "ADD_SUB", FALSE, 2, 1, 1, 254)   \* addi x2, x1, -2
   @@ 10 :> I("OP",     "ADD_SUB", TRUE,  1, 2, 1, 0)     \* sub  x1, x2, x1
   @@ 32 :> I("LOAD",   "W",   FALSE, 1, 0, 2, 20)        \* lw   x1, 20(x0)
   @@ 34 :> I("LOAD",   "B",   FALSE, 2, 1, 0, 1)         \* lb   x2, 1(x1)
   @@ 40 :> I("STORE",  "B",   FALSE, 2, 0, 1, 22)        \* sb   x1, 22(x0)
   @@ 42 :> I("STORE",  "W",   FALSE, 0, 0, 2, 24)        \* sw   x2, 24(x0)
  @@ 128 :> I("BRANCH", "BEQ", FALSE, 1, 1, 2, 8)         \* beq  x1, x2, +8
  @@ 130 :> I("BRANCH", "BLT", FALSE, 1, 2, 1, 252)       \* blt  x2, x1, -4
  @@ 136 :> I("JAL",    "NON", FALSE, 1, 0, 2, 8)         \* jal  x1, +8
  @@ 138 :> I("JALR",   "NON", FALSE, 2, 1, 0, 8)         \* jalr x2, 8(x1)
  @@ 160 :> I("LUI",    "NON", FALSE, 2, 1, 2, 16)        \* lui  x2, 16
  @@ 162 :> I("AUIPC",  "NON", FALSE, 1, 2, 0, 32)        \* auipc x1, 32
  @@ 168 :> I("LOAD",   "HU",  FALSE, 2, 2, 1, 20)        \* lhu  x2, 20(x2)
 @@ Loop :> I("JAL",    "NON", FALSE, 0, 0, 0, 240)       \* j    -16

\* addi x0, x1, 4
MCZeroDecode ==
    [MCDecode EXCEPT ![162] = I("OP_IMM", "ADD_SUB", FALSE, 0, 1, 3, 4)]

MCInitRegs == [r \in Reg |-> IF r = 0 THEN 6 ELSE 4 * r]

MCData(a) == IF a \in {21, 23, 24} THEN 2 ELSE 0

SlotWord(p, slot) == CASE slot < Slots -> p[slot] [] slot = 4 -> Loop [] OTHER -> Tail

Image(p) ==
    [a \in Addr |-> IF a >= 20 THEN MCData(a)
                    ELSE (SlotWord(p, a \div 4) \div 4^(a % 4)) % 4]

MCPrograms == {Image(p) : p \in [0 .. Slots - 1 -> Pool]}
=============================================================================

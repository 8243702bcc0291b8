-------------------------------- MODULE Isa --------------------------------
(***************************************************************************)
(* The RV32I machine the README says the CPU is: one instruction after     *)
(* another, each reading and writing registers and a byte-addressed        *)
(* little-endian memory.  Bytes are ByteBits wide and values XLEN bits,    *)
(* four bytes; addresses wrap at the size of the memory.                   *)
(***************************************************************************)
EXTENDS Integers, FiniteSets, RvAlu

CONSTANTS ByteBits, MemSize,
          RegNum,      \* 32 registers in the source
          Decode       \* from instruction words (numbers) to instructions

VARIABLES pc, regs, mem

isaVars == <<pc, regs, mem>>

ByteOf(v, k) == (v \div 2^(ByteBits * k)) % 2^ByteBits

\* The little-endian number in n bytes of memory.
Stored(a, n) ==
    LET part(k) == IF k < n THEN mem[(a + k) % MemSize] * 2^(ByteBits * k) ELSE 0
    IN  part(0) + part(1) + part(2) + part(3)

\* A value of n bytes widened to XLEN bits by copies of its sign bit.
SignExtend(v, n) ==
    IF v >= 2^(ByteBits * n - 1) THEN v + 2^XLEN - 2^(ByteBits * n) ELSE v

Size(func3) == CASE func3 \in {"B", "BU"} -> 1 [] func3 \in {"H", "HU"} -> 2 [] OTHER -> 4

\* Register x0 is zero for ever.
Written(rd, v) == IF rd = 0 THEN regs ELSE [regs EXCEPT ![rd] = v]

MemAfterStore(a, n, v) ==
    [b \in DOMAIN mem |-> LET k == (b - a) % MemSize IN
                          IF k < n THEN ByteOf(v, k) ELSE mem[b]]

\* The instruction at pc does what RV32I says.
Step ==
    LET i   == Decode[Stored(pc, 4)]
        a   == regs[i.rs1]
        b   == regs[i.rs2]
        ea  == (a + i.imm) % 2^XLEN
        seq == (pc + 4) % MemSize
        rel == ((pc + i.imm) % 2^XLEN) % MemSize
        raw == Stored(ea, Size(i.func3))
    IN
    /\ Stored(pc, 4) \in DOMAIN Decode
    /\ CASE i.opcode = "LUI" ->
              pc' = seq /\ regs' = Written(i.rd, i.imm) /\ UNCHANGED mem
         [] i.opcode = "AUIPC" ->
              pc' = seq /\ regs' = Written(i.rd, (pc + i.imm) % 2^XLEN) /\ UNCHANGED mem
         [] i.opcode = "JAL" ->
              pc' = rel /\ regs' = Written(i.rd, pc + 4) /\ UNCHANGED mem
         [] i.opcode = "JALR" ->
              /\ pc' = (ea - (ea % 2)) % MemSize
              /\ regs' = Written(i.rd, pc + 4) /\ UNCHANGED mem
         [] i.opcode = "BRANCH" ->
              /\ pc' = IF RvTaken(i.func3, a, b) THEN rel ELSE seq
              /\ UNCHANGED <<regs, mem>>
         [] i.opcode = "OP_IMM" ->
              /\ pc' = seq /\ UNCHANGED mem
              /\ regs' = Written(i.rd, RvOpImm(i.func3, i.alt, a, i.imm))
         [] i.opcode = "OP" ->
              /\ pc' = seq /\ UNCHANGED mem
              /\ regs' = Written(i.rd, RvOp(i.func3, i.alt, a, b))
         [] i.opcode = "LOAD" ->
              /\ pc' = seq /\ UNCHANGED mem
              /\ regs' = Written(i.rd, IF i.func3 \in {"B", "H"}
                                       THEN SignExtend(raw, Size(i.func3)) ELSE raw)
         [] i.opcode = "STORE" ->
              /\ pc' = seq /\ UNCHANGED regs
              /\ mem' = MemAfterStore(ea, Size(i.func3), b)

\* RV32I does not say what a word that is no instruction does.
Undefined == Stored(pc, 4) \notin DOMAIN Decode

\* A reset starts the program again.  It may take back what the last two
\* instructions did: the write to a register, or bytes of a store.
Restart ==
    /\ pc' = 0
    /\ Cardinality({r \in DOMAIN regs : regs'[r] # regs[r]}) <= 2
    /\ Cardinality({a \in DOMAIN mem : mem'[a] # mem[a]}) <= 4

Init == pc = 0 /\ regs[0] = 0

Next == Step \/ Undefined \/ Restart

\* Without resets.
RunSpec == Init /\ [][Step \/ Undefined]_isaVars

Spec == Init /\ [][Next]_isaVars
=============================================================================

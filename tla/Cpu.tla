-------------------------------- MODULE Cpu --------------------------------
(***************************************************************************)
(* The whole pipeline as cpu.v wires it: the fetch side (InstrFetch), the  *)
(* registers IF/ID, ID/EX, EX/MEM and MEM/WB, decoding with forwarding and *)
(* the load-use stall (id.v), execution (ex.v), the MEM stage (MemStage),  *)
(* memory_control and the register file.  One step is one clock edge.      *)
(*                                                                         *)
(* A byte has ByteBits bits and a value XLEN, 8 and 32 in the source.      *)
(* Field extraction is in Decoder: here Decode maps the instruction words  *)
(* that occur to their fields, immediates already extended, and an         *)
(* instruction has all its register fields whether it uses them or not,    *)
(* like the bits of the source.                                            *)
(***************************************************************************)
EXTENDS InstrFetch, MemStage, Alu

CONSTANTS ByteBits,
          RegNum,      \* registers, 32 in the source
          Decode,      \* from instruction words (numbers) to instructions
          Programs,    \* contents of the RAM at power-up
          InitRegs     \* contents of the register file at power-up

Reg == 0 .. RegNum - 1

Opcode == {"LUI", "AUIPC", "JAL", "JALR", "BRANCH", "LOAD", "STORE",
           "OP_IMM", "OP"}

ASSUME ByteBitsAssumption ==
    /\ ByteBits \in Nat \ {0} /\ Byte = 0 .. 2^ByteBits - 1 /\ Zero = 0
    /\ XLEN = 4 * ByteBits
\* An address and the one after it are values.
ASSUME LinkAssumption == MemSize + 4 <= 2^XLEN
ASSUME ProgramAssumption == Programs \subseteq [Addr -> Byte]
ASSUME RegsAssumption ==
    /\ RegNum \in Nat \ {0}
    /\ InitRegs \in [Reg -> Value]
    /\ \A w \in DOMAIN Decode :
           Decode[w].rd \in Reg /\ Decode[w].rs1 \in Reg /\ Decode[w].rs2 \in Reg
\* An instruction has an operation of RV32I; the word of zeros is none.
ASSUME DecodeAssumption ==
    /\ 0 \notin DOMAIN Decode
    /\ \A w \in DOMAIN Decode :
        /\ Decode[w].opcode \in Opcode /\ Decode[w].imm \in Value
        /\ Decode[w].opcode = "LOAD" => Decode[w].func3 \in Func3
        /\ Decode[w].opcode = "STORE" => Decode[w].func3 \in {"B", "H", "W"}
        /\ Decode[w].opcode = "BRANCH" =>
               Decode[w].func3 \in {"BEQ", "BNE", "BLT", "BGE", "BLTU", "BGEU"}
        /\ Decode[w].opcode \in {"OP", "OP_IMM"} =>
               Decode[w].func3 \in Func3Op /\ Decode[w].alt \in BOOLEAN

VARIABLES
    ifid,      \* [pc, inst]: IF/ID register
    idex,      \* ID/EX register: the decoded instruction with its operands
    exmemWb,   \* [wreg, wd, wdata]: the rest of the EX/MEM register
    memwb,     \* [wreg, wd, wdata]: MEM/WB register
    regs       \* register file

pipeVars == <<ifid, idex, exmemWb, memwb, regs>>
vars == <<mcVars, ramVars, pcVars, cacheVars, exmem, pipeVars>>

NoInst == [pc |-> 0, inst |-> ZeroWord]
NoOp == [opcode |-> "NON", func3 |-> "NON", alt |-> FALSE, imm |-> 0, pc |-> 0,
         reg1 |-> 0, reg2 |-> 0, wd |-> 0, wreg |-> FALSE,
         br_addr |-> 0, br_offset |-> 0]
NoWrite == [wreg |-> FALSE, wd |-> 0, wdata |-> 0]

\* A word as a number, and a number as a word.
Number(w) == w[0] + w[1] * 2^ByteBits + w[2] * 2^(2 * ByteBits) + w[3] * 2^(3 * ByteBits)
AsWord(v) == [k \in 0..3 |-> (v \div 2^(ByteBits * k)) % 2^ByteBits]

\* The address lines that reach the RAM.
AddrOf(v) == Wrap(v) % MemSize

-----------------------------------------------------------------------------
(* EX stage.                                                               *)

IfLoad == idex.opcode = "LOAD"

Ans == CASE idex.opcode \in {"JAL", "JALR"}   -> Wrap(idex.pc + 4)
         [] idex.opcode = "LUI"               -> idex.imm
         [] idex.opcode = "AUIPC"             -> Wrap(idex.imm + idex.pc)
         [] idex.opcode = "OP_IMM"            -> AluOpImm(idex.func3, idex.alt, idex.reg1, idex.imm)
         [] idex.opcode = "OP"                -> AluOp(idex.func3, idex.alt, idex.reg1, idex.reg2)
         [] idex.opcode \in {"LOAD", "STORE"} -> Wrap(idex.reg1 + idex.imm)
         [] OTHER -> 0

ExJump == \/ idex.opcode \in {"JAL", "JALR"}
          \/ idex.opcode = "BRANCH" /\ BranchTaken(idex.func3, idex.reg1, idex.reg2)

PcJump == AddrOf(idex.br_addr + idex.br_offset)

\* What EX hands to MEM: the request, and the write-back.
ExRequest ==
    IF idex.opcode \in {"LOAD", "STORE"}
    THEN [op |-> idex.opcode, func3 |-> idex.func3, addr |-> AddrOf(Ans),
          data |-> IF idex.opcode = "STORE" THEN AsWord(idex.reg2) ELSE ZeroWord]
    ELSE Bubble

ExWrite == [wreg |-> idex.wreg, wd |-> idex.wd, wdata |-> Ans]

-----------------------------------------------------------------------------
(* MEM stage: the loaded bytes, widened.                                   *)

\* Mutant: the copies of the sign bit run past the register.
MutSignExtend(v, n) == IF v >= 2^(ByteBits * n - 1) THEN v + 2^XLEN ELSE v

SignExtend(v, n) ==
    IF v >= 2^(ByteBits * n - 1) THEN v + 2^XLEN - 2^(ByteBits * n) ELSE v

Extended(func3, v) ==
    IF func3 \in {"B", "H"} THEN SignExtend(v, Width(func3)) ELSE v

MemWrite ==
    [exmemWb EXCEPT !.wdata =
        CASE exmem.op = "LOAD" -> IF mem_enable
                                  THEN Extended(exmem.func3, Number(mem_rdata)) ELSE 0
          [] exmem.op = "STORE" -> 0
          [] OTHER -> @]

-----------------------------------------------------------------------------
(* ID stage: the instruction, its operands, and the load-use stall.        *)

Fields == IF Number(ifid.inst) \in DOMAIN Decode THEN Decode[Number(ifid.inst)]
          ELSE [opcode |-> "NON", func3 |-> "NON", alt |-> FALSE,
                rd |-> 0, rs1 |-> 0, rs2 |-> 0, imm |-> 0]

Reads1 == Fields.opcode \in {"JALR", "OP_IMM", "OP", "LOAD", "STORE", "BRANCH"}
Reads2 == Fields.opcode \in {"OP", "STORE", "BRANCH"}
Writes == Fields.opcode \in {"LUI", "AUIPC", "JAL", "JALR", "OP_IMM", "OP", "LOAD"}

LoadUse(r) == IfLoad /\ idex.wreg /\ idex.wd = r /\ idex.wd # 0

IdStallReq == LoadUse(Fields.rs1) \/ LoadUse(Fields.rs2)

\* regfile.v: x0 reads zero, and the value being written back is seen.
RegRead(r) == IF r = 0 THEN 0
              ELSE IF memwb.wreg /\ memwb.wd = r THEN memwb.wdata
              ELSE regs[r]

\* The youngest write to r that is still in the pipeline, or the register.
Forward(r) ==
    IF ExWrite.wreg /\ ExWrite.wd = r THEN ExWrite.wdata
    ELSE IF MemWrite.wreg /\ MemWrite.wd = r THEN MemWrite.wdata
    ELSE RegRead(r)

\* reg1_o compares register numbers only; reg2_o also asks that they not be 0.
Operand1 == IF LoadUse(Fields.rs1) \/ ~Reads1 THEN 0 ELSE Forward(Fields.rs1)
Operand2 == IF LoadUse(Fields.rs2) \/ ~Reads2 \/ Fields.rs2 = 0 THEN 0
            ELSE Forward(Fields.rs2)

Decoded ==
    [opcode |-> Fields.opcode, func3 |-> Fields.func3, alt |-> Fields.alt,
     imm |-> Fields.imm, pc |-> ifid.pc, reg1 |-> Operand1, reg2 |-> Operand2,
     wd |-> Fields.rd, wreg |-> Writes,
     br_addr |-> CASE Fields.opcode \in {"JAL", "BRANCH"} -> ifid.pc
                   [] Fields.opcode = "JALR" -> Operand1
                   [] OTHER -> 0,
     br_offset |-> IF Fields.opcode \in {"JAL", "JALR", "BRANCH"} THEN Fields.imm ELSE 0]

-----------------------------------------------------------------------------
(* Clocked blocks.                                                         *)

Depth == StallDepth(IdStallReq, IfStallReq)

\* Mutant: a jump is taken while MEM holds EX back, and lost.
MutIfJump == ExJump

IfJump == ExJump /\ ~Stalled(3, Depth)

IfIdTick ==
    ifid' = IF IfJump \/ (Stalled(1, Depth) /\ ~Stalled(2, Depth)) THEN NoInst
            ELSE IF Stalled(1, Depth) THEN ifid
            ELSE [pc |-> InstAddr, inst |-> IF FetchDone THEN FetchedInst ELSE ZeroWord]

IdExTick ==
    idex' = IF IfJump \/ (Stalled(2, Depth) /\ ~Stalled(3, Depth)) THEN NoOp
            ELSE IF Stalled(2, Depth) THEN idex ELSE Decoded

ExMemTick ==
    IF Stalled(3, Depth) THEN UNCHANGED <<exmem, exmemWb>>
    ELSE exmem' = ExRequest /\ exmemWb' = ExWrite

MemWbTick == memwb' = IF Stalled(4, Depth) THEN NoWrite ELSE MemWrite

RegTick == regs' = IF memwb.wreg /\ memwb.wd # 0
                   THEN [regs EXCEPT ![memwb.wd] = memwb.wdata] ELSE regs

\* Everything but memory_control.
Advance ==
    /\ PcTick(IfJump, PcJump, Stalled(0, Depth)) /\ CacheTick
    /\ RamTick(InstReq, MemReq)
    /\ IfIdTick /\ IdExTick /\ ExMemTick /\ MemWbTick /\ RegTick

ClockAbort     == Abort(MemReq, IfJump) /\ Advance
ClockReadFirst == ~Aborts(MemReq, IfJump) /\ ReadFirst(InstReq, MemReq) /\ Advance
ClockReadNext  == ~Aborts(MemReq, IfJump) /\ ReadNext(InstReq, MemReq) /\ Advance
ClockReadLast  == ~Aborts(MemReq, IfJump) /\ ReadLast(InstReq, MemReq) /\ Advance
ClockWrite     == ~Aborts(MemReq, IfJump) /\ WriteByte(InstReq, MemReq) /\ Advance
ClockIdle      == ~Aborts(MemReq, IfJump) /\ Idle(InstReq, MemReq) /\ Advance

Clock == \/ ClockAbort \/ ClockReadFirst \/ ClockReadNext
         \/ ClockReadLast \/ ClockWrite \/ ClockIdle

\* An edge with rdy_in low: rst = rst_in || !rdy_in, so all but the register
\* file and the RAM is reset.
Pause ==
    /\ Cleared /\ CacheReset /\ PcReset
    /\ ifid' = NoInst /\ idex' = NoOp
    /\ exmem' = Bubble /\ exmemWb' = NoWrite /\ memwb' = NoWrite
    /\ q_addr' = RamIdx(flag)
    /\ UNCHANGED <<regs, ram>>

\* The state after the power-up reset.
Init ==
    /\ flag = 0 /\ mem_busy = FALSE /\ inst_busy = FALSE
    /\ inst_enable = FALSE /\ mem_enable = FALSE
    /\ inst_data = ZeroWord /\ mem_rdata = ZeroWord /\ l_data = ZeroWord
    /\ ram \in Programs /\ q_addr = 0
    /\ pc_o = 0 /\ pc_tmp = 0 /\ pc_enable = FALSE
    /\ i_cache_valid = [l \in Line |-> FALSE]
    /\ i_cache_tag = [l \in Line |-> 0]
    /\ i_cache_data = [l \in Line |-> ZeroWord]
    /\ ifid = NoInst /\ idex = NoOp
    /\ exmem = Bubble /\ exmemWb = NoWrite /\ memwb = NoWrite
    /\ regs = InitRegs

Next == Clock \/ Pause

Spec == Init /\ [][Next]_vars

\* Without pauses, and with a clock that ticks.
RunSpec == Init /\ [][Clock]_vars /\ WF_vars(Clock)

-----------------------------------------------------------------------------
(* The machine the pipeline implements: everything that has left EX is     *)
(* taken as done, everything before it as not begun.                       *)

\* The oldest instruction that has not left EX.
OldestPc == IF idex.opcode # "NON" THEN idex.pc
            ELSE IF ifid.inst # ZeroWord THEN ifid.pc
            ELSE IF pc_enable THEN pc_o ELSE 0

After(rf, w) == IF w.wreg /\ w.wd # 0 THEN [rf EXCEPT ![w.wd] = w.wdata] ELSE rf

\* A load in MEM will return what its bytes hold.
PendingWrite ==
    IF exmem.op = "LOAD"
    THEN [exmemWb EXCEPT !.wdata = Extended(exmem.func3, Number(
            [k \in 0..3 |-> IF k < Width(exmem.func3)
                            THEN ram[RamIdx(exmem.addr + k)] ELSE 0]))]
    ELSE exmemWb

\* The cell of x0 in the register file is never written and never read.
CommittedRegs == After(After([regs EXCEPT ![0] = 0], memwb), PendingWrite)

CommittedMem ==
    IF exmem.op = "STORE"
    THEN [a \in Addr |-> LET k == (a - exmem.addr) % MemSize IN
             IF k < Width(exmem.func3) THEN exmem.data[k] ELSE ram[a]]
    ELSE ram

Arch == INSTANCE Isa WITH pc <- OldestPc, regs <- CommittedRegs, mem <- CommittedMem

TypeOK ==
    /\ ifid.pc \in Addr /\ ifid.inst \in Word
    /\ idex.opcode \in Opcode \union {"NON"} /\ idex.wd \in Reg
    /\ {idex.reg1, idex.reg2, idex.imm, idex.br_addr, idex.br_offset} \subseteq Value
    /\ memwb.wd \in Reg /\ memwb.wdata \in Value
    /\ exmemWb.wd \in Reg /\ exmemWb.wdata \in Value
    /\ regs \in [Reg -> Value]

\* The pipeline is the sequential machine: whatever the hazards between the
\* instructions in flight, each one that leaves EX reads the registers and the
\* memory all its predecessors left, and the next one is the one that follows
\* it in the program (cpu.v).
ImplementsIsa == Arch!RunSpec

\* What rdy_in low does at any edge: the program starts again, and at most
\* the last two instructions are taken back.  This is what cpu.v:32 makes of
\* it, not the freeze of "pc, registers, etc." that cpu.v:22 announces.
RestartsIsa == Arch!Spec

\* "full data forwarding" (README.md:8) of rv32i (README.md:5): an operand that
\* names x0 is zero when it enters EX, whatever is in flight.
ZeroReadsZero ==
    ~Stalled(2, Depth) /\ ~IfJump =>
        /\ Fields.rs1 = 0 => Operand1 = 0
        /\ Fields.rs2 = 0 => Operand2 = 0

\* The program never stands still: again and again an instruction leaves EX.
Retires == idex.opcode # "NON" /\ ~Stalled(3, Depth)
KeepsRetiring == []<>Retires
=============================================================================

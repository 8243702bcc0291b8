------------------------------ MODULE AluCheck ------------------------------
(* The logic of the ID and EX stages that keeps no state against the       *)
(* instruction set: the arithmetic, for every operation and every pair of  *)
(* operands, and the decoder.  A step presents operands or an instruction. *)
EXTENDS Alu, RvFormats

CONSTANTS Variants,  \* operations checked, pairs <<func3, alt>>
          Sample     \* instructions decoded

ASSUME VariantsAssumption == Variants \subseteq Func3Op \X BOOLEAN
ASSUME SampleAssumption == \A i \in Sample : i \in Instruction /\ Encodable(i)

Branches == {"BEQ", "BNE", "BLT", "BGE", "BLTU", "BGEU"}

VARIABLES oper, imm, op1, op2,
          inst  \* no instruction or one

checkVars == <<oper, imm, op1, op2, inst>>

Init ==
    /\ oper \in Variants /\ imm \in BOOLEAN /\ op1 = 0 /\ op2 = 0
    /\ inst = {}

Present ==
    /\ inst = {}
    /\ op1' \in Value /\ op2' \in Value
    /\ UNCHANGED <<oper, imm, inst>>

PresentInst ==
    /\ op1 = 0 /\ op2 = 0
    /\ \/ inst = {} /\ \E i \in Sample : inst' = {i}
       \/ inst # {} /\ inst' = {}
    /\ UNCHANGED <<oper, imm, op1, op2>>

Next == Present \/ PresentInst

Spec == Init /\ [][Next]_checkVars

\* sra and srai of a negative value.
NegativeShift == oper = <<"SRL_SRA", TRUE>> /\ Signed(op1) < 0

\* Every arithmetic and logic instruction writes the value RV32I defines
\* (ex.v, OP_OP and OP_OP_IMM).
Rv32iResult ==
    IF imm THEN AluOpImm(oper[1], oper[2], op1, op2) = Rv!RvOpImm(oper[1], oper[2], op1, op2)
           ELSE AluOp(oper[1], oper[2], op1, op2) = Rv!RvOp(oper[1], oper[2], op1, op2)

\* It does, the two shifts of ShiftsArithmetic left out.
ResultCorrect == ~NegativeShift => Rv32iResult

\* "A CPU of the rv32i instruction set" (README.md:5), of which ex.v:133, 168
\* write $signed(reg1_i): sra and srai of a negative value copy its sign bit
\* into the bits they vacate.
ShiftsArithmetic == NegativeShift => Rv32iResult

\* Every branch is taken exactly when RV32I says so, signed and unsigned
\* (ex.v, OP_BRANCH).
BranchCorrect ==
    \A b \in Branches : BranchTaken(b, op1, op2) <=> Rv!RvTaken(b, op1, op2)

\* The EX stage computes and decides as RV32I says, those two shifts left out
\* (ex.v).
ExecuteCorrect == ResultCorrect /\ BranchCorrect

\* The word of an instruction decodes to that instruction: no bit of an
\* immediate is dropped, doubled or put in another's place, and the sign is
\* extended (id.v).
DecodeCorrect == \A i \in inst : DecodesTo(i)
=============================================================================

----------------------------- MODULE CpuProofs -----------------------------
(***************************************************************************)
(* What is proved of the CPU for every width of a byte, size of memory,    *)
(* number of registers, set of instructions and program:                   *)
(*   - its registers keep their types (CpuTypeCorrect);                    *)
(*   - it drives the byte port as MemPort allows its environment to, so    *)
(*     what is proved of the port for any environment holds of the CPU     *)
(*     (CpuImplementsPort and its two corollaries);                        *)
(*   - it is the RV32I machine of Isa, without pauses (CpuImplementsIsa)   *)
(*     and with them (CpuRestartsIsa).                                     *)
(* Each section ends with its theorem.                                     *)
(***************************************************************************)
EXTENDS Cpu, FiniteSetTheorems, TLAPS

CONSTANTS
    FirstRam,   \* the RAM at power-up
    CodeAddr    \* word addresses no store of the program touches, all of
                \* them or none

\* The bytes of those words.
Guarded == {RamIdx(a + k) : a \in CodeAddr, k \in 0 .. 3}

Requests ==
    {x \in [op : MemOp, func3 : Func3, addr : Addr, data : Word] :
        x.op = "STORE" => x.func3 \in {"B", "H", "W"} /\ Span(x) \cap Guarded = {}}

\* The port with the pipeline as its environment; a pause writes nothing.
Port == INSTANCE MemPortProofs WITH
    JumpAddr <- Addr, Instrs <- Requests, InitRam <- FirstRam,
    HostAddr <- {}, HostByte <- {}, InitWord <- ZeroWord

\* No store in EX names a byte of the words of CodeAddr.
StoresStayOut == ExRequest.op = "STORE" => Span(ExRequest) \cap Guarded = {}

\* A load or store in EX has one of the widths of RV32I.
WidthsDefined ==
    /\ idex.opcode = "LOAD" => idex.func3 \in Func3
    /\ idex.opcode = "STORE" => idex.func3 \in {"B", "H", "W"}
-----------------------------------------------------------------------------
(* The assumptions of MemPort.                                             *)

LEMMA PortCode ==
    ASSUME CodeAddr \subseteq Addr
    PROVE  Port!CodeAssumption
  BY DEF Port!CodeAssumption, Port!Addr, Addr

LEMMA PortSizes == Port!ByteAssumption /\ Port!MemSizeAssumption /\ Port!IcacheAssumption
  BY ByteAssumption, MemSizeAssumption, IcacheAssumption
     DEF Port!ByteAssumption, Port!MemSizeAssumption, Port!IcacheAssumption

LEMMA PortInstrs == Port!InstrsAssumption
<1>1. Requests \subseteq Port!MemInstr
  BY DEF Requests, Port!MemInstr, Port!MemOp, MemOp, Port!Func3, Func3, Port!Addr, Addr,
         Port!Word, Word
<1>2. Port!CodeBytes = Guarded
  BY DEF Port!CodeBytes, Guarded, Port!RamIdx, RamIdx
<1>3. \A x : Port!Span(x) = Span(x)
  BY DEF Port!Span, Span, Port!RamIdx, RamIdx, Port!Width, Width
<1> QED
  BY <1>1, <1>2, <1>3 DEF Port!InstrsAssumption, Requests

LEMMA PortHost ==
    ASSUME FirstRam \in Programs
    PROVE  Port!HostAssumption
  BY ProgramAssumption, ByteAssumption
     DEF Port!HostAssumption, Port!Addr, Addr, Port!Word, Word, ZeroWord
-----------------------------------------------------------------------------
(* The wires between the pipeline and the port.                            *)

LEMMA SameFetch ==
    /\ Port!InstReq = InstReq /\ Port!IfStallReq = IfStallReq
    /\ Port!InstAddr = InstAddr
  BY DEF Port!InstReq, InstReq, Port!InstAddr, InstAddr, Port!Hit, Hit, Port!Index, Index,
         Port!Tag, Tag, Port!IfStallReq, IfStallReq, Port!FetchDone, FetchDone

LEMMA SameMem == Port!MemReq = MemReq /\ Port!MemStallReq = MemStallReq
  BY DEF Port!MemReq, MemReq, Port!MemStallReq, MemStallReq, Port!IsMemOp, IsMemOp,
         Port!Width, Width, Port!StoreData, StoreData, Port!ZeroWord, ZeroWord

LEMMA SameStall ==
    ASSUME NEW id \in BOOLEAN, NEW if \in BOOLEAN
    PROVE  Port!StallDepth(id, if) = StallDepth(id, if)
  BY SameMem DEF Port!StallDepth, StallDepth

\* What the pipeline puts on the wires of the port.
Input == [idStall |-> IdStallReq, exJump |-> ExJump, target |-> PcJump, next |-> ExRequest]

\* Powers of two, by bytes.
LEMMA BytePowers ==
    /\ 2^XLEN \in Nat \ {0} /\ 2^ByteBits \in Nat \ {0}
    /\ \A k \in 0 .. 4 : 2^(ByteBits * k) \in Nat \ {0}
<1>1. \A k \in 0 .. 4 : ByteBits * k \in 0 .. XLEN
  BY ByteBitsAssumption
<1>2. XLEN \in 0 .. XLEN /\ ByteBits \in 0 .. XLEN
  BY ByteBitsAssumption
<1> QED
  BY <1>1, <1>2, PowerAssumption

\* A value on the address lines is an address of the RAM.
LEMMA AddrOfType ==
    ASSUME NEW v \in Int
    PROVE  AddrOf(v) \in Addr
<1>1. 2^XLEN \in Nat \ {0}
  BY BytePowers
<1>2. Wrap(v) \in Int
  BY <1>1 DEF Wrap
<1> QED
  BY <1>2, MemSizeAssumption DEF AddrOf, Addr

\* The bytes of a stored value.
LEMMA AsWordType ==
    ASSUME NEW v \in Int
    PROVE  AsWord(v) \in Word
<1> SUFFICES ASSUME NEW k \in 0 .. 3
             PROVE  (v \div 2^(ByteBits * k)) % 2^ByteBits \in Byte
  BY DEF AsWord, Word
<1>1. 2^(ByteBits * k) \in Nat \ {0} /\ 2^(ByteBits * 1) \in Nat \ {0}
  BY BytePowers
<1>2. ByteBits * 1 = ByteBits
  BY ByteBitsAssumption
<1>3. v \div 2^(ByteBits * k) \in Int
  BY <1>1
<1> QED
  BY <1>1, <1>2, <1>3, ByteBitsAssumption

\* The pipeline's inputs are among those MemPort takes.
LEMMA InputFits ==
    ASSUME TypeOK, WidthsDefined, StoresStayOut
    PROVE  Input \in Port!PipeInput
<1>1. {idex.reg1, idex.reg2, idex.imm, idex.br_addr, idex.br_offset} \subseteq Int
  BY DEF TypeOK, Value
<1>2. PcJump \in Addr
  BY <1>1, AddrOfType DEF PcJump
<1>3. ExRequest \in Requests \cup {Port!Bubble}
  <2>1. CASE idex.opcode \in {"LOAD", "STORE"}
    <3>1. Ans = Wrap(idex.reg1 + idex.imm)
      BY <2>1 DEF Ans
    <3>2. AddrOf(Ans) \in Addr
      <4>1. 2^XLEN \in Nat \ {0}
        BY BytePowers
      <4> QED
        BY <1>1, <3>1, <4>1, AddrOfType DEF Wrap
    <3>3. AsWord(idex.reg2) \in Word /\ ZeroWord \in Word
      BY <1>1, AsWordType, ByteAssumption DEF ZeroWord, Word
    <3>4. idex.func3 \in Func3
      BY <2>1 DEF WidthsDefined, Func3
    <3>5. ExRequest \in [op : MemOp, func3 : Func3, addr : Addr, data : Word]
      BY <2>1, <3>2, <3>3, <3>4 DEF ExRequest, MemOp
    <3>6. ExRequest.op = "STORE" =>
              ExRequest.func3 \in {"B", "H", "W"} /\ Span(ExRequest) \cap Guarded = {}
      BY <2>1 DEF StoresStayOut, WidthsDefined, ExRequest
    <3> QED
      BY <3>5, <3>6 DEF Requests
  <2>2. CASE idex.opcode \notin {"LOAD", "STORE"}
    BY <2>2 DEF ExRequest, Bubble, Port!Bubble, ZeroWord, Port!ZeroWord
  <2> QED
    BY <2>1, <2>2
<1>4. IdStallReq \in BOOLEAN /\ ExJump \in BOOLEAN
  BY DEF IdStallReq, ExJump
<1> QED
  BY <1>2, <1>3, <1>4 DEF Input, Port!PipeInput
-----------------------------------------------------------------------------
(* Every step of the CPU is a step of the port.                            *)

\* Stalls and jumps are the same on both sides.
LEMMA SameDepth == Port!Depth(Input) = Depth
<1>1. Input.idStall = IdStallReq
  BY DEF Input
<1>2. IdStallReq \in BOOLEAN /\ IfStallReq \in BOOLEAN
  BY DEF IdStallReq, IfStallReq
<1> QED
  BY <1>1, <1>2, SameFetch, SameStall DEF Port!Depth, Depth

LEMMA SameJump == Port!IfJump(Input) = IfJump
<1>1. Input.exJump = ExJump
  BY DEF Input
<1> QED
  BY <1>1, SameDepth DEF Port!IfJump, IfJump, Port!Stalled, Stalled

\* The blocks beside memory_control.
LEMMA ClientsFit ==
    ASSUME Advance
    PROVE  Port!ClientsTick(Input)
<1>1. Input.target = PcJump /\ Input.next = ExRequest
  BY DEF Input
<1>2. Port!PcTick(Port!IfJump(Input), Input.target, Port!Stalled(0, Port!Depth(Input)))
  BY <1>1, SameDepth, SameJump
     DEF Advance, Port!PcTick, PcTick, Port!Stalled, Stalled, Port!RamIdx, RamIdx
<1>3. Port!CacheTick
  BY SameFetch DEF Advance, Port!CacheTick, CacheTick, Port!Index, Index, Port!Tag, Tag,
                   Port!cacheVars, cacheVars
<1>4. Port!RamTick(Port!InstReq, Port!MemReq)
  BY SameFetch, SameMem
     DEF Advance, Port!RamTick, RamTick, Port!RamWr, RamWr, Port!RamAddr, RamAddr,
         Port!RamOut, RamOut, Port!Num, Num, Port!ServedAddr, ServedAddr, Port!RamIdx, RamIdx
<1>5. exmem' = IF Port!Stalled(3, Port!Depth(Input)) THEN exmem ELSE Input.next
  BY <1>1, SameDepth DEF Advance, ExMemTick, Port!Stalled, Stalled
<1> QED
  BY <1>2, <1>3, <1>4, <1>5 DEF Port!ClientsTick

\* The branches of memory_control.
LEMMA SameBranches ==
    ASSUME NEW i, NEW m, NEW jump
    PROVE  /\ Port!Aborts(m, jump) = Aborts(m, jump)
           /\ Port!Abort(m, jump) = Abort(m, jump)
           /\ Port!ReadFirst(i, m) = ReadFirst(i, m)
           /\ Port!ReadNext(i, m) = ReadNext(i, m)
           /\ Port!ReadLast(i, m) = ReadLast(i, m)
           /\ Port!WriteByte(i, m) = WriteByte(i, m)
           /\ Port!Idle(i, m) = Idle(i, m)
<1> USE DEF Port!Num, Num, Port!RamWr, RamWr, Port!RamIn, RamIn, Port!Assemble, Assemble
<1>1. Port!Aborts(m, jump) = Aborts(m, jump)
  BY DEF Port!Aborts, Aborts
<1>2. Port!Abort(m, jump) = Abort(m, jump)
  BY <1>1 DEF Port!Abort, Abort, Port!Cleared, Cleared, Port!ZeroWord, ZeroWord
<1>3. Port!ReadFirst(i, m) = ReadFirst(i, m)
  BY DEF Port!ReadFirst, ReadFirst
<1>4. Port!ReadNext(i, m) = ReadNext(i, m)
  BY DEF Port!ReadNext, ReadNext
<1>5. Port!ReadLast(i, m) = ReadLast(i, m)
  BY DEF Port!ReadLast, ReadLast
<1>6. Port!WriteByte(i, m) = WriteByte(i, m)
  BY DEF Port!WriteByte, WriteByte
<1>7. Port!Idle(i, m) = Idle(i, m)
  BY DEF Port!Idle, Idle
<1> QED
  BY <1>1, <1>2, <1>3, <1>4, <1>5, <1>6, <1>7

\* An edge with rst low.
LEMMA ClockFits ==
    ASSUME TypeOK, WidthsDefined, StoresStayOut, Clock
    PROVE  Port!Clock
<1> DEFINE in == Input
<1>1. in \in Port!PipeInput
  BY InputFits
<1>2. Advance
  BY DEF Clock, ClockAbort, ClockReadFirst, ClockReadNext, ClockReadLast, ClockWrite,
         ClockIdle
<1>3. Port!ClientsTick(in)
  BY <1>2, ClientsFit
<1>4. CASE ClockAbort
  <2>1. Port!ClockAbort(in)
    BY <1>3, <1>4, SameMem, SameJump, SameBranches DEF ClockAbort, Port!ClockAbort
  <2> QED
    BY <1>1, <2>1 DEF Port!Clock
<1>5. CASE ClockReadFirst
  <2>1. Port!ClockReadFirst(in)
    BY <1>3, <1>5, SameFetch, SameMem, SameJump, SameBranches
       DEF ClockReadFirst, Port!ClockReadFirst
  <2> QED
    BY <1>1, <2>1 DEF Port!Clock
<1>6. CASE ClockReadNext
  <2>1. Port!ClockReadNext(in)
    BY <1>3, <1>6, SameFetch, SameMem, SameJump, SameBranches
       DEF ClockReadNext, Port!ClockReadNext
  <2> QED
    BY <1>1, <2>1 DEF Port!Clock
<1>7. CASE ClockReadLast
  <2>1. Port!ClockReadLast(in)
    BY <1>3, <1>7, SameFetch, SameMem, SameJump, SameBranches
       DEF ClockReadLast, Port!ClockReadLast
  <2> QED
    BY <1>1, <2>1 DEF Port!Clock
<1>8. CASE ClockWrite
  <2>1. Port!ClockWrite(in)
    BY <1>3, <1>8, SameFetch, SameMem, SameJump, SameBranches DEF ClockWrite, Port!ClockWrite
  <2> QED
    BY <1>1, <2>1 DEF Port!Clock
<1>9. CASE ClockIdle
  <2>1. Port!ClockIdle(in)
    BY <1>3, <1>9, SameFetch, SameMem, SameJump, SameBranches DEF ClockIdle, Port!ClockIdle
  <2> QED
    BY <1>1, <2>1 DEF Port!Clock
<1> QED
  BY <1>4, <1>5, <1>6, <1>7, <1>8, <1>9 DEF Clock

\* A pause is a reset.
LEMMA PauseFits ==
    ASSUME Pause
    PROVE  Port!Reset
  BY DEF Pause, Port!Reset, Port!ResetTick, Port!Cleared, Cleared, Port!CacheReset, CacheReset,
         Port!PcReset, PcReset, Port!Bubble, Bubble, Port!ZeroWord, ZeroWord, Port!RamIdx,
         RamIdx, Port!Line, Line

\* Any step.
LEMMA StepFits ==
    ASSUME TypeOK, WidthsDefined, StoresStayOut, [Next]_vars
    PROVE  [Port!Next]_(Port!vars)
<1>1. CASE Clock
  BY <1>1, ClockFits DEF Port!Next
<1>2. CASE Pause
  BY <1>2, PauseFits DEF Port!Next
<1>3. CASE UNCHANGED vars
  BY <1>3 DEF vars, Port!vars, Port!mcVars, mcVars, Port!ramVars, ramVars, Port!pcVars,
              pcVars, Port!cacheVars, cacheVars
<1> QED
  BY <1>1, <1>2, <1>3 DEF Next

\* Widths come from the decoder.
LEMMA WidthsInit == Init => WidthsDefined
  BY DEF Init, NoOp, WidthsDefined

LEMMA WidthsStep ==
    ASSUME WidthsDefined, [Next]_vars
    PROVE  WidthsDefined'
<1>1. ASSUME Advance PROVE WidthsDefined'
  <2>1. idex' \in {NoOp, idex, Decoded}
    BY <1>1 DEF Advance, IdExTick
  <2>2. CASE idex' = Decoded
    <3>1. idex'.opcode = Fields.opcode /\ idex'.func3 = Fields.func3
      BY <2>2 DEF Decoded
    <3>2. CASE Number(ifid.inst) \in DOMAIN Decode
      BY <3>1, <3>2, DecodeAssumption DEF Fields, WidthsDefined
    <3>3. CASE Number(ifid.inst) \notin DOMAIN Decode
      BY <3>1, <3>3 DEF Fields, WidthsDefined
    <3> QED
      BY <3>2, <3>3
  <2> QED
    BY <2>1, <2>2 DEF NoOp, WidthsDefined
<1>2. CASE Clock
  BY <1>1, <1>2 DEF Clock, ClockAbort, ClockReadFirst, ClockReadNext, ClockReadLast,
                    ClockWrite, ClockIdle
<1>3. CASE Pause
  BY <1>3 DEF Pause, NoOp, WidthsDefined
<1>4. CASE UNCHANGED vars
  BY <1>4 DEF vars, pipeVars, WidthsDefined
<1> QED
  BY <1>2, <1>3, <1>4 DEF Next

\* Power-up.
LEMMA InitFits ==
    ASSUME Init, ram = FirstRam
    PROVE  Port!Init
  BY DEF Init, Port!Init, Port!ZeroWord, ZeroWord, Port!Line, Line, Port!Bubble, Bubble
-----------------------------------------------------------------------------
(* Numbers made of bytes.                                                  *)

\* A low part below P and a high part below Q make a number below P * Q.
LEMMA TwoParts ==
    ASSUME NEW P \in Nat \ {0}, NEW Q \in Nat \ {0}, NEW lo \in 0 .. P - 1, NEW hi \in 0 .. Q - 1
    PROVE  lo + hi * P \in 0 .. P * Q - 1
<1>1. hi * P <= (Q - 1) * P
  OBVIOUS
<1>2. (Q - 1) * P = P * Q - P
  OBVIOUS
<1>3. hi * P >= 0 /\ hi * P \in Int /\ P * Q \in Int
  OBVIOUS
<1> QED
  BY <1>1, <1>2, <1>3

\* Two parts of a value.
LEMMA PowerSum ==
    ASSUME NEW m \in 0 .. XLEN, NEW n \in 0 .. XLEN, m + n = XLEN
    PROVE  2^XLEN = 2^m * 2^n
  BY PowerAssumption

\* The powers of 2^ByteBits.
LEMMA BytePowerLaws ==
    /\ 2^(ByteBits * 0) = 1 /\ 2^(ByteBits * 1) = 2^ByteBits
    /\ 2^(ByteBits * 2) = 2^ByteBits * 2^ByteBits /\ 2^(2 * ByteBits) = 2^(ByteBits * 2)
    /\ 2^(ByteBits * 3) = 2^ByteBits * 2^(ByteBits * 2) /\ 2^(3 * ByteBits) = 2^(ByteBits * 3)
    /\ 2^(ByteBits * 4) = 2^ByteBits * 2^(ByteBits * 3) /\ 2^XLEN = 2^(ByteBits * 4)
<1>1. /\ ByteBits * 0 = 0 /\ ByteBits * 1 = ByteBits /\ 2 * ByteBits = ByteBits * 2
      /\ 3 * ByteBits = ByteBits * 3 /\ XLEN = ByteBits * 4
      /\ ByteBits * 2 = ByteBits + ByteBits
      /\ ByteBits * 3 = ByteBits + (ByteBits * 2) /\ ByteBits * 4 = ByteBits + (ByteBits * 3)
  BY ByteBitsAssumption
<1>2. {ByteBits, ByteBits * 2, ByteBits * 3} \subseteq 0 .. XLEN
  BY ByteBitsAssumption
<1>3. ByteBits + ByteBits <= XLEN /\ ByteBits + ByteBits * 2 <= XLEN
      /\ ByteBits + ByteBits * 3 <= XLEN
  BY ByteBitsAssumption
<1>4. 2^(ByteBits + ByteBits) = 2^ByteBits * 2^ByteBits
  BY <1>2, <1>3, PowerAssumption
<1>5. 2^(ByteBits + (ByteBits * 2)) = 2^ByteBits * 2^(ByteBits * 2)
  BY <1>2, <1>3, PowerAssumption
<1>6. 2^(ByteBits + (ByteBits * 3)) = 2^ByteBits * 2^(ByteBits * 3)
  BY <1>2, <1>3, PowerAssumption
<1>7. 2^0 = 1
  OBVIOUS
<1> QED
  BY <1>1, <1>4, <1>5, <1>6, <1>7

\* A word whose bytes from n on are zero is a number below 2^(ByteBits * n).
LEMMA NumberBound ==
    ASSUME NEW w \in Word, NEW n \in 1 .. 4, \A k \in 0 .. 3 : k >= n => w[k] = 0
    PROVE  Number(w) \in 0 .. 2^(ByteBits * n) - 1
<1> DEFINE P == 2^ByteBits
           Q(k) == 2^(ByteBits * k)
           s1 == w[0] + w[1] * Q(1)
           s2 == s1 + w[2] * Q(2)
           s3 == s2 + w[3] * Q(3)
<1>1. /\ P \in Nat \ {0} /\ Q(0) = 1 /\ Q(1) = P /\ Q(2) = P * Q(1) /\ Q(3) = P * Q(2) /\ Q(4) = P * Q(3)
      /\ \A k \in 0 .. 4 : Q(k) \in Nat \ {0}
  BY BytePowers, BytePowerLaws
<1>2. \A k \in 0 .. 3 : w[k] \in 0 .. P - 1
  BY ByteBitsAssumption DEF Word
<1>3. Number(w) = s3
  BY BytePowerLaws DEF Number
<1> HIDE DEF P, Q
<1>4. w[0] \in 0 .. Q(1) - 1
  BY <1>1, <1>2
<1>5. s1 \in 0 .. Q(2) - 1
  <2>1. s1 \in 0 .. Q(1) * P - 1
    BY <1>1, <1>2, <1>4, TwoParts
  <2> QED
    BY <1>1, <2>1
<1>6. s2 \in 0 .. Q(3) - 1
  <2>1. s2 \in 0 .. Q(2) * P - 1
    BY <1>1, <1>2, <1>5, TwoParts
  <2> QED
    BY <1>1, <2>1
<1>7. s3 \in 0 .. Q(4) - 1
  <2>1. s3 \in 0 .. Q(3) * P - 1
    BY <1>1, <1>2, <1>6, TwoParts
  <2> QED
    BY <1>1, <2>1
<1>8. /\ n = 1 => s3 = w[0]
      /\ n = 2 => s3 = s1
      /\ n = 3 => s3 = s2
  <2>1. \A k \in 1 .. 3 : k >= n => w[k] * Q(k) = 0
    BY <1>1
  <2>2. \A k \in 1 .. 3 : w[k] * Q(k) \in Int
    BY <1>1, <1>2
  <2>3. w[0] \in Int
    BY <1>1, <1>2
  <2> HIDE DEF Q
  <2> QED
    BY <2>1, <2>2, <2>3
<1> QED
  BY <1>3, <1>4, <1>5, <1>6, <1>7, <1>8 DEF Q

\* The value of a word.
LEMMA NumberType ==
    ASSUME NEW w \in Word
    PROVE  Number(w) \in Value
<1>1. Number(w) \in 0 .. 2^(ByteBits * 4) - 1
  BY NumberBound
<1> QED
  BY <1>1, BytePowerLaws DEF Value

\* The value of n bytes, widened.
LEMMA SignExtendType ==
    ASSUME NEW n \in 1 .. 3, NEW v \in 0 .. 2^(ByteBits * n) - 1
    PROVE  SignExtend(v, n) \in Value
<1>1. 2^XLEN = 2^(ByteBits * n) * 2^(ByteBits * (4 - n))
  <2>1. ByteBits * n \in 0 .. XLEN /\ ByteBits * (4 - n) \in 0 .. XLEN
        /\ ByteBits * n + ByteBits * (4 - n) = XLEN
    BY ByteBitsAssumption
  <2> QED
    BY <2>1, PowerAssumption
<1>2. 2^(ByteBits * n) \in Nat \ {0} /\ 2^(ByteBits * (4 - n)) \in Nat \ {0}
  BY BytePowers
<1>3. 2^(ByteBits * n) <= 2^XLEN /\ 2^XLEN \in Nat
  BY <1>1, <1>2
<1>4. 2^(ByteBits * n - 1) \in Nat \ {0}
  <2>1. ByteBits * n - 1 \in 0 .. XLEN
    BY ByteBitsAssumption
  <2> QED
    BY <2>1, PowerAssumption
<1> QED
  BY <1>2, <1>3, <1>4 DEF SignExtend, Value
-----------------------------------------------------------------------------
(* What the stages compute fits the registers.                             *)

-----------------------------------------------------------------------------
(* The arithmetic of EX, as AluProofs has it for any width.                *)

\* No operations are presented: only the lemmas are wanted.
Arith == INSTANCE AluProofs WITH
    Variants <- {}, Sample <- {}, oper <- <<>>, imm <- FALSE, op1 <- 0, op2 <- 0, inst <- {}

LEMMA WrapFits ==
    ASSUME NEW v \in Int
    PROVE  Wrap(v) \in Value
  BY XlenAssumption, PowerAssumption, Arith!WrapFits DEF Wrap, Arith!Wrap, Value, Arith!Value

LEMMA SmallFit == {0, 1} \subseteq Value
  BY XlenAssumption, PowerAssumption, Arith!SmallFit DEF Value, Arith!Value

\* The operators of the two modules are the same.
LEMMA SameOps ==
    ASSUME NEW f, NEW alt, NEW a, NEW b
    PROVE  /\ Arith!AluOp(f, alt, a, b) = AluOp(f, alt, a, b)
           /\ Arith!BranchTaken(f, a, b) <=> BranchTaken(f, a, b)
  BY Zenon DEF Arith!AluOp, AluOp, Arith!BranchTaken, BranchTaken, Wrap, Arith!Wrap,
     Value, Arith!Value, Shamt, Arith!Shamt, Signed, Arith!Signed, BitAt, Arith!BitAt,
     FromBits, Arith!FromBits

\* So are the two readings of RV32I.
LEMMA SameMeaning ==
    ASSUME NEW f, NEW alt, NEW a, NEW b
    PROVE  /\ Arith!Rv!RvOp(f, alt, a, b) = Arch!RvOp(f, alt, a, b)
           /\ Arith!Rv!RvTaken(f, a, b) <=> Arch!RvTaken(f, a, b)
  BY Zenon DEF Arith!Rv!RvOp, Arch!RvOp, Arith!Rv!RvTaken, Arch!RvTaken, Arith!Rv!IntOf,
     Arch!IntOf, Arith!Rv!ValOf, Arch!ValOf, Arith!Rv!Ones, Arch!Ones, Arith!Rv!ValOfOnes,
     Arch!ValOfOnes, Arith!Rv!ShiftedRight, Arch!ShiftedRight, Arith!Rv!SignFill,
     Arch!SignFill

LEMMA OpFits ==
    ASSUME NEW a \in Value, NEW b \in Value, NEW alt, NEW f
    PROVE  AluOp(f, alt, a, b) \in Value
  <1>1. a \in Arith!Value /\ b \in Arith!Value
    BY DEF Value, Arith!Value
  <1>2. Arith!AluOp(f, alt, a, b) \in Arith!Value
    BY <1>1, XlenAssumption, PowerAssumption, Arith!OpFits
  <1> QED
    BY <1>2, SameOps DEF Value, Arith!Value

LEMMA OpRight ==
    ASSUME NEW a \in Value, NEW b \in Value, NEW alt \in BOOLEAN, NEW f \in Func3Op,
           f = "SRL_SRA" /\ alt => Signed(a) >= 0
    PROVE  AluOp(f, alt, a, b) = Arch!RvOp(f, alt, a, b)
  <1>1. a \in Arith!Value /\ b \in Arith!Value /\ f \in Arith!Func3Op
        /\ (f = "SRL_SRA" /\ alt => Arith!Signed(a) >= 0)
    BY DEF Value, Arith!Value, Func3Op, Arith!Func3Op, Signed, Arith!Signed
  <1>2. Arith!AluOp(f, alt, a, b) = Arith!Rv!RvOp(f, alt, a, b)
    BY <1>1, XlenAssumption, PowerAssumption, Arith!OpRight
  <1> QED
    BY <1>2, SameOps, SameMeaning

LEMMA TakenRight ==
    ASSUME NEW a \in Value, NEW b \in Value,
           NEW f \in {"BEQ", "BNE", "BLT", "BGE", "BLTU", "BGEU"}
    PROVE  BranchTaken(f, a, b) <=> Arch!RvTaken(f, a, b)
  <1>1. a \in Arith!Value /\ b \in Arith!Value
    BY DEF Value, Arith!Value
  <1>2. Arith!BranchTaken(f, a, b) <=> Arith!Rv!RvTaken(f, a, b)
    BY <1>1, XlenAssumption, PowerAssumption, Arith!TakenRight
  <1> QED
    BY <1>2, SameOps, SameMeaning

\* What EX computes.
LEMMA AnsType ==
    ASSUME TypeOK, idex.pc \in Addr
    PROVE  Ans \in Value
<1>1. /\ idex.reg1 \in Value /\ idex.reg2 \in Value /\ idex.imm \in Value
      /\ idex.reg1 \in Int /\ idex.imm \in Int /\ idex.pc \in Int
  BY DEF TypeOK, Value, Addr
<1>2. CASE idex.opcode \in {"JAL", "JALR", "LUI", "AUIPC", "LOAD", "STORE"}
  <2>1. Wrap(idex.pc + 4) \in Value /\ Wrap(idex.imm + idex.pc) \in Value
        /\ Wrap(idex.reg1 + idex.imm) \in Value
    BY <1>1, WrapFits
  <2> QED
    BY <1>1, <1>2, <2>1 DEF Ans
<1>3. CASE idex.opcode = "OP_IMM"
  <2>1. Ans = AluOp(idex.func3, idex.alt /\ idex.func3 = "SRL_SRA", idex.reg1, idex.imm)
    BY <1>3 DEF Ans, AluOpImm
  <2> QED
    BY <1>1, <1>3, <2>1, OpFits
<1>4. CASE idex.opcode = "OP"
  <2>1. Ans = AluOp(idex.func3, idex.alt, idex.reg1, idex.reg2)
    BY <1>4 DEF Ans
  <2> QED
    BY <1>1, <1>4, <2>1, OpFits
<1>5. CASE idex.opcode \in {"BRANCH", "NON"}
  BY <1>5, SmallFit DEF Ans
<1> QED
  BY <1>2, <1>3, <1>4, <1>5 DEF TypeOK, Opcode

\* A load under way has one of the widths, and its reply no more bytes.
LEMMA MemWriteType ==
    ASSUME TypeOK, Port!IInv
    PROVE  MemWrite.wdata \in Value /\ MemWrite.wd = exmemWb.wd /\ MemWrite.wreg = exmemWb.wreg
<1>1. MemWrite.wd = exmemWb.wd /\ MemWrite.wreg = exmemWb.wreg
  BY DEF MemWrite
<1>2. CASE exmem.op = "LOAD"
  <2> DEFINE f == exmem.func3
  <2>1. f \in Func3 /\ mem_rdata \in Word /\ mem_enable \in BOOLEAN
    <3>1. exmem \in Requests /\ mem_rdata \in Word /\ mem_enable \in BOOLEAN
      BY <1>2 DEF Port!IInv, Port!TypeOK, Port!Bubble, Port!Word, Word
    <3> QED
      BY <3>1 DEF Requests
  <2>2. mem_enable => \A k \in 0 .. 3 : k >= Width(f) => mem_rdata[k] = 0
    BY <1>2, ByteBitsAssumption DEF Port!IInv, Port!LoadCorrect, Port!Width, Width
  <2>3. MemWrite.wdata = IF mem_enable THEN Extended(f, Number(mem_rdata)) ELSE 0
    BY <1>2 DEF MemWrite
  <2>4. Width(f) \in 1 .. 4 /\ (f \in {"B", "H"} => Width(f) \in 1 .. 3)
    BY <2>1 DEF Func3, Width
  <2>5. ASSUME mem_enable, f \in {"B", "H"} PROVE MemWrite.wdata \in Value
    <3>1. Number(mem_rdata) \in 0 .. 2^(ByteBits * Width(f)) - 1
      BY <2>1, <2>2, <2>4, <2>5, NumberBound
    <3>2. SignExtend(Number(mem_rdata), Width(f)) \in Value
      BY <2>4, <2>5, <3>1, SignExtendType
    <3> QED
      BY <2>3, <2>5, <3>2 DEF Extended
  <2>6. ASSUME mem_enable, f \notin {"B", "H"} PROVE MemWrite.wdata \in Value
    BY <2>1, <2>3, <2>6, NumberType DEF Extended
  <2>7. ASSUME ~mem_enable PROVE MemWrite.wdata \in Value
    BY <2>3, <2>7, SmallFit
  <2> QED
    BY <1>1, <2>1, <2>5, <2>6, <2>7
<1>3. CASE exmem.op = "STORE"
  BY <1>3, SmallFit DEF MemWrite
<1>4. CASE exmem.op \notin {"LOAD", "STORE"}
  BY <1>4 DEF MemWrite, TypeOK
<1> QED
  BY <1>1, <1>2, <1>3, <1>4

\* An operand, forwarded or not.
LEMMA OperandType ==
    ASSUME TypeOK, idex.pc \in Addr, Port!IInv
    PROVE  /\ Fields.rd \in Reg /\ Fields.rs1 \in Reg /\ Fields.rs2 \in Reg
           /\ Fields.opcode \in Opcode \cup {"NON"} /\ Fields.imm \in Value
           /\ Operand1 \in Value /\ Operand2 \in Value
<1>1. 0 \in Value /\ 0 \in Reg
  BY SmallFit, RegsAssumption DEF Reg
<1>2. /\ Fields.rd \in Reg /\ Fields.rs1 \in Reg /\ Fields.rs2 \in Reg
      /\ Fields.opcode \in Opcode \cup {"NON"} /\ Fields.imm \in Value
  BY <1>1, RegsAssumption, DecodeAssumption DEF Fields
<1>3. ASSUME NEW r \in Reg PROVE Forward(r) \in Value
  <2>1. ExWrite.wdata \in Value
    BY AnsType DEF ExWrite
  <2>2. MemWrite.wdata \in Value
    BY MemWriteType
  <2>3. RegRead(r) \in Value
    BY <1>1 DEF RegRead, TypeOK
  <2> QED
    BY <2>1, <2>2, <2>3 DEF Forward
<1> QED
  BY <1>1, <1>2, <1>3 DEF Operand1, Operand2
-----------------------------------------------------------------------------
(* The pipeline's types, with the port's invariant.                        *)

CpuTyped == TypeOK /\ idex.pc \in Addr /\ WidthsDefined /\ Port!IInv

\* Power-up.
LEMMA InitTyped ==
    ASSUME FirstRam \in Programs, CodeAddr \subseteq Addr, Init, ram = FirstRam
    PROVE  CpuTyped
<1>1. Port!IInv
  BY PortCode, PortSizes, PortInstrs, PortHost, InitFits, Port!InitIInv
<1>2. 0 \in Value /\ 0 \in Reg /\ 0 \in Addr /\ ZeroWord \in Word
  BY SmallFit, RegsAssumption, MemSizeAssumption, ByteAssumption
     DEF Reg, Addr, Word, ZeroWord
<1>3. TypeOK /\ idex.pc \in Addr
  BY <1>2, RegsAssumption DEF Init, TypeOK, NoInst, NoOp, NoWrite, Opcode
<1> QED
  BY <1>1, <1>3, WidthsInit DEF CpuTyped

\* The registers of the pipeline at an edge with rst low.
LEMMA AdvanceTyped ==
    ASSUME CpuTyped, Advance
    PROVE  TypeOK' /\ idex.pc' \in Addr
<1>1. 0 \in Value /\ 0 \in Reg /\ 0 \in Addr /\ ZeroWord \in Word
  BY SmallFit, RegsAssumption, MemSizeAssumption, ByteAssumption
     DEF Reg, Addr, Word, ZeroWord
<1>2. ifid'.pc \in Addr /\ ifid'.inst \in Word
  <2>1. InstAddr \in Addr
    BY <1>1 DEF InstAddr, CpuTyped, Port!IInv, Port!TypeOK, Port!Addr, Addr
  <2>2. Index(InstAddr) \in Line
    BY <2>1, IcacheAssumption, MemSizeAssumption DEF Index, Line, Addr
  <2>3. FetchedInst \in Word
    BY <2>2 DEF FetchedInst, CpuTyped, Port!IInv, Port!TypeOK, Port!Word, Word, Port!Line, Line
  <2> QED
    BY <1>1, <2>1, <2>3 DEF Advance, IfIdTick, NoInst, CpuTyped, TypeOK
<1>3. idex' \in {NoOp, idex, Decoded}
  BY DEF Advance, IdExTick
<1>4. /\ idex'.opcode \in Opcode \cup {"NON"} /\ idex'.wd \in Reg
      /\ {idex'.reg1, idex'.reg2, idex'.imm, idex'.br_addr, idex'.br_offset} \subseteq Value
      /\ idex'.pc \in Addr
  <2>1. CASE idex' = NoOp
    BY <1>1, <2>1 DEF NoOp
  <2>2. CASE idex' = idex
    BY <2>2 DEF CpuTyped, TypeOK
  <2>3. CASE idex' = Decoded
    <3>1. /\ Fields.rd \in Reg /\ Fields.opcode \in Opcode \cup {"NON"} /\ Fields.imm \in Value
          /\ Operand1 \in Value /\ Operand2 \in Value
      BY OperandType DEF CpuTyped
    <3>2. ifid.pc \in Addr /\ ifid.pc \in Value
      <4>1. ifid.pc \in Addr
        BY DEF CpuTyped, TypeOK
      <4>2. Addr \subseteq Value
        BY LinkAssumption, BytePowers, MemSizeAssumption DEF Addr, Value
      <4> QED
        BY <4>1, <4>2
    <3>3. Decoded.br_addr \in Value /\ Decoded.br_offset \in Value
      BY <1>1, <3>1, <3>2 DEF Decoded
    <3> QED
      BY <2>3, <3>1, <3>2, <3>3 DEF Decoded
  <2> QED
    BY <1>3, <2>1, <2>2, <2>3
<1>5. memwb'.wd \in Reg /\ memwb'.wdata \in Value
  BY <1>1, MemWriteType DEF Advance, MemWbTick, NoWrite, CpuTyped, TypeOK
<1>6. exmemWb'.wd \in Reg /\ exmemWb'.wdata \in Value
  BY AnsType DEF Advance, ExMemTick, ExWrite, CpuTyped, TypeOK
<1>7. regs' \in [Reg -> Value]
  BY DEF Advance, RegTick, CpuTyped, TypeOK
<1> QED
  BY <1>2, <1>4, <1>5, <1>6, <1>7 DEF TypeOK

\* Any step.
LEMMA NextTyped ==
    ASSUME FirstRam \in Programs, CodeAddr \subseteq Addr,
           CpuTyped, StoresStayOut, [Next]_vars
    PROVE  CpuTyped'
<1>1. Port!IInv'
  <2>1. [Port!Next]_(Port!vars)
    BY StepFits DEF CpuTyped
  <2> QED
    BY <2>1, PortCode, PortSizes, PortInstrs, PortHost, Port!NextIInv DEF CpuTyped
<1>2. WidthsDefined'
  BY WidthsStep DEF CpuTyped
<1>3. TypeOK' /\ idex.pc' \in Addr
  <2>1. CASE Clock
    <3>1. Advance
      BY <2>1 DEF Clock, ClockAbort, ClockReadFirst, ClockReadNext, ClockReadLast, ClockWrite,
                  ClockIdle
    <3> QED
      BY <3>1, AdvanceTyped
  <2>2. CASE Pause
    <3>1. 0 \in Value /\ 0 \in Reg /\ 0 \in Addr /\ ZeroWord \in Word
      BY SmallFit, RegsAssumption, MemSizeAssumption, ByteAssumption
         DEF Reg, Addr, Word, ZeroWord
    <3> QED
      BY <2>2, <3>1 DEF Pause, CpuTyped, TypeOK, NoInst, NoOp, NoWrite
  <2>3. CASE UNCHANGED vars
    BY <2>3 DEF CpuTyped, TypeOK, vars, pipeVars
  <2> QED
    BY <2>1, <2>2, <2>3 DEF Next
<1> QED
  BY <1>1, <1>2, <1>3 DEF CpuTyped

\* The same, once for all theorems below: while the stores leave the words of
\* CodeAddr alone, the registers of pipeline and port keep their types.
LEMMA StaysTyped ==
    ASSUME FirstRam \in Programs, CodeAddr \subseteq Addr
    PROVE  Spec /\ ram = FirstRam /\ []StoresStayOut => []CpuTyped
<1>1. Init /\ ram = FirstRam => CpuTyped
  BY InitTyped
<1>2. CpuTyped /\ StoresStayOut /\ [Next]_vars => CpuTyped'
  BY NextTyped
<1> QED
  BY <1>1, <1>2, PTL DEF Spec

\* Whatever the program does, registers, operands and results have XLEN bits
\* and addresses are the RAM's.  (Neither Spec nor TypeOK speaks of CodeAddr;
\* no word is protected, so nothing is asked of the stores.)
THEOREM CpuTypeCorrect ==
    ASSUME FirstRam \in Programs, CodeAddr = {}
    PROVE  Spec /\ ram = FirstRam => []TypeOK
<1>1. CodeAddr \subseteq Addr
  OBVIOUS
<1>2. StoresStayOut
  <2>1. Guarded = {}
    BY DEF Guarded
  <2> QED
    BY <2>1 DEF StoresStayOut
<1>3. CpuTyped => TypeOK
  BY DEF CpuTyped
<1> QED
  BY <1>1, <1>2, <1>3, StaysTyped, PTL
-----------------------------------------------------------------------------
(* The port.  That the program leaves the words of CodeAddr alone is no    *)
(* hypothesis when CodeAddr = {}.                                          *)

\* cpu.v is one of the environments MemPort allows, whatever the program: its
\* stalls, jumps, loads and stores reach memory_control, the cache and the
\* program counter in ways the port is made for.
THEOREM CpuImplementsPort ==
    ASSUME FirstRam \in Programs, CodeAddr \subseteq Addr
    PROVE  Spec /\ ram = FirstRam /\ []StoresStayOut => Port!Spec
<1>1. Init /\ ram = FirstRam => Port!Init
  BY InitFits
<1>2. CpuTyped /\ StoresStayOut /\ [Next]_vars => [Port!Next]_(Port!vars)
  BY StepFits DEF CpuTyped
<1> QED
  BY <1>1, <1>2, StaysTyped, PTL DEF Spec, Port!Spec

\* In the CPU every word that reaches IF/ID from an address no store touches
\* is the word the RAM holds there, from the cache or not, across jumps,
\* stalls, pauses and loads and stores that wait (if.v, icache.v).
THEOREM CpuFetchesRight ==
    ASSUME FirstRam \in Programs, CodeAddr \subseteq Addr
    PROVE  Spec /\ ram = FirstRam /\ []StoresStayOut
             => [](Port!FetchCorrect /\ Port!CacheCoherent)
<1>1. Port!Spec => []Port!FetchCorrect
  BY PortCode, PortSizes, PortInstrs, PortHost, Port!FetchIsCorrect
<1>2. Port!Spec => []Port!CacheCoherent
  BY PortCode, PortSizes, PortInstrs, PortHost, Port!CacheIsCoherent
<1> QED
  BY <1>1, <1>2, CpuImplementsPort, PTL

\* In the CPU each load and store is answered with its own bytes, is never
\* dropped half-way but by a pause, and is answered once (mem.v,
\* memory_control.v).
THEOREM CpuServesLoadsAndStores ==
    ASSUME FirstRam \in Programs, CodeAddr \subseteq Addr
    PROVE  Spec /\ ram = FirstRam /\ []StoresStayOut
             => []Port!RepliesCorrect /\ Port!NotAbandoned /\ Port!ReplyOnce
<1>1. Port!Spec => []Port!RepliesCorrect
  BY PortCode, PortSizes, PortInstrs, PortHost, Port!RepliesAreCorrect
<1>2. Port!Spec => Port!NotAbandoned
  BY PortCode, PortSizes, PortInstrs, PortHost, Port!NeverAbandoned
<1>3. Port!Spec => Port!ReplyOnce
  BY PortCode, PortSizes, PortInstrs, PortHost, Port!RepliedOnce
<1> QED
  BY <1>1, <1>2, <1>3, CpuImplementsPort, PTL
-----------------------------------------------------------------------------
(* The program.  CpuImplementsIsa and CpuRestartsIsa are about programs    *)
(* that keep to the following rules, each of which the code needs:         *)
(*   StoresStayOut  icache.v never hears of a store, and RV32I asks for a  *)
(*                  FENCE.I that the CPU does not have;                    *)
(*   StaysInCode    a word that is no instruction is a bubble to id.v, and *)
(*                  says nothing to RV32I;                                 *)
(*   EvenTargets    jalr does not clear bit 0 of its target (ex.v:63);     *)
(*   NoNegativeSra  sra and srai shift in zeros (ex.v:133, 168);           *)
(*   ZeroReadsZero  a discarded result is forwarded to the next reader of  *)
(*                  x0 (id.v:222, the run cpu_zero).  ZeroIsKept, last in  *)
(*                  this module, says that only instructions other than    *)
(*                  jumps with destination x0 can bring that about.        *)

Reads1Ops == {"JALR", "OP_IMM", "OP", "LOAD", "STORE", "BRANCH"}
Reads2Ops == {"OP", "STORE", "BRANCH"}
WriteOps == {"LUI", "AUIPC", "JAL", "JALR", "OP_IMM", "OP", "LOAD"}

InstAt(a) == Decode[Number(WordAt(a))]

\* Where the instruction in EX sends the program.
Successor == IF ExJump THEN PcJump ELSE RamIdx(idex.pc + 4)

\* At power-up the words of CodeAddr are instructions.
CodeDefined == \A a \in CodeAddr : Number(WordAt(a)) \in DOMAIN Decode

StaysInCode == idex.opcode # "NON" => Successor \in CodeAddr

EvenTargets == idex.opcode = "JALR" => Wrap(idex.br_addr + idex.br_offset) % 2 = 0

NoNegativeSra ==
    idex.opcode \in {"OP", "OP_IMM"} /\ idex.func3 = "SRL_SRA" /\ idex.alt
        => Signed(idex.reg1) >= 0

Rules == StoresStayOut /\ StaysInCode /\ EvenTargets /\ NoNegativeSra

Obeys == Rules /\ ZeroReadsZero

-----------------------------------------------------------------------------
(* The inductive invariant.  An instruction is followed from its word in   *)
(* the RAM to EX: fetched right, in program order, decoded into its own    *)
(* fields and into the operands the sequential machine would read now.     *)

\* The oldest instruction in the pipeline is one of the program.
OnPath == OldestPc \in CodeAddr

FetchRight == ifid.inst # ZeroWord /\ ifid.pc \in CodeAddr => ifid.inst = WordAt(ifid.pc)

\* Each stage holds the successor of the stage after it, or a bubble; after a
\* reset all are empty.
InOrder ==
    /\ ~pc_enable => pc_tmp = 0 /\ ifid = NoInst /\ idex = NoOp /\ exmem = Bubble
    /\ pc_enable => pc_tmp = RamIdx(pc_o + 4)
    /\ ifid.inst # ZeroWord => pc_o = RamIdx(ifid.pc + 4)
    /\ idex.opcode # "NON" /\ RamIdx(idex.pc + 4) \in CodeAddr =>
         IF ifid.inst # ZeroWord THEN ifid.pc = RamIdx(idex.pc + 4)
         ELSE pc_o = RamIdx(idex.pc + 4)

WritesRight ==
    /\ idex.wreg <=> idex.opcode \in WriteOps
    /\ exmem.op = "STORE" => ~exmemWb.wreg

DecodedRight == idex.opcode # "NON" =>
    LET i == InstAt(idex.pc) IN
    /\ idex.opcode = i.opcode /\ idex.func3 = i.func3 /\ idex.alt = i.alt
    /\ idex.imm = i.imm /\ idex.wd = i.rd
    /\ i.opcode \in Reads1Ops => idex.reg1 = CommittedRegs[i.rs1]
    /\ i.opcode \in Reads2Ops => idex.reg2 = CommittedRegs[i.rs2]
    /\ i.opcode \in {"JAL", "BRANCH"} => idex.br_addr = idex.pc
    /\ i.opcode = "JALR" => idex.br_addr = idex.reg1
    /\ i.opcode \in {"JAL", "JALR", "BRANCH"} => idex.br_offset = i.imm

PInv == CpuTyped /\ CodeDefined /\ OnPath /\ FetchRight /\ InOrder /\ WritesRight /\ DecodedRight
-----------------------------------------------------------------------------
(* Addresses.                                                              *)

\* The remainder is the only number below the divisor that differs by a
\* multiple of it.
LEMMA ModUnique ==
    ASSUME NEW M \in Nat \ {0}, NEW q \in Int, NEW r \in 0 .. M - 1
    PROVE  (M * q + r) % M = r
  OBVIOUS

\* A multiple of the divisor does not matter,
LEMMA ModShift ==
    ASSUME NEW M \in Nat \ {0}, NEW v \in Int, NEW q \in Int
    PROVE  (M * q + v) % M = v % M
<1> DEFINE d == v \div M
           e == v % M
<1>1. v = M * d + e /\ e \in 0 .. M - 1 /\ d \in Int
  OBVIOUS
<1> HIDE DEF d, e
<1>2. M * q + v = M * (q + d) + e
  BY <1>1
<1>3. (M * (q + d) + e) % M = e
  BY <1>1, ModUnique
<1> QED
  BY <1>2, <1>3 DEF e

\* Adding to a remainder, and taking one away.
LEMMA ModAdd ==
    ASSUME NEW M \in Nat \ {0}, NEW v \in Int, NEW k \in Int
    PROVE  ((v % M) + k) % M = (v + k) % M
<1> DEFINE d == v \div M
           e == v % M
<1>1. v = M * d + e /\ e \in Int /\ d \in Int
  OBVIOUS
<1> HIDE DEF d, e
<1>2. v + k = M * d + (e + k)
  BY <1>1
<1> DEFINE x == e + k
<1>3. x \in Int
  BY <1>1
<1> HIDE DEF x
<1>4. (M * d + x) % M = x % M
  BY <1>1, <1>3, ModShift
<1> QED
  BY <1>2, <1>4 DEF e, x

\* nor does it in a difference.
LEMMA ModSub ==
    ASSUME NEW M \in Nat \ {0}, NEW v \in Int, NEW b \in Int
    PROVE  (b - (v % M)) % M = (b - v) % M
<1> DEFINE d == v \div M
           e == v % M
<1>1. v = M * d + e /\ e \in Int /\ d \in Int
  OBVIOUS
<1> HIDE DEF d, e
<1>2. b - v = M * (0 - d) + (b - e)
  BY <1>1
<1> DEFINE x == b - e
           c == 0 - d
<1>3. x \in Int /\ c \in Int
  BY <1>1
<1> HIDE DEF x, c
<1>4. (M * c + x) % M = x % M
  BY <1>1, <1>3, ModShift
<1> QED
  BY <1>2, <1>4 DEF e, x, c

\* RamIdx is the remainder, as far as the address lines reach.
LEMMA RamIdxMod ==
    ASSUME NEW a \in Addr, NEW k \in 0 .. 7
    PROVE  RamIdx(a + k) = (a + k) % MemSize /\ RamIdx(a + k) \in Addr
  BY MemSizeAssumption DEF RamIdx, Addr

\* The byte a store puts at an address is the one whose number is their distance.
LEMMA SpanByte ==
    ASSUME NEW a \in Addr, NEW b \in Addr
    PROVE  /\ (b - a) % MemSize \in Nat
           /\ (b - a) % MemSize \in 0 .. 7 => RamIdx(a + ((b - a) % MemSize)) = b
           /\ \A k \in 0 .. 7 : RamIdx(a + k) = b => (b - a) % MemSize = k
<1>1. (b - a) % MemSize = IF b >= a THEN b - a ELSE b - a + MemSize
  BY MemSizeAssumption DEF Addr
<1> QED
  BY <1>1, MemSizeAssumption DEF Addr, RamIdx
-----------------------------------------------------------------------------
(* What an edge does to the pipeline.                                      *)

\* While MEM waits, nothing before it moves.
LEMMA StallEdge ==
    ASSUME Advance, MemStallReq
    PROVE  /\ ifid' = ifid /\ idex' = idex /\ exmem' = exmem /\ exmemWb' = exmemWb
           /\ memwb' = NoWrite /\ regs' = After(regs, memwb)
           /\ pc_o' = pc_o /\ pc_tmp' = pc_tmp /\ pc_enable'
<1>1. Depth = 5
  BY DEF Depth, StallDepth
<1>2. \A b \in 0 .. 4 : Stalled(b, Depth)
  BY <1>1 DEF Stalled
<1>3. ~IfJump
  BY <1>2 DEF IfJump
<1> QED
  BY <1>2, <1>3 DEF Advance, IfIdTick, IdExTick, ExMemTick, MemWbTick, RegTick, PcTick, After

\* When MEM is free the instruction in EX goes there.
LEMMA MoveEdge ==
    ASSUME Advance, ~MemStallReq
    PROVE  /\ exmem' = ExRequest /\ exmemWb' = ExWrite /\ memwb' = MemWrite
           /\ regs' = After(regs, memwb) /\ ram' = ram /\ pc_enable'
<1>1. Depth \in {0, 2, 3}
  BY DEF Depth, StallDepth
<1>2. ~Stalled(3, Depth) /\ ~Stalled(4, Depth)
  BY <1>1 DEF Stalled
<1>3. ~MemReq.en
  BY DEF MemReq
<1>4. ram' = ram
  BY <1>3 DEF Advance, RamTick, RamWr
<1> QED
  BY <1>2, <1>4 DEF Advance, ExMemTick, MemWbTick, RegTick, PcTick, After

\* What the two stages before EX do when MEM is free.
LEMMA MoveFetch ==
    ASSUME Advance, ~MemStallReq
    PROVE  \/ /\ ExJump
              /\ ifid' = NoInst /\ idex' = NoOp
              /\ pc_o' = PcJump /\ pc_tmp' = RamIdx(PcJump + 4)
           \/ /\ ~ExJump /\ IdStallReq
              /\ ifid' = ifid /\ idex' = NoOp
              /\ pc_o' = pc_o /\ pc_tmp' = pc_tmp
           \/ /\ ~ExJump /\ ~IdStallReq /\ IfStallReq
              /\ ifid' = NoInst /\ idex' = Decoded
              /\ pc_o' = pc_o /\ pc_tmp' = pc_tmp
           \/ /\ ~ExJump /\ ~IdStallReq /\ ~IfStallReq
              /\ ifid' = [pc |-> InstAddr, inst |-> IF FetchDone THEN FetchedInst ELSE ZeroWord]
              /\ idex' = Decoded
              /\ pc_o' = pc_tmp /\ pc_tmp' = RamIdx(pc_tmp + 4)
<1>1. Depth = IF IdStallReq THEN 3 ELSE IF IfStallReq THEN 2 ELSE 0
  BY DEF Depth, StallDepth
<1>2. ~Stalled(3, Depth)
  BY <1>1 DEF Stalled
<1>3. IfJump = ExJump
  BY <1>2 DEF IfJump, ExJump
<1>4. CASE ExJump
  BY <1>3, <1>4 DEF Advance, IfIdTick, IdExTick, PcTick
<1>5. CASE ~ExJump /\ IdStallReq
  <2>1. Stalled(0, Depth) /\ Stalled(1, Depth) /\ Stalled(2, Depth)
    BY <1>1, <1>5 DEF Stalled
  <2> QED
    BY <1>2, <1>3, <1>5, <2>1 DEF Advance, IfIdTick, IdExTick, PcTick
<1>6. CASE ~ExJump /\ ~IdStallReq /\ IfStallReq
  <2>1. Stalled(0, Depth) /\ Stalled(1, Depth) /\ ~Stalled(2, Depth)
    BY <1>1, <1>6 DEF Stalled
  <2> QED
    BY <1>2, <1>3, <1>6, <2>1 DEF Advance, IfIdTick, IdExTick, PcTick
<1>7. CASE ~ExJump /\ ~IdStallReq /\ ~IfStallReq
  <2>1. ~Stalled(0, Depth) /\ ~Stalled(1, Depth) /\ ~Stalled(2, Depth)
    BY <1>1, <1>7 DEF Stalled
  <2> QED
    BY <1>2, <1>3, <1>7, <2>1 DEF Advance, IfIdTick, IdExTick, PcTick
<1> QED
  BY <1>4, <1>5, <1>6, <1>7
-----------------------------------------------------------------------------
(* The memory of the sequential machine.                                   *)

\* The types of the byte port, in the names of Cpu.
LEMMA PortTypes ==
    ASSUME CpuTyped
    PROVE  /\ ram \in [Addr -> Byte] /\ exmem \in Requests \cup {Bubble}
           /\ pc_o \in Addr /\ pc_tmp \in Addr /\ pc_enable \in BOOLEAN
           /\ mem_enable \in BOOLEAN /\ exmem.addr \in Addr
           /\ Width(exmem.func3) \in {1, 2, 4}
<1>1. /\ ram \in [Addr -> Byte] /\ exmem \in Requests \cup {Bubble}
      /\ pc_o \in Addr /\ pc_tmp \in Addr /\ pc_enable \in BOOLEAN
      /\ mem_enable \in BOOLEAN
  BY DEF CpuTyped, Port!IInv, Port!TypeOK, Port!Addr, Addr, Port!Bubble, Bubble,
         Port!ZeroWord, ZeroWord
<1>2. exmem.addr \in Addr
  BY <1>1, MemSizeAssumption DEF Requests, Bubble, Addr
<1> QED
  BY <1>1, <1>2 DEF Width

\* A store under way writes no byte of the program.
LEMMA StoreApart ==
    ASSUME CpuTyped, exmem.op = "STORE", NEW k \in 0 .. Width(exmem.func3) - 1
    PROVE  RamIdx(exmem.addr + k) \notin Guarded
<1>1. exmem \in Requests
  BY PortTypes DEF Bubble
<1> QED
  BY <1>1 DEF Requests, Span

\* Memory with the store in MEM taken as done.
LEMMA CommittedMemType ==
    ASSUME CpuTyped
    PROVE  CommittedMem \in [Addr -> Byte]
<1>1. ASSUME exmem.op = "STORE", NEW a \in Addr, (a - exmem.addr) % MemSize < Width(exmem.func3)
      PROVE  exmem.data[(a - exmem.addr) % MemSize] \in Byte
  <2>1. exmem \in Requests
    BY <1>1, PortTypes DEF Bubble
  <2>2. (a - exmem.addr) % MemSize \in 0 .. 3
    BY <1>1, PortTypes, SpanByte
  <2> QED
    BY <2>1, <2>2 DEF Requests, Word
<1>2. CASE exmem.op = "STORE"
  BY <1>1, <1>2, PortTypes DEF CommittedMem
<1>3. CASE exmem.op # "STORE"
  BY <1>3, PortTypes DEF CommittedMem
<1> QED
  BY <1>2, <1>3

\* The program is the same in both memories.
LEMMA CodeInMem ==
    ASSUME CpuTyped, NEW a \in CodeAddr, CodeAddr \subseteq Addr, NEW k \in 0 .. 3
    PROVE  CommittedMem[(a + k) % MemSize] = WordAt(a)[k]
<1> DEFINE b == RamIdx(a + k)
<1>1. b = (a + k) % MemSize /\ b \in Addr /\ b \in Guarded
  BY RamIdxMod DEF Guarded
<1>2. WordAt(a)[k] = ram[b]
  BY DEF WordAt
<1>3. ASSUME exmem.op = "STORE"
      PROVE  ~((b - exmem.addr) % MemSize < Width(exmem.func3))
  <2> SUFFICES ASSUME (b - exmem.addr) % MemSize < Width(exmem.func3) PROVE FALSE
    OBVIOUS
  <2> DEFINE d == (b - exmem.addr) % MemSize
  <2>1. d \in 0 .. Width(exmem.func3) - 1 /\ d \in 0 .. 7 /\ exmem.addr \in Addr
    BY <1>1, PortTypes, SpanByte
  <2>2. RamIdx(exmem.addr + d) = b
    BY <1>1, <2>1, SpanByte
  <2> QED
    BY <1>1, <1>3, <2>1, <2>2, StoreApart
<1> QED
  BY <1>1, <1>2, <1>3 DEF CommittedMem

\* Once memory_control has reported a store done its bytes are in the RAM.
LEMMA MemSettled ==
    ASSUME CpuTyped, ~MemStallReq
    PROVE  CommittedMem = ram
<1>1. CASE exmem.op = "STORE"
  <2>1. mem_enable
    BY <1>1 DEF MemStallReq, IsMemOp
  <2>2. \A k \in 0 .. Width(exmem.func3) - 1 : ram[RamIdx(exmem.addr + k)] = exmem.data[k]
    BY <1>1, <2>1 DEF CpuTyped, Port!IInv, Port!StoreComplete, Port!Width, Width, Port!RamIdx,
                      RamIdx
  <2>3. ASSUME NEW a \in Addr, (a - exmem.addr) % MemSize < Width(exmem.func3)
        PROVE  exmem.data[(a - exmem.addr) % MemSize] = ram[a]
    <3> DEFINE d == (a - exmem.addr) % MemSize
    <3>1. d \in 0 .. Width(exmem.func3) - 1 /\ d \in 0 .. 7 /\ exmem.addr \in Addr
      BY <2>3, PortTypes, SpanByte
    <3>2. RamIdx(exmem.addr + d) = a
      BY <3>1, SpanByte
    <3> QED
      BY <2>2, <3>1, <3>2
  <2>4. CommittedMem = [a \in Addr |-> ram[a]]
    BY <1>1, <2>3 DEF CommittedMem
  <2> QED
    BY <2>4, PortTypes
<1>2. CASE exmem.op # "STORE"
  BY <1>2 DEF CommittedMem
<1> QED
  BY <1>1, <1>2

\* While a load or store waits, the RAM changes only where a store will write.
LEMMA MemWaits ==
    ASSUME CpuTyped, Advance, MemStallReq
    PROVE  /\ CommittedMem' = CommittedMem
           /\ exmem.op = "LOAD" => ram' = ram
<1>1. exmem' = exmem
  BY StallEdge
<1>2. CASE RamWr(InstReq, MemReq)
  <2>1. MemReq.en /\ exmem.op = "STORE" /\ exmem \in Requests
    <3>1. MemReq.en /\ MemReq.wr
      BY <1>2 DEF RamWr
    <3>2. MemReq.wr = (MemStallReq /\ ~mem_busy /\ exmem.op = "STORE")
      BY DEF MemReq
    <3>3. exmem.op = "STORE"
      BY <3>1, <3>2
    <3> QED
      BY <3>1, <3>3, PortTypes DEF Bubble
  <2>2. /\ Num(InstReq, MemReq) = Width(exmem.func3) /\ ServedAddr(InstReq, MemReq) = exmem.addr
        /\ MemReq.data = StoreData(exmem)
    BY <2>1 DEF Num, ServedAddr, MemReq
  <2>3. flag \in 0 .. Width(exmem.func3) - 1
    <3>1. ~mem_busy /\ flag \in 0 .. 4
      BY <2>1 DEF MemReq, CpuTyped, Port!IInv, Port!TypeOK
    <3>2. CASE flag = 0
      BY <3>2, PortTypes
    <3>3. CASE flag # 0
      BY <2>1, <3>1, <3>3 DEF CpuTyped, Port!IInv, Port!PortOwned, Port!MemOpHeld, Port!Width,
                              Width
    <3> QED
      BY <3>1, <3>2, <3>3, PortTypes
  <2> DEFINE b == RamIdx(exmem.addr + flag)
  <2>4. ram' = [ram EXCEPT ![b] = exmem.data[flag]]
    <3>1. RamOut(MemReq) = exmem.data[flag]
      BY <2>2, <2>3, PortTypes DEF RamOut, StoreData
    <3> QED
      BY <1>2, <2>2, <3>1 DEF Advance, RamTick, RamAddr
  <2>5. b \in Addr /\ (b - exmem.addr) % MemSize = flag
    <3>1. flag \in 0 .. 7 /\ exmem.addr \in Addr
      BY <2>3, PortTypes
    <3>2. b \in Addr
      BY <3>1, RamIdxMod
    <3> QED
      BY <3>1, <3>2, SpanByte
  <2>6. ASSUME NEW a \in Addr, ~((a - exmem.addr) % MemSize < Width(exmem.func3))
        PROVE  ram'[a] = ram[a]
    BY <2>3, <2>4, <2>5, <2>6, PortTypes
  <2> QED
    BY <1>1, <2>1, <2>6 DEF CommittedMem
<1>3. CASE ~RamWr(InstReq, MemReq)
  <2>1. ram' = ram
    BY <1>3 DEF Advance, RamTick
  <2> QED
    BY <1>1, <2>1 DEF CommittedMem
<1> QED
  BY <1>2, <1>3
-----------------------------------------------------------------------------
(* The registers of the sequential machine.                                *)

\* The bytes of a load, zero beyond its width.
LoadWord(x) == [k \in 0 .. 3 |-> IF k < Width(x.func3) THEN ram[RamIdx(x.addr + k)] ELSE 0]

\* The bytes of a load under way.
LEMMA LoadWordType ==
    ASSUME CpuTyped, exmem.op = "LOAD"
    PROVE  Extended(exmem.func3, Number(LoadWord(exmem))) \in Value
<1> DEFINE w == LoadWord(exmem)
           n == Width(exmem.func3)
<1>1. exmem.func3 \in Func3
  BY PortTypes DEF Requests, Bubble
<1>2. w \in Word /\ \A k \in 0 .. 3 : k >= n => w[k] = 0
  <2>1. \A k \in 0 .. 3 : RamIdx(exmem.addr + k) \in Addr
    <3> TAKE k \in 0 .. 3
    <3>1. k \in 0 .. 7 /\ exmem.addr \in Addr
      BY PortTypes
    <3> QED
      BY <3>1, RamIdxMod
  <2>2. 0 \in Byte
    BY ByteAssumption, ByteBitsAssumption
  <2> QED
    BY <2>1, <2>2, PortTypes DEF LoadWord, Word
<1>3. CASE exmem.func3 \in {"B", "H"}
  <2>1. n \in 1 .. 3
    BY <1>3 DEF Width
  <2> HIDE DEF w, n
  <2>2. Number(w) \in 0 .. 2^(ByteBits * n) - 1
    BY <1>2, <2>1, NumberBound
  <2>3. SignExtend(Number(w), n) \in Value
    BY <2>1, <2>2, SignExtendType
  <2> QED
    BY <1>3, <2>3 DEF Extended, w, n
<1>4. CASE exmem.func3 \notin {"B", "H"}
  BY <1>2, <1>4, NumberType DEF Extended
<1> QED
  BY <1>3, <1>4

\* The write-back of a load under way.
LEMMA PendingLoad ==
    ASSUME exmem.op = "LOAD"
    PROVE  PendingWrite = [exmemWb EXCEPT !.wdata = Extended(exmem.func3, Number(LoadWord(exmem)))]
  BY DEF PendingWrite, LoadWord

\* The write-back of the instruction in MEM.
LEMMA PendingType ==
    ASSUME CpuTyped
    PROVE  /\ PendingWrite.wd = exmemWb.wd /\ PendingWrite.wreg = exmemWb.wreg
           /\ PendingWrite.wd \in Reg /\ PendingWrite.wdata \in Value
<1> DEFINE v == Extended(exmem.func3, Number(LoadWord(exmem)))
<1>1. CASE exmem.op = "LOAD"
  <2>1. v \in Value
    BY <1>1, LoadWordType
  <2>2. PendingWrite = [exmemWb EXCEPT !.wdata = v]
    BY <1>1, PendingLoad
  <2> HIDE DEF v
  <2> QED
    BY <2>1, <2>2 DEF CpuTyped, TypeOK
<1>2. CASE exmem.op # "LOAD"
  BY <1>2 DEF PendingWrite, CpuTyped, TypeOK
<1> QED
  BY <1>1, <1>2

\* A register file after a write.
LEMMA AfterType ==
    ASSUME NEW rf \in [Reg -> Value], NEW w, w.wd \in Reg, w.wdata \in Value
    PROVE  /\ After(rf, w) \in [Reg -> Value]
           /\ \A r \in Reg : After(rf, w)[r] = IF w.wreg /\ w.wd # 0 /\ w.wd = r THEN w.wdata
                                               ELSE rf[r]
  BY DEF After

\* Cell 0 reads zero.
LEMMA BaseType ==
    ASSUME CpuTyped
    PROVE  [regs EXCEPT ![0] = 0] \in [Reg -> Value]
  BY SmallFit DEF CpuTyped, TypeOK

\* Registers with the writes in flight taken as done.
LEMMA CommittedRegsType ==
    ASSUME CpuTyped
    PROVE  CommittedRegs \in [Reg -> Value] /\ CommittedRegs[0] = 0
<1> DEFINE b == [regs EXCEPT ![0] = 0]
           c == After(b, memwb)
<1>1. b \in [Reg -> Value] /\ b[0] = 0 /\ 0 \in Reg
  BY BaseType, RegsAssumption DEF Reg, CpuTyped, TypeOK
<1>2. memwb.wd \in Reg /\ memwb.wdata \in Value
  BY DEF CpuTyped, TypeOK
<1> HIDE DEF b
<1>3. c \in [Reg -> Value] /\ c[0] = 0
  BY <1>1, <1>2, AfterType
<1> HIDE DEF c
<1>4. After(c, PendingWrite) \in [Reg -> Value] /\ After(c, PendingWrite)[0] = 0
  BY <1>1, <1>3, PendingType, AfterType
<1> QED
  BY <1>4 DEF CommittedRegs, c, b

\* What leaves MEM for the register file is what was pending there.
LEMMA MemWriteRight ==
    ASSUME CpuTyped, WritesRight, ~MemStallReq, NEW rf
    PROVE  After(rf, MemWrite) = After(rf, PendingWrite)
<1>1. CASE exmem.op = "LOAD"
  <2>1. mem_enable
    BY <1>1 DEF MemStallReq, IsMemOp
  <2>2. mem_rdata = LoadWord(exmem)
    BY <1>1, <2>1, ByteBitsAssumption
       DEF CpuTyped, Port!IInv, Port!LoadCorrect, Port!Width, Width, Port!RamIdx, RamIdx, LoadWord
  <2>3. MemWrite = [exmemWb EXCEPT !.wdata = Extended(exmem.func3, Number(mem_rdata))]
    BY <1>1, <2>1 DEF MemWrite
  <2> QED
    BY <1>1, <2>2, <2>3, PendingLoad
<1>2. CASE exmem.op = "STORE"
  <2>1. ~exmemWb.wreg
    BY <1>2 DEF WritesRight
  <2>2. MemWrite.wreg = exmemWb.wreg /\ PendingWrite.wreg = exmemWb.wreg
    BY MemWriteType, PendingType DEF CpuTyped
  <2> QED
    BY <2>1, <2>2 DEF After
<1>3. CASE exmem.op \notin {"LOAD", "STORE"}
  <2>1. MemWrite.wreg = exmemWb.wreg /\ MemWrite.wd = exmemWb.wd
    BY MemWriteType DEF CpuTyped
  <2>2. MemWrite.wdata = exmemWb.wdata
    BY <1>3 DEF MemWrite
  <2>3. PendingWrite = exmemWb
    BY <1>3 DEF PendingWrite
  <2> QED
    BY <2>1, <2>2, <2>3 DEF After
<1> QED
  BY <1>1, <1>2, <1>3

\* The write-back of an edge.
LEMMA BaseMoves ==
    ASSUME CpuTyped, regs' = After(regs, memwb)
    PROVE  [regs EXCEPT ![0] = 0]' = After([regs EXCEPT ![0] = 0], memwb)
  BY DEF After, CpuTyped, TypeOK

\* While MEM waits the sequential machine sees no register change.
LEMMA RegsWait ==
    ASSUME CpuTyped, Advance, MemStallReq
    PROVE  CommittedRegs' = CommittedRegs
<1>1. PendingWrite' = PendingWrite
  BY StallEdge, MemWaits DEF PendingWrite
<1>2. [regs EXCEPT ![0] = 0]' = After([regs EXCEPT ![0] = 0], memwb)
  BY StallEdge, BaseMoves
<1>3. \A rf : After(rf, memwb') = rf
  BY StallEdge DEF After, NoWrite
<1> QED
  BY <1>1, <1>2, <1>3 DEF CommittedRegs, After

\* When EX is left, its own write is the one change.
LEMMA RegsMove ==
    ASSUME CpuTyped, WritesRight, Advance, ~MemStallReq
    PROVE  /\ CommittedRegs' = After(CommittedRegs, PendingWrite')
           /\ CommittedRegs' = After(After([After(regs, memwb) EXCEPT ![0] = 0], MemWrite), PendingWrite')
<1>1. regs' = After(regs, memwb) /\ memwb' = MemWrite
  BY MoveEdge
<1>2. [regs EXCEPT ![0] = 0]' = After([regs EXCEPT ![0] = 0], memwb)
  BY <1>1, BaseMoves
<1>3. CommittedRegs' = After(After([regs EXCEPT ![0] = 0]', MemWrite), PendingWrite')
  BY <1>1 DEF CommittedRegs, After
<1>4. CommittedRegs' = After(After([regs EXCEPT ![0] = 0]', PendingWrite), PendingWrite')
  BY <1>3, MemWriteRight
<1> QED
  BY <1>1, <1>2, <1>3, <1>4 DEF CommittedRegs

\* What EX hands on is pending in MEM an edge later.
LEMMA PendingMoves ==
    ASSUME Advance, ~MemStallReq
    PROVE  /\ PendingWrite'.wreg = idex.wreg /\ PendingWrite'.wd = idex.wd
           /\ idex.opcode # "LOAD" => PendingWrite' = ExWrite
           /\ idex.opcode = "LOAD" => PendingWrite'.wdata =
                 Extended(idex.func3, Number([k \in 0 .. 3 |->
                    IF k < Width(idex.func3) THEN ram[RamIdx(AddrOf(Ans) + k)] ELSE 0]))
<1>1. exmem' = ExRequest /\ exmemWb' = ExWrite /\ ram' = ram
  BY MoveEdge
<1>2. CASE idex.opcode = "LOAD"
  <2>1. exmem'.op = "LOAD" /\ exmem'.func3 = idex.func3 /\ exmem'.addr = AddrOf(Ans)
    BY <1>1, <1>2 DEF ExRequest
  <2> DEFINE v == Extended(exmem'.func3, Number([k \in 0..3 |-> IF k < Width(exmem'.func3)
                            THEN ram[RamIdx(exmem'.addr + k)] ELSE 0]))
  <2>2. PendingWrite' = [ExWrite EXCEPT !.wdata = v]
    BY <1>1, <2>1 DEF PendingWrite, Extended, SignExtend, Number, Width, RamIdx
  <2> HIDE DEF v
  <2>3. PendingWrite'.wreg = idex.wreg /\ PendingWrite'.wd = idex.wd /\ PendingWrite'.wdata = v
    BY <2>2 DEF ExWrite
  <2> QED
    BY <1>2, <2>1, <2>3 DEF v
<1>3. CASE idex.opcode # "LOAD"
  <2>1. exmem'.op # "LOAD"
    BY <1>1, <1>3 DEF ExRequest, Bubble
  <2> QED
    BY <1>1, <1>3, <2>1 DEF PendingWrite, ExWrite
<1> QED
  BY <1>2, <1>3

\* A forwarded operand is the register all older instructions leave.
LEMMA ForwardRight ==
    ASSUME CpuTyped, WritesRight, Advance, ~MemStallReq, NEW r \in Reg, r # 0, ~LoadUse(r)
    PROVE  Forward(r) = CommittedRegs'[r]
<1> DEFINE b == [After(regs, memwb) EXCEPT ![0] = 0]
           c == After(b, MemWrite)
           p == PendingWrite'
<1>1. CommittedRegs' = After(c, p)
  BY RegsMove
<1>2. b \in [Reg -> Value] /\ b[r] = RegRead(r)
  <2>1. After(regs, memwb) \in [Reg -> Value]
    BY AfterType DEF CpuTyped, TypeOK
  <2>2. After(regs, memwb)[r] = RegRead(r)
    BY AfterType DEF CpuTyped, TypeOK, RegRead
  <2> QED
    BY <2>1, <2>2, SmallFit
<1>3. c \in [Reg -> Value]
      /\ c[r] = IF MemWrite.wreg /\ MemWrite.wd = r THEN MemWrite.wdata ELSE RegRead(r)
  <2>1. MemWrite.wd \in Reg /\ MemWrite.wdata \in Value
    BY MemWriteType DEF CpuTyped, TypeOK
  <2> HIDE DEF b
  <2> QED
    BY <1>2, <2>1, AfterType
<1> HIDE DEF c
<1>4. CASE ExWrite.wreg /\ ExWrite.wd = r
  <2>1. idex.opcode # "LOAD"
    BY <1>4 DEF ExWrite, LoadUse, IfLoad
  <2>2. p = ExWrite
    BY <2>1, PendingMoves
  <2>3. Forward(r) = ExWrite.wdata
    BY <1>4 DEF Forward
  <2> HIDE DEF p
  <2> QED
    BY <1>1, <1>3, <1>4, <2>2, <2>3 DEF After
<1>5. CASE ~(ExWrite.wreg /\ ExWrite.wd = r)
  <2>1. p.wreg = ExWrite.wreg /\ p.wd = ExWrite.wd
    BY PendingMoves DEF ExWrite
  <2>2. Forward(r) = c[r]
    BY <1>3, <1>5 DEF Forward
  <2> HIDE DEF p
  <2> QED
    BY <1>1, <1>3, <1>5, <2>1, <2>2 DEF After
<1> QED
  BY <1>4, <1>5
-----------------------------------------------------------------------------
(* The order of the program.                                               *)

\* No step changes a word of the program.
LEMMA CodeStays ==
    ASSUME FirstRam \in Programs, CodeAddr \subseteq Addr, CpuTyped, StoresStayOut, Advance,
           NEW a \in CodeAddr
    PROVE  WordAt(a)' = WordAt(a)
<1>1. Input \in Port!PipeInput /\ Port!ClientsTick(Input)
  BY InputFits, ClientsFit DEF CpuTyped
<1>2. Port!WordAt(a)' = Port!WordAt(a)
  BY <1>1, PortCode, PortSizes, PortInstrs, PortHost, Port!CodeUntouched DEF CpuTyped
<1> QED
  BY <1>2 DEF Port!WordAt, WordAt, Port!RamIdx, RamIdx

\* The word of zeros is the bubble of the pipeline and no instruction.
LEMMA ZeroIsNone == Number(ZeroWord) \notin DOMAIN Decode
<1>1. Number(ZeroWord) = 0
  BY BytePowers, BytePowerLaws, ByteBitsAssumption DEF Number, ZeroWord
<1> QED
  BY <1>1, DecodeAssumption

\* A word delivered to IF/ID.
LEMMA FetchedRight ==
    ASSUME CpuTyped, FetchDone, pc_o \in CodeAddr
    PROVE  FetchedInst = WordAt(pc_o)
<1>1. InstAddr = pc_o
  BY DEF FetchDone, InstAddr
<1>2. CASE Hit
  BY <1>1, <1>2 DEF Hit, FetchedInst, CpuTyped, Port!IInv, Port!CacheCoherent, Port!Index, Index,
                    Port!Tag, Tag, Port!WordAt, WordAt, Port!RamIdx, RamIdx
<1>3. CASE ~Hit
  BY <1>1, <1>3 DEF FetchDone, FetchedInst, CpuTyped, Port!IInv, Port!FetchReply, Port!WordAt,
                    WordAt, Port!RamIdx, RamIdx
<1> QED
  BY <1>2, <1>3

\* ID sees no instruction in a bubble, and the program's in a word of it.
LEMMA FieldsOfBubble ==
    ASSUME ifid.inst = ZeroWord
    PROVE  Decoded.opcode = "NON" /\ ~Decoded.wreg /\ ~IdStallReq
<1>1. Fields.opcode = "NON" /\ Fields.rs1 = 0 /\ Fields.rs2 = 0
  BY ZeroIsNone DEF Fields
<1>2. ~LoadUse(0)
  BY DEF LoadUse
<1> QED
  BY <1>1, <1>2 DEF Decoded, Writes, IdStallReq

\* An instruction of the program is decoded into its own fields.
LEMMA FieldsOfCode ==
    ASSUME FetchRight, CodeDefined, ifid.inst # ZeroWord, ifid.pc \in CodeAddr
    PROVE  Fields = InstAt(ifid.pc) /\ Fields.opcode \in Opcode
<1>1. Number(ifid.inst) \in DOMAIN Decode /\ ifid.inst = WordAt(ifid.pc)
  BY DEF FetchRight, CodeDefined
<1> QED
  BY <1>1, DecodeAssumption DEF Fields, InstAt

\* The next instruction is at n: in IF/ID, or still to be fetched.
NextAt(n) == IF ifid.inst # ZeroWord THEN ifid.pc = n ELSE pc_o = n

\* Without a jump, what follows the oldest instruction moves up in order.
LEMMA Follow ==
    ASSUME PInv, Advance, ~MemStallReq, ~ExJump, pc_enable, NEW n \in CodeAddr, NextAt(n)
    PROVE  /\ OldestPc' = n /\ InOrder' /\ FetchRight'
           /\ idex'.opcode # "NON" =>
                 /\ idex' = Decoded /\ ifid.inst # ZeroWord /\ ifid.pc = n
                 /\ ~IdStallReq
<1>1. ram' = ram /\ pc_enable'
  BY MoveEdge
<1>2. \A a : WordAt(a)' = WordAt(a)
  BY <1>1 DEF WordAt
<1>3. pc_tmp = RamIdx(pc_o + 4) /\ (ifid.inst # ZeroWord => pc_o = RamIdx(ifid.pc + 4))
  BY DEF PInv, InOrder
<1>4. ifid.inst = ZeroWord => Decoded.opcode = "NON" /\ ~IdStallReq
  BY FieldsOfBubble
<1>5. ifid.inst # ZeroWord => Decoded.opcode # "NON" /\ Decoded.pc = n /\ ifid.pc = n
  <2>1. ifid.inst # ZeroWord => Fields.opcode \in Opcode
    BY FieldsOfCode DEF PInv, NextAt
  <2> QED
    BY <2>1 DEF Decoded, NextAt, Opcode
<1>6. CASE IdStallReq
  <2>1. ifid' = ifid /\ idex' = NoOp /\ pc_o' = pc_o /\ pc_tmp' = pc_tmp
    BY <1>6, MoveFetch
  <2>2. ifid.inst # ZeroWord
    BY <1>4, <1>6
  <2>3. OldestPc' = n
    BY <1>5, <2>1, <2>2 DEF OldestPc, NoOp, ZeroWord
  <2>4. InOrder'
    BY <1>1, <1>3, <2>1 DEF InOrder, NoOp, ZeroWord, RamIdx
  <2>5. FetchRight'
    BY <1>2, <2>1 DEF FetchRight, PInv, ZeroWord
  <2> QED
    BY <2>1, <2>3, <2>4, <2>5 DEF NoOp
<1>7. CASE ~IdStallReq /\ IfStallReq
  <2>1. ifid' = NoInst /\ idex' = Decoded /\ pc_o' = pc_o /\ pc_tmp' = pc_tmp
    BY <1>7, MoveFetch
  <2>2. ifid'.inst = ZeroWord
    BY <2>1 DEF NoInst
  <2>3. OldestPc' = n
    BY <1>1, <1>4, <1>5, <2>1, <2>2 DEF OldestPc, NextAt, ZeroWord
  <2>4. InOrder'
    BY <1>1, <1>3, <1>4, <1>5, <2>1, <2>2 DEF InOrder, ZeroWord, RamIdx
  <2>5. FetchRight'
    BY <2>2 DEF FetchRight, ZeroWord
  <2> QED
    BY <1>4, <1>5, <1>7, <2>1, <2>3, <2>4, <2>5
<1>8. CASE ~IdStallReq /\ ~IfStallReq
  <2>1. /\ ifid' = [pc |-> InstAddr, inst |-> IF FetchDone THEN FetchedInst ELSE ZeroWord]
        /\ idex' = Decoded /\ pc_o' = pc_tmp /\ pc_tmp' = RamIdx(pc_tmp + 4)
    BY <1>8, MoveFetch
  <2>2. InstAddr = pc_o /\ FetchDone
    BY <1>8 DEF InstAddr, IfStallReq
  <2>3. ifid'.pc = pc_o /\ ifid'.inst = FetchedInst
    BY <2>1, <2>2
  <2>4. pc_o \in CodeAddr => ifid'.inst = WordAt(pc_o) /\ ifid'.inst # ZeroWord
    BY <2>2, <2>3, FetchedRight, ZeroIsNone DEF PInv, CodeDefined
  <2>5. OldestPc' = n
    BY <1>1, <1>4, <1>5, <2>1, <2>3, <2>4 DEF OldestPc, NextAt, ZeroWord
  <2>6. InOrder'
    BY <1>1, <1>3, <1>4, <1>5, <2>1, <2>3, <2>4 DEF InOrder, ZeroWord, RamIdx
  <2>7. FetchRight'
    BY <1>2, <2>3, <2>4 DEF FetchRight
  <2> QED
    BY <1>4, <1>5, <1>8, <2>1, <2>5, <2>6, <2>7
<1> QED
  BY <1>6, <1>7, <1>8

\* EX empties, and the two stages before it with a jump.
LEMMA JumpEdge ==
    ASSUME Advance, ~MemStallReq, ExJump
    PROVE  OldestPc' = PcJump /\ InOrder' /\ FetchRight' /\ idex'.opcode = "NON"
<1>1. /\ ifid' = NoInst /\ idex' = NoOp /\ pc_o' = PcJump /\ pc_tmp' = RamIdx(PcJump + 4)
      /\ pc_enable'
  BY MoveFetch, MoveEdge
<1>2. OldestPc' = PcJump
  BY <1>1 DEF OldestPc, NoInst, NoOp, ZeroWord
<1>3. InOrder'
  BY <1>1 DEF InOrder, NoInst, NoOp, ZeroWord, RamIdx
<1>4. FetchRight'
  BY <1>1 DEF FetchRight, NoInst, ZeroWord
<1> QED
  BY <1>1, <1>2, <1>3, <1>4 DEF NoOp

\* The first edge after a reset.
LEMMA FirstEdge ==
    ASSUME PInv, Advance, ~pc_enable
    PROVE  /\ ~MemStallReq /\ OldestPc = 0 /\ OldestPc' = 0 /\ InOrder' /\ FetchRight'
           /\ idex.opcode = "NON" /\ idex'.opcode = "NON"
<1>1. pc_tmp = 0 /\ ifid = NoInst /\ idex = NoOp /\ exmem = Bubble
  BY DEF PInv, InOrder
<1>2. ~MemStallReq /\ ~ExJump /\ ~IfStallReq /\ ifid.inst = ZeroWord /\ idex.opcode = "NON"
  BY <1>1 DEF MemStallReq, IsMemOp, Bubble, ExJump, NoOp, IfStallReq, NoInst
<1>3. ~IdStallReq /\ Decoded.opcode = "NON"
  BY <1>2, FieldsOfBubble
<1>4. /\ ifid' = [pc |-> InstAddr, inst |-> ZeroWord] /\ idex' = Decoded
      /\ pc_o' = 0 /\ pc_tmp' = RamIdx(4) /\ pc_enable'
  <2>1. ~FetchDone
    BY DEF FetchDone
  <2> QED
    BY <1>1, <1>2, <1>3, <2>1, MoveFetch, MoveEdge
<1>5. OldestPc = 0 /\ OldestPc' = 0
  BY <1>2, <1>3, <1>4 DEF OldestPc, ZeroWord
<1>6. InOrder'
  BY <1>3, <1>4 DEF InOrder, ZeroWord, RamIdx
<1>7. FetchRight'
  BY <1>4 DEF FetchRight, ZeroWord
<1> QED
  BY <1>2, <1>3, <1>4, <1>5, <1>6, <1>7
-----------------------------------------------------------------------------
(* The invariant is inductive.                                             *)

\* The oldest instruction moves only when it leaves EX, and to its successor.
LEMMA OrderStep ==
    ASSUME FirstRam \in Programs, CodeAddr \subseteq Addr, PInv, Obeys, Advance
    PROVE  /\ OldestPc' = (IF idex.opcode # "NON" /\ ~MemStallReq THEN Successor ELSE OldestPc)
           /\ OldestPc' \in CodeAddr /\ InOrder' /\ FetchRight'
           /\ ~MemStallReq /\ idex'.opcode # "NON" =>
                 idex' = Decoded /\ ifid.inst # ZeroWord /\ ifid.pc \in CodeAddr /\ ~IdStallReq
<1>1. CASE ~pc_enable
  BY <1>1, FirstEdge DEF PInv, OnPath
<1>2. CASE pc_enable /\ MemStallReq
  <2>1. /\ ifid' = ifid /\ idex' = idex /\ exmem' = exmem
        /\ pc_o' = pc_o /\ pc_tmp' = pc_tmp /\ pc_enable'
    BY <1>2, StallEdge
  <2>2. OldestPc' = OldestPc
    BY <1>2, <2>1 DEF OldestPc, ZeroWord
  <2>3. InOrder'
    BY <1>2, <2>1 DEF PInv, InOrder, ZeroWord, RamIdx
  <2>4. FetchRight'
    BY <2>1, CodeStays DEF PInv, FetchRight, Obeys, Rules, ZeroWord
  <2> QED
    BY <1>2, <2>2, <2>3, <2>4 DEF PInv, OnPath
<1>3. CASE pc_enable /\ ~MemStallReq /\ ExJump
  <2>1. idex.opcode # "NON" /\ Successor = PcJump
    BY <1>3 DEF ExJump, Successor
  <2> QED
    BY <1>3, <2>1, JumpEdge DEF Obeys, Rules, StaysInCode
<1>4. CASE pc_enable /\ ~MemStallReq /\ ~ExJump /\ idex.opcode # "NON"
  <2>1. Successor = RamIdx(idex.pc + 4) /\ Successor \in CodeAddr
    BY <1>4 DEF Obeys, Rules, StaysInCode, Successor
  <2>2. NextAt(Successor)
    BY <1>4, <2>1 DEF NextAt, PInv, InOrder
  <2> QED
    BY <1>4, <2>1, <2>2, Follow
<1>5. CASE pc_enable /\ ~MemStallReq /\ ~ExJump /\ idex.opcode = "NON"
  <2>1. OldestPc \in CodeAddr /\ NextAt(OldestPc)
    BY <1>5 DEF NextAt, PInv, OnPath, OldestPc
  <2> QED
    BY <1>5, <2>1, Follow
<1> QED
  BY <1>1, <1>2, <1>3, <1>4, <1>5

\* Write flags come from the decoder.
LEMMA WritesStep ==
    ASSUME PInv, Advance
    PROVE  WritesRight'
<1>1. CASE MemStallReq
  <2>1. idex' = idex /\ exmem' = exmem /\ exmemWb' = exmemWb
    BY <1>1, StallEdge
  <2> QED
    BY <2>1 DEF PInv, WritesRight
<1>2. CASE ~MemStallReq
  <2>1. exmem' = ExRequest /\ exmemWb' = ExWrite
    BY <1>2, MoveEdge
  <2>2. exmem'.op = "STORE" => ~exmemWb'.wreg
    <3>1. exmem'.op = "STORE" => idex.opcode = "STORE"
      BY <2>1 DEF ExRequest, Bubble
    <3> QED
      BY <2>1, <3>1 DEF ExWrite, PInv, WritesRight, WriteOps
  <2>3. idex' = NoOp \/ idex' = Decoded
    BY <1>2, MoveFetch
  <2>4. idex'.wreg <=> idex'.opcode \in WriteOps
    <3>1. CASE idex' = NoOp
      <4>1. ~idex'.wreg /\ idex'.opcode = "NON"
        BY <3>1 DEF NoOp
      <4>2. "NON" \notin WriteOps
        BY DEF WriteOps
      <4> QED
        BY <4>1, <4>2
    <3>2. CASE idex' = Decoded
      <4>1. (idex'.wreg <=> Writes) /\ idex'.opcode = Fields.opcode
        BY <3>2 DEF Decoded
      <4>2. Writes <=> Fields.opcode \in WriteOps
        BY DEF Writes, WriteOps
      <4> QED
        BY <4>1, <4>2
    <3> QED
      BY <2>3, <3>1, <3>2
  <2> QED
    BY <2>2, <2>4 DEF WritesRight
<1> QED
  BY <1>1, <1>2

\* An operand read while EX is free.
LEMMA OperandRight ==
    ASSUME CpuTyped, CpuTyped', WritesRight, ZeroReadsZero, Advance, ~MemStallReq,
           ~IdStallReq, ~ExJump
    PROVE  /\ Reads1 => Operand1 = CommittedRegs'[Fields.rs1]
           /\ Reads2 => Operand2 = CommittedRegs'[Fields.rs2]
<1>1. Depth \in {0, 2}
  BY DEF Depth, StallDepth
<1>2. ~Stalled(2, Depth)
  BY <1>1 DEF Stalled
<1>3. (Fields.rs1 = 0 => Operand1 = 0) /\ (Fields.rs2 = 0 => Operand2 = 0)
  BY <1>2 DEF ZeroReadsZero, IfJump
<1>4. ~LoadUse(Fields.rs1) /\ ~LoadUse(Fields.rs2)
  BY DEF IdStallReq
<1>5. Fields.rs1 \in Reg /\ Fields.rs2 \in Reg
  BY OperandType DEF CpuTyped
<1>6. CommittedRegs'[0] = 0
  <2>1. CommittedRegs' = After(CommittedRegs, PendingWrite')
    BY RegsMove
  <2> QED
    BY <2>1, CommittedRegsType DEF After
<1>7. ASSUME Reads1 PROVE Operand1 = CommittedRegs'[Fields.rs1]
  <2>1. CASE Fields.rs1 = 0
    BY <1>3, <1>6, <2>1
  <2>2. CASE Fields.rs1 # 0
    <3>1. Operand1 = Forward(Fields.rs1)
      BY <1>4, <1>7 DEF Operand1
    <3> QED
      BY <1>4, <1>5, <2>2, <3>1, ForwardRight
  <2> QED
    BY <2>1, <2>2
<1>8. ASSUME Reads2 PROVE Operand2 = CommittedRegs'[Fields.rs2]
  <2>1. CASE Fields.rs2 = 0
    BY <1>3, <1>6, <2>1
  <2>2. CASE Fields.rs2 # 0
    <3>1. Operand2 = Forward(Fields.rs2)
      BY <1>4, <1>8, <2>2 DEF Operand2
    <3> QED
      BY <1>4, <1>5, <2>2, <3>1, ForwardRight
  <2> QED
    BY <2>1, <2>2
<1> QED
  BY <1>7, <1>8

\* Operands are those the sequential machine reads, waiting or new.
LEMMA DecodedStep ==
    ASSUME FirstRam \in Programs, CodeAddr \subseteq Addr, PInv, Obeys, Advance,
           CpuTyped'
    PROVE  DecodedRight'
<1> SUFFICES ASSUME idex'.opcode # "NON" PROVE DecodedRight'
  BY DEF DecodedRight
<1>1. CASE MemStallReq
  <2>1. idex' = idex /\ CommittedRegs' = CommittedRegs
    BY <1>1, StallEdge, RegsWait DEF PInv
  <2>2. idex.pc \in CodeAddr
    BY <2>1 DEF PInv, OnPath, OldestPc
  <2>3. InstAt(idex.pc)' = InstAt(idex.pc)
    <3>1. PICK a \in CodeAddr : a = idex.pc
      BY <2>2
    <3>2. WordAt(a)' = WordAt(a)
      BY CodeStays DEF PInv, Obeys, Rules
    <3>3. WordAt(idex.pc)' = WordAt(a)'
      BY <2>1, <3>1 DEF WordAt
    <3>4. WordAt(idex.pc)' = WordAt(idex.pc)
      BY <3>1, <3>2, <3>3
    <3> QED
      BY <3>4 DEF InstAt, Number
  <2> QED
    BY <2>1, <2>3 DEF PInv, DecodedRight
<1>2. CASE ~MemStallReq
  <2>1. idex' = Decoded /\ ifid.inst # ZeroWord /\ ifid.pc \in CodeAddr /\ ~IdStallReq
    BY <1>2, OrderStep
  <2>2. ram' = ram
    BY <1>2, MoveEdge
  <2>3. Fields = InstAt(ifid.pc)
    BY <2>1, FieldsOfCode DEF PInv
  <2>4. idex'.pc = ifid.pc
    BY <2>1 DEF Decoded
  <2>5. InstAt(idex.pc)' = Fields
    BY <2>2, <2>3, <2>4 DEF InstAt, Number, WordAt
  <2>6. /\ Reads1 => Operand1 = CommittedRegs'[Fields.rs1]
        /\ Reads2 => Operand2 = CommittedRegs'[Fields.rs2]
    <3>1. ~ExJump
      BY <1>2, MoveFetch DEF NoOp
    <3> QED
      BY <1>2, <2>1, <3>1, OperandRight DEF PInv, Obeys, Rules
  <2>7. /\ idex'.opcode = Fields.opcode /\ idex'.func3 = Fields.func3 /\ idex'.alt = Fields.alt
        /\ idex'.imm = Fields.imm /\ idex'.wd = Fields.rd
        /\ idex'.reg1 = Operand1 /\ idex'.reg2 = Operand2
        /\ Fields.opcode \in {"JAL", "BRANCH"} => idex'.br_addr = ifid.pc
        /\ Fields.opcode = "JALR" => idex'.br_addr = Operand1
        /\ Fields.opcode \in {"JAL", "JALR", "BRANCH"} => idex'.br_offset = Fields.imm
    BY <2>1 DEF Decoded
  <2> QED
    BY <2>4, <2>5, <2>6, <2>7 DEF DecodedRight, Reads1, Reads2, Reads1Ops, Reads2Ops
<1> QED
  BY <1>1, <1>2

\* An edge with rst low.
LEMMA AdvanceStep ==
    ASSUME FirstRam \in Programs, CodeAddr \subseteq Addr, PInv, Obeys, Clock
    PROVE  PInv'
<1>1. Advance
  BY DEF Clock, ClockAbort, ClockReadFirst, ClockReadNext, ClockReadLast, ClockWrite, ClockIdle
<1>2. CpuTyped'
  BY NextTyped DEF PInv, Obeys, Rules, Next
<1>3. CodeDefined'
  <2>1. \A a \in CodeAddr : WordAt(a)' = WordAt(a)
    BY <1>1, CodeStays DEF PInv, Obeys, Rules
  <2> QED
    BY <2>1 DEF CodeDefined, PInv, Number
<1>4. OnPath' /\ InOrder' /\ FetchRight'
  BY <1>1, OrderStep DEF OnPath
<1>5. WritesRight'
  BY <1>1, WritesStep
<1>6. DecodedRight'
  BY <1>1, <1>2, DecodedStep
<1> QED
  BY <1>2, <1>3, <1>4, <1>5, <1>6 DEF PInv

\* A pause.
LEMMA PauseStep ==
    ASSUME FirstRam \in Programs, CodeAddr \subseteq Addr, 0 \in CodeAddr, PInv, Obeys,
           Pause
    PROVE  PInv'
<1>1. /\ ~pc_enable' /\ pc_tmp' = 0 /\ ifid' = NoInst /\ idex' = NoOp /\ exmem' = Bubble
      /\ exmemWb' = NoWrite /\ ram' = ram
  BY DEF Pause, PcReset
<1>2. CpuTyped'
  BY NextTyped DEF PInv, Obeys, Rules, Next
<1>3. CodeDefined'
  BY <1>1 DEF CodeDefined, PInv, Number, WordAt
<1>4. OnPath'
  BY <1>1 DEF OnPath, OldestPc, NoOp, NoInst, ZeroWord
<1>5. FetchRight' /\ InOrder'
  BY <1>1 DEF FetchRight, InOrder, NoOp, NoInst, ZeroWord, Bubble
<1>6. WritesRight'
  <2>1. ~idex'.wreg /\ idex'.opcode = "NON" /\ exmem'.op = "OTHER"
    BY <1>1 DEF NoOp, Bubble
  <2>2. "NON" \notin WriteOps
    BY DEF WriteOps
  <2> QED
    BY <2>1, <2>2 DEF WritesRight
<1>7. DecodedRight'
  BY <1>1 DEF DecodedRight, NoOp
<1> QED
  BY <1>2, <1>3, <1>4, <1>5, <1>6, <1>7 DEF PInv

\* Power-up.
LEMMA InitPInv ==
    ASSUME FirstRam \in Programs, CodeAddr \subseteq Addr, 0 \in CodeAddr, Init, ram = FirstRam,
           CodeDefined
    PROVE  PInv
<1>1. CpuTyped
  BY InitTyped
<1>2. /\ ~pc_enable /\ pc_tmp = 0 /\ ifid = NoInst /\ idex = NoOp /\ exmem = Bubble
  BY DEF Init
<1>3. OnPath
  BY <1>2 DEF OnPath, OldestPc, NoOp, NoInst
<1>4. FetchRight /\ InOrder
  BY <1>2 DEF FetchRight, InOrder, NoOp, NoInst
<1>5. WritesRight
  <2>1. ~idex.wreg /\ idex.opcode = "NON" /\ exmem.op = "OTHER"
    BY <1>2 DEF NoOp, Bubble
  <2>2. "NON" \notin WriteOps
    BY DEF WriteOps
  <2> QED
    BY <2>1, <2>2 DEF WritesRight
<1>6. DecodedRight
  BY <1>2 DEF DecodedRight, NoOp
<1> QED
  BY <1>1, <1>3, <1>4, <1>5, <1>6 DEF PInv

\* Any step.
LEMMA NextPInv ==
    ASSUME FirstRam \in Programs, CodeAddr \subseteq Addr, 0 \in CodeAddr, PInv, Obeys,
           [Next]_vars
    PROVE  PInv'
<1>1. CASE Clock
  BY <1>1, AdvanceStep
<1>2. CASE Pause
  BY <1>2, PauseStep
<1>3. CASE UNCHANGED vars
  <2>1. UNCHANGED <<flag, mem_busy, inst_busy, inst_enable, inst_data, mem_enable, mem_rdata,
                    l_data, ram, q_addr, pc_o, pc_tmp, pc_enable, i_cache_valid, i_cache_tag,
                    i_cache_data, exmem, ifid, idex, exmemWb, memwb, regs>>
    BY <1>3 DEF vars, pipeVars, mcVars, ramVars, pcVars, cacheVars
  <2>2. CpuTyped'
    BY <1>3, NextTyped DEF PInv, Obeys, Rules
  <2>3. CodeDefined' /\ OnPath' /\ FetchRight' /\ InOrder' /\ WritesRight'
    BY <2>1 DEF PInv, CodeDefined, OnPath, FetchRight, InOrder, WritesRight, OldestPc, WordAt,
                Number, RamIdx, ZeroWord
  <2>4. CommittedRegs' = CommittedRegs
    BY <2>1 DEF CommittedRegs, PendingWrite, After
  <2>5. InstAt(idex.pc)' = InstAt(idex.pc)
    BY <2>1 DEF InstAt, Number, WordAt
  <2>6. DecodedRight'
    BY <2>1, <2>4, <2>5 DEF PInv, DecodedRight
  <2> QED
    BY <2>2, <2>3, <2>6 DEF PInv
<1> QED
  BY <1>1, <1>2, <1>3 DEF Next
-----------------------------------------------------------------------------
(* The machine's memory and registers, as an instruction in EX meets them. *)

\* Little-endian numbers are the same on both sides.
LEMMA StoredIs ==
    ASSUME CommittedMem \in [Addr -> Byte], NEW a \in Int, NEW n \in {1, 2, 4}, NEW w,
           \A k \in 0 .. 3 : w[k] = IF k < n THEN CommittedMem[(a + k) % MemSize] ELSE 0
    PROVE  Arch!Stored(a, n) = Number(w)
<1> DEFINE P(k) == 2^(ByteBits * k)
           part(k) == IF k < n THEN CommittedMem[(a + k) % MemSize] * P(k) ELSE 0
<1>1. Number(w) = w[0] + w[1] * P(1) + w[2] * P(2) + w[3] * P(3)
  BY BytePowerLaws DEF Number
<1>2. \A k \in 0 .. 3 : P(k) \in Int
  BY BytePowers
<1>3. P(0) = 1
  BY BytePowerLaws
<1>4. Arch!Stored(a, n) = part(0) + part(1) + part(2) + part(3)
  BY DEF Arch!Stored
<1>5. \A k \in 0 .. 3 : w[k] \in Int
  <2> TAKE k \in 0 .. 3
  <2>1. (a + k) % MemSize \in Addr
    BY MemSizeAssumption DEF Addr
  <2>2. w[k] \in Byte \cup {0}
    <3>1. w[k] = IF k < n THEN CommittedMem[(a + k) % MemSize] ELSE 0
      OBVIOUS
    <3> DEFINE b == (a + k) % MemSize
    <3> HIDE DEF b
    <3>2. b \in Addr => CommittedMem[b] \in Byte
      OBVIOUS
    <3> QED
      BY <2>1, <3>1, <3>2 DEF b
  <2>3. \A x \in Byte \cup {0} : x \in Int
    BY ByteBitsAssumption, BytePowers
  <2> QED
    BY <2>2, <2>3, Zenon
<1>6. \A k \in 0 .. 3 : part(k) = w[k] * P(k)
  <2> TAKE k \in 0 .. 3
  <2>1. CASE k < n
    BY <2>1
  <2>2. CASE ~(k < n)
    <3>1. part(k) = 0 /\ w[k] = 0 /\ P(k) \in Int
      BY <2>2, <1>2
    <3> HIDE DEF part, P
    <3> QED
      BY <3>1
  <2> QED
    BY <2>1, <2>2
<1>7. w[0] * P(0) = w[0]
  <2> HIDE DEF P
  <2> QED
    BY <1>3, <1>5
<1> HIDE DEF P, part
<1>8. part(0) = w[0] /\ part(1) = w[1] * P(1) /\ part(2) = w[2] * P(2) /\ part(3) = w[3] * P(3)
  BY <1>6, <1>7
<1> QED
  BY <1>1, <1>4, <1>8

\* The sequential machine fetches what the pipeline fetched.
LEMMA ArchFetch ==
    ASSUME CpuTyped, CodeAddr \subseteq Addr, NEW a \in CodeAddr
    PROVE  Arch!Stored(a, 4) = Number(WordAt(a))
<1>1. \A k \in 0 .. 3 : WordAt(a)[k] = IF k < 4 THEN CommittedMem[(a + k) % MemSize] ELSE 0
  <2> TAKE k \in 0 .. 3
  <2>1. CommittedMem[(a + k) % MemSize] = WordAt(a)[k]
    BY CodeInMem
  <2> QED
    BY <2>1
<1>2. a \in Int
  BY DEF Addr
<1> QED
  BY <1>1, <1>2, CommittedMemType, StoredIs

\* A load in EX will bring the number its bytes hold.
LEMMA ArchLoad ==
    ASSUME CpuTyped, ~MemStallReq, NEW v \in Int, NEW n \in {1, 2, 4}
    PROVE  Arch!Stored(v, n)
             = Number([k \in 0 .. 3 |-> IF k < n THEN ram[RamIdx((v % MemSize) + k)] ELSE 0])
<1> DEFINE w == [k \in 0 .. 3 |-> IF k < n THEN ram[RamIdx((v % MemSize) + k)] ELSE 0]
<1>1. \A k \in 0 .. 3 : RamIdx((v % MemSize) + k) = (v + k) % MemSize
  <2> TAKE k \in 0 .. 3
  <2> DEFINE e == v % MemSize
  <2>1. e \in Addr /\ k \in 0 .. 7
    BY MemSizeAssumption DEF Addr
  <2>2. (e + k) % MemSize = (v + k) % MemSize
    <3>1. MemSize \in Nat \ {0} /\ k \in Int
      BY MemSizeAssumption
    <3> QED
      BY <3>1, ModAdd
  <2> HIDE DEF e
  <2>3. RamIdx(e + k) = (e + k) % MemSize
    BY <2>1, RamIdxMod
  <2> QED
    BY <2>2, <2>3 DEF e
<1>2. CommittedMem = ram
  BY MemSettled
<1>3. \A k \in 0 .. 3 : w[k] = IF k < n THEN CommittedMem[(v + k) % MemSize] ELSE 0
  BY <1>1, <1>2
<1> HIDE DEF w
<1>4. Arch!Stored(v, n) = Number(w)
  BY <1>3, CommittedMemType, StoredIs
<1> QED
  BY <1>4 DEF w

\* The memory once a store has left EX.
LEMMA ArchStore ==
    ASSUME CpuTyped, Advance, ~MemStallReq, idex.opcode = "STORE", idex.func3 \in {"B", "H", "W"}
    PROVE  CommittedMem' = Arch!MemAfterStore(Ans, Arch!Size(idex.func3), idex.reg2)
<1> DEFINE e == AddrOf(Ans)
<1>1. exmem' = [op |-> "STORE", func3 |-> idex.func3, addr |-> e, data |-> AsWord(idex.reg2)]
      /\ ram' = ram
  BY MoveEdge DEF ExRequest
<1>2. Width(idex.func3) = Arch!Size(idex.func3) /\ Width(idex.func3) \in {1, 2, 4}
  BY DEF Width, Arch!Size
<1>3. Ans \in Int /\ e = Ans % MemSize
  <2>1. idex.reg1 + idex.imm \in Int
    BY DEF CpuTyped, TypeOK, Value
  <2>2. Ans = Wrap(idex.reg1 + idex.imm)
    BY DEF Ans
  <2> DEFINE x == idex.reg1 + idex.imm
  <2> HIDE DEF x
  <2>3. x \in Int => Wrap(x) \in Int /\ Wrap(Wrap(x)) = Wrap(x)
    BY BytePowers DEF Wrap
  <2> QED
    BY <2>1, <2>2, <2>3 DEF AddrOf, x
<1> HIDE DEF e
<1>4. CommittedMem' = [a \in Addr |-> IF (a - e) % MemSize < Width(idex.func3)
                                      THEN AsWord(idex.reg2)[(a - e) % MemSize] ELSE ram[a]]
  BY <1>1 DEF CommittedMem, Width
<1>5. \A a \in Addr : (a - e) % MemSize = (a - Ans) % MemSize /\ (a - e) % MemSize \in Nat
  <2> TAKE a \in Addr
  <2>1. MemSize \in Nat \ {0} /\ a \in Int
    BY MemSizeAssumption DEF Addr
  <2>2. (a - (Ans % MemSize)) % MemSize = (a - Ans) % MemSize
    BY <1>3, <2>1, ModSub
  <2>3. (a - Ans) % MemSize \in Nat
    BY <1>3, <2>1
  <2> QED
    BY <1>3, <2>2, <2>3
<1>6. DOMAIN CommittedMem = Addr /\ CommittedMem = ram
  BY MemSettled, CommittedMemType
<1>7. \A k \in 0 .. 3 : AsWord(idex.reg2)[k] = Arch!ByteOf(idex.reg2, k)
  BY DEF AsWord, Arch!ByteOf
<1>8. \A a \in Addr : (a - Ans) % MemSize < Width(idex.func3) => (a - Ans) % MemSize \in 0 .. 3
  BY <1>2, <1>5
<1> QED
  BY <1>2, <1>4, <1>5, <1>6, <1>7, <1>8 DEF Arch!MemAfterStore

\* The registers once an instruction has left EX.
LEMMA ArchWrite ==
    ASSUME CpuTyped, WritesRight, Advance, ~MemStallReq
    PROVE  /\ idex.opcode \in WriteOps =>
                 CommittedRegs' = Arch!Written(idex.wd, PendingWrite'.wdata)
           /\ idex.opcode \notin WriteOps => CommittedRegs' = CommittedRegs
<1>1. CommittedRegs' = After(CommittedRegs, PendingWrite')
  BY RegsMove
<1>2. PendingWrite'.wreg = idex.wreg /\ PendingWrite'.wd = idex.wd
  BY PendingMoves
<1>3. idex.opcode \in WriteOps <=> PendingWrite'.wreg
  BY <1>2 DEF WritesRight
<1> QED
  BY <1>1, <1>2, <1>3 DEF After, Arch!Written

\* Where the instruction in EX goes is where RV32I sends it.
LEMMA ArchTarget ==
    ASSUME CpuTyped, DecodedRight, EvenTargets, idex.opcode # "NON",
           NEW i, i = InstAt(idex.pc)
    PROVE  /\ ~ExJump => Successor = (idex.pc + 4) % MemSize
           /\ ExJump /\ i.opcode \in {"JAL", "BRANCH"} =>
                 Successor = ((idex.pc + i.imm) % 2^XLEN) % MemSize
           /\ i.opcode = "JALR" =>
                 LET ea == (idex.reg1 + i.imm) % 2^XLEN
                 IN  Successor = (ea - (ea % 2)) % MemSize
<1>1. idex.opcode = i.opcode /\ idex.imm = i.imm
  BY DEF DecodedRight
<1>2. CASE ~ExJump
  <2>1. idex.pc \in Addr /\ 4 \in 0 .. 7
    BY DEF CpuTyped
  <2>2. RamIdx(idex.pc + 4) = (idex.pc + 4) % MemSize
    BY <2>1, RamIdxMod
  <2>3. i.opcode # "JALR"
    BY <1>1, <1>2 DEF ExJump
  <2> QED
    BY <1>2, <2>2, <2>3 DEF Successor
<1>3. CASE ExJump /\ i.opcode \in {"JAL", "BRANCH"}
  <2>1. idex.br_addr = idex.pc /\ idex.br_offset = i.imm
    BY <1>3 DEF DecodedRight
  <2> QED
    BY <1>3, <2>1 DEF Successor, PcJump, AddrOf, Wrap
<1>4. CASE i.opcode = "JALR"
  <2>1. idex.br_addr = idex.reg1 /\ idex.br_offset = i.imm
    BY <1>4 DEF DecodedRight
  <2>2. ExJump
    BY <1>1, <1>4 DEF ExJump
  <2> DEFINE ea == Wrap(idex.reg1 + i.imm)
  <2>3. ea % 2 = 0 /\ Successor = ea % MemSize
    BY <1>1, <1>4, <2>1, <2>2 DEF EvenTargets, Successor, PcJump, AddrOf
  <2>4. ea \in Int
    <3>1. idex.reg1 + i.imm \in Int
      BY <1>1 DEF CpuTyped, TypeOK, Value
    <3> QED
      BY <3>1, WrapFits DEF Value
  <2>5. ea = (idex.reg1 + i.imm) % 2^XLEN
    BY DEF Wrap
  <2> HIDE DEF ea
  <2>6. Successor = (ea - (ea % 2)) % MemSize
    BY <2>3, <2>4
  <2> QED
    BY <1>4, <2>2, <2>5, <2>6
<1>5. CASE ExJump /\ i.opcode \notin {"JAL", "BRANCH", "JALR"}
  BY <1>1, <1>5 DEF ExJump
<1> QED
  BY <1>2, <1>3, <1>4, <1>5
-----------------------------------------------------------------------------
(* Steps of the pipeline are steps of the machine.                         *)

\* What EX computes and decides.
LEMMA AluAgrees ==
    ASSUME PInv, NoNegativeSra
    PROVE  /\ idex.opcode = "OP_IMM" =>
                  Ans = Arch!RvOpImm(idex.func3, idex.alt, idex.reg1, idex.imm)
           /\ idex.opcode = "OP" =>
                  Ans = Arch!RvOp(idex.func3, idex.alt, idex.reg1, idex.reg2)
           /\ idex.opcode = "BRANCH" =>
                  (BranchTaken(idex.func3, idex.reg1, idex.reg2)
                    <=> Arch!RvTaken(idex.func3, idex.reg1, idex.reg2))
<1> DEFINE i == InstAt(idex.pc)
<1>1. idex.reg1 \in Value /\ idex.reg2 \in Value /\ idex.imm \in Value
  BY DEF PInv, CpuTyped, TypeOK
<1>2. idex.opcode # "NON" => idex.pc \in CodeAddr
  BY DEF PInv, OnPath, OldestPc
<1>3. idex.opcode # "NON" =>
          /\ idex.opcode = i.opcode /\ idex.func3 = i.func3 /\ idex.alt = i.alt
          /\ Number(WordAt(idex.pc)) \in DOMAIN Decode
  BY <1>2 DEF PInv, DecodedRight, CodeDefined
<1>4. /\ idex.opcode \in {"OP", "OP_IMM"} =>
            idex.func3 \in Func3Op /\ idex.alt \in BOOLEAN
      /\ idex.opcode = "BRANCH" =>
            idex.func3 \in {"BEQ", "BNE", "BLT", "BGE", "BLTU", "BGEU"}
  BY <1>3, DecodeAssumption DEF InstAt
<1>5. ASSUME idex.opcode = "OP_IMM"
      PROVE  Ans = Arch!RvOpImm(idex.func3, idex.alt, idex.reg1, idex.imm)
  <2> DEFINE v == idex.alt /\ idex.func3 = "SRL_SRA"
  <2>1. v \in BOOLEAN /\ idex.func3 \in Func3Op
    BY <1>4, <1>5
  <2>2. idex.func3 = "SRL_SRA" /\ v => Signed(idex.reg1) >= 0
    BY <1>5 DEF NoNegativeSra
  <2>3. Ans = AluOp(idex.func3, v, idex.reg1, idex.imm)
    BY <1>5 DEF Ans, AluOpImm
  <2>4. Arch!RvOpImm(idex.func3, idex.alt, idex.reg1, idex.imm)
          = Arch!RvOp(idex.func3, v, idex.reg1, idex.imm)
    BY DEF Arch!RvOpImm
  <2> HIDE DEF v
  <2> QED
    BY <1>1, <2>1, <2>2, <2>3, <2>4, OpRight
<1>6. ASSUME idex.opcode = "OP"
      PROVE  Ans = Arch!RvOp(idex.func3, idex.alt, idex.reg1, idex.reg2)
  <2>1. idex.alt \in BOOLEAN /\ idex.func3 \in Func3Op
    BY <1>4, <1>6
  <2>2. idex.func3 = "SRL_SRA" /\ idex.alt => Signed(idex.reg1) >= 0
    BY <1>6 DEF NoNegativeSra
  <2>3. Ans = AluOp(idex.func3, idex.alt, idex.reg1, idex.reg2)
    BY <1>6 DEF Ans
  <2> QED
    BY <1>1, <2>1, <2>2, <2>3, OpRight
<1>7. ASSUME idex.opcode = "BRANCH"
      PROVE  BranchTaken(idex.func3, idex.reg1, idex.reg2)
               <=> Arch!RvTaken(idex.func3, idex.reg1, idex.reg2)
  BY <1>1, <1>4, <1>7, TakenRight
<1> QED
  BY <1>5, <1>6, <1>7

\* An instruction that leaves EX does what RV32I says.
LEMMA Retire ==
    ASSUME FirstRam \in Programs, CodeAddr \subseteq Addr, PInv, Obeys, Advance,
           ~MemStallReq, idex.opcode # "NON"
    PROVE  Arch!Step
<1> DEFINE i == InstAt(idex.pc)
           w == PendingWrite'.wdata
           c == OldestPc
<1>1. c = idex.pc /\ c \in CodeAddr /\ c \in Addr
  BY DEF PInv, OnPath, OldestPc
<1>2. /\ Arch!Stored(c, 4) \in DOMAIN Decode /\ i = Decode[Arch!Stored(c, 4)]
      /\ i.opcode \in Opcode /\ i.imm \in Value
  <2>1. Arch!Stored(c, 4) = Number(WordAt(c))
    BY <1>1, ArchFetch DEF PInv
  <2>2. Number(WordAt(c)) \in DOMAIN Decode
    BY <1>1 DEF PInv, CodeDefined
  <2> QED
    BY <1>1, <2>1, <2>2, DecodeAssumption DEF InstAt
<1>3. /\ idex.opcode = i.opcode /\ idex.func3 = i.func3 /\ idex.alt = i.alt
      /\ idex.imm = i.imm /\ idex.wd = i.rd
      /\ i.opcode \in Reads1Ops => idex.reg1 = CommittedRegs[i.rs1]
      /\ i.opcode \in Reads2Ops => idex.reg2 = CommittedRegs[i.rs2]
  BY DEF PInv, DecodedRight
<1>4. OldestPc' = Successor
  BY OrderStep
<1>5. /\ i.opcode \in WriteOps => CommittedRegs' = Arch!Written(i.rd, w)
      /\ i.opcode \notin WriteOps => CommittedRegs' = CommittedRegs
  BY <1>3, ArchWrite DEF PInv
<1>6. i.opcode \in WriteOps \ {"LOAD"} => w = Ans
  BY <1>3, PendingMoves DEF ExWrite
<1>7. CommittedMem = ram /\ ram' = ram /\ exmem' = ExRequest
  BY MemSettled, MoveEdge DEF PInv
<1>8. i.opcode # "STORE" => CommittedMem' = CommittedMem
  BY <1>3, <1>7 DEF CommittedMem, ExRequest, Bubble
<1>9. /\ ~ExJump => Successor = (c + 4) % MemSize
      /\ ExJump /\ i.opcode \in {"JAL", "BRANCH"} =>
            Successor = ((c + i.imm) % 2^XLEN) % MemSize
      /\ i.opcode = "JALR" =>
            LET ea == (idex.reg1 + i.imm) % 2^XLEN IN Successor = (ea - (ea % 2)) % MemSize
  BY <1>1, ArchTarget DEF PInv, Obeys, Rules
<1>10. ExJump <=> \/ i.opcode \in {"JAL", "JALR"}
                  \/ i.opcode = "BRANCH" /\ Arch!RvTaken(i.func3, idex.reg1, idex.reg2)
  BY <1>3, AluAgrees DEF ExJump, Obeys, Rules
<1>11. (c + 4) % 2^XLEN = c + 4 /\ c \in Int /\ i.imm \in Int
  BY <1>1, <1>2, LinkAssumption, BytePowers, MemSizeAssumption DEF Addr, Value
<1>12. i.opcode \in {"LOAD", "STORE"} =>
          /\ Ans = (idex.reg1 + i.imm) % 2^XLEN /\ Ans \in Int /\ AddrOf(Ans) = Ans % MemSize
          /\ Width(i.func3) = Arch!Size(i.func3) /\ Arch!Size(i.func3) \in {1, 2, 4}
  <2>1. i.opcode \in {"LOAD", "STORE"} => Ans = Wrap(idex.reg1 + i.imm)
    BY <1>3 DEF Ans
  <2>2. idex.reg1 + i.imm \in Int
    BY <1>11 DEF PInv, CpuTyped, TypeOK, Value
  <2> DEFINE x == idex.reg1 + i.imm
  <2> HIDE DEF x, i
  <2>3. x \in Int => Wrap(x) \in Int /\ Wrap(Wrap(x)) = Wrap(x)
    BY BytePowers DEF Wrap
  <2>4. i.opcode \in {"LOAD", "STORE"} =>
          Ans = Wrap(x) /\ Ans \in Int /\ AddrOf(Ans) = Ans % MemSize
    BY <2>1, <2>2, <2>3 DEF AddrOf, x
  <2>5. Wrap(x) = (idex.reg1 + i.imm) % 2^XLEN
    BY DEF Wrap, x
  <2>6. i.opcode \in {"LOAD", "STORE"} =>
          Width(i.func3) = Arch!Size(i.func3) /\ Arch!Size(i.func3) \in {1, 2, 4}
    BY <1>2, DecodeAssumption DEF Func3, Width, Arch!Size
  <2> QED
    BY <2>4, <2>5, <2>6
<1>13. i.opcode = "LOAD" =>
          LET raw == Arch!Stored(Ans, Arch!Size(i.func3))
          IN  w = IF i.func3 \in {"B", "H"} THEN Arch!SignExtend(raw, Arch!Size(i.func3)) ELSE raw
  <2> SUFFICES ASSUME i.opcode = "LOAD"
               PROVE  w = LET raw == Arch!Stored(Ans, Arch!Size(i.func3))
                          IN  IF i.func3 \in {"B", "H"}
                              THEN Arch!SignExtend(raw, Arch!Size(i.func3)) ELSE raw
    OBVIOUS
  <2> DEFINE n == Arch!Size(i.func3)
             raw == Number([k \in 0 .. 3 |->
                              IF k < n THEN ram[RamIdx((Ans % MemSize) + k)] ELSE 0])
  <2>1. w = Extended(i.func3, Number([k \in 0 .. 3 |->
              IF k < Width(i.func3) THEN ram[RamIdx(AddrOf(Ans) + k)] ELSE 0]))
    BY <1>3, PendingMoves
  <2>2. w = Extended(i.func3, raw)
    BY <1>12, <2>1
  <2>3. Arch!Stored(Ans, n) = raw
    BY <1>12, ArchLoad DEF PInv
  <2> HIDE DEF raw, w, i
  <2> QED
    BY <1>12, <2>2, <2>3 DEF Extended, SignExtend, Arch!SignExtend
<1>14. i.opcode = "STORE" =>
          CommittedMem' = Arch!MemAfterStore(Ans, Arch!Size(i.func3), idex.reg2)
  <2>1. i.opcode = "STORE" => i.func3 \in {"B", "H", "W"}
    BY <1>2, DecodeAssumption
  <2> QED
    BY <1>3, <2>1, ArchStore DEF PInv
<1> HIDE DEF i, w, c
<1>15. CASE i.opcode \in {"LUI", "AUIPC"}
  <2>1. /\ i.opcode = "LUI" => w = i.imm
        /\ i.opcode = "AUIPC" => w = (c + i.imm) % 2^XLEN
    <3>1. Wrap(i.imm + c) = (c + i.imm) % 2^XLEN
      <4>1. i.imm + c = c + i.imm
        BY <1>11
      <4> QED
        BY <4>1 DEF Wrap
    <3> QED
      BY <1>1, <1>3, <1>6, <3>1 DEF Ans, WriteOps
  <2>2. CommittedRegs' = Arch!Written(i.rd, w) /\ CommittedMem' = CommittedMem
        /\ OldestPc' = (c + 4) % MemSize
    BY <1>4, <1>5, <1>8, <1>9, <1>10, <1>15 DEF WriteOps
  <2> QED
    BY <1>2, <1>15, <2>1, <2>2 DEF Arch!Step, c
<1>16. CASE i.opcode \in {"JAL", "JALR"}
  <2>1. w = c + 4
    BY <1>1, <1>3, <1>6, <1>11, <1>16 DEF Ans, Wrap, WriteOps
  <2>2. CommittedRegs' = Arch!Written(i.rd, c + 4) /\ CommittedMem' = CommittedMem
    BY <1>5, <1>8, <1>16, <2>1 DEF WriteOps
  <2>3. i.opcode = "JAL" => OldestPc' = ((c + i.imm) % 2^XLEN) % MemSize
    BY <1>4, <1>9, <1>10
  <2>4. i.opcode = "JALR" =>
          LET ea == (CommittedRegs[i.rs1] + i.imm) % 2^XLEN IN OldestPc' = (ea - (ea % 2)) % MemSize
    BY <1>3, <1>4, <1>9 DEF Reads1Ops
  <2> QED
    BY <1>2, <1>16, <2>2, <2>3, <2>4 DEF Arch!Step, c
<1>17. CASE i.opcode = "BRANCH"
  <2>1. idex.reg1 = CommittedRegs[i.rs1] /\ idex.reg2 = CommittedRegs[i.rs2]
    BY <1>3, <1>17 DEF Reads1Ops, Reads2Ops
  <2>2. CommittedRegs' = CommittedRegs /\ CommittedMem' = CommittedMem
    BY <1>5, <1>8, <1>17 DEF WriteOps
  <2>3. OldestPc' = IF Arch!RvTaken(i.func3, CommittedRegs[i.rs1], CommittedRegs[i.rs2])
                    THEN ((c + i.imm) % 2^XLEN) % MemSize ELSE (c + 4) % MemSize
    BY <1>4, <1>9, <1>10, <1>17, <2>1
  <2> QED
    BY <1>2, <1>17, <2>2, <2>3 DEF Arch!Step, c
<1>18. CASE i.opcode \in {"OP_IMM", "OP"}
  <2>1. /\ i.opcode = "OP_IMM" =>
             w = Arch!RvOpImm(i.func3, i.alt, CommittedRegs[i.rs1], i.imm)
        /\ i.opcode = "OP" =>
             w = Arch!RvOp(i.func3, i.alt, CommittedRegs[i.rs1], CommittedRegs[i.rs2])
    <3>1. w = Ans
      BY <1>6, <1>18 DEF WriteOps
    <3> QED
      BY <1>3, <3>1, AluAgrees DEF Obeys, Rules, Reads1Ops, Reads2Ops
  <2>2. CommittedRegs' = Arch!Written(i.rd, w) /\ CommittedMem' = CommittedMem
        /\ OldestPc' = (c + 4) % MemSize
    BY <1>4, <1>5, <1>8, <1>9, <1>10, <1>18 DEF WriteOps
  <2> QED
    BY <1>2, <1>18, <2>1, <2>2 DEF Arch!Step, c
<1>19. CASE i.opcode = "LOAD"
  <2>1. Ans = (CommittedRegs[i.rs1] + i.imm) % 2^XLEN
    BY <1>3, <1>12, <1>19 DEF Reads1Ops
  <2>2. CommittedRegs' = Arch!Written(i.rd, w) /\ CommittedMem' = CommittedMem
        /\ OldestPc' = (c + 4) % MemSize
    BY <1>4, <1>5, <1>8, <1>9, <1>10, <1>19 DEF WriteOps
  <2> QED
    BY <1>2, <1>13, <1>19, <2>1, <2>2 DEF Arch!Step, c
<1>20. CASE i.opcode = "STORE"
  <2>1. Ans = (CommittedRegs[i.rs1] + i.imm) % 2^XLEN /\ idex.reg2 = CommittedRegs[i.rs2]
    BY <1>3, <1>12, <1>20 DEF Reads1Ops, Reads2Ops
  <2>2. CommittedRegs' = CommittedRegs /\ OldestPc' = (c + 4) % MemSize
    BY <1>4, <1>5, <1>9, <1>10, <1>20 DEF WriteOps
  <2>3. CommittedMem' = Arch!MemAfterStore(Ans, Arch!Size(i.func3), CommittedRegs[i.rs2])
    BY <1>14, <1>20, <2>1
  <2> QED
    BY <1>2, <1>20, <2>1, <2>2, <2>3 DEF Arch!Step, c
<1> QED
  BY <1>2, <1>15, <1>16, <1>17, <1>18, <1>19, <1>20 DEF Opcode

\* Any other edge leaves the machine as it is.
LEMMA Wait ==
    ASSUME FirstRam \in Programs, CodeAddr \subseteq Addr, PInv, Obeys, Advance,
           MemStallReq \/ idex.opcode = "NON"
    PROVE  UNCHANGED <<OldestPc, CommittedRegs, CommittedMem>>
<1>1. OldestPc' = OldestPc
  BY OrderStep
<1>2. CASE MemStallReq
  BY <1>1, <1>2, RegsWait, MemWaits DEF PInv
<1>3. CASE ~MemStallReq /\ idex.opcode = "NON"
  <2>1. CommittedRegs' = CommittedRegs
    BY <1>3, ArchWrite DEF PInv, WriteOps
  <2>2. CommittedMem = ram /\ ram' = ram /\ exmem' = Bubble
    BY <1>3, MemSettled, MoveEdge DEF PInv, ExRequest
  <2>3. CommittedMem' = CommittedMem
    BY <2>2 DEF CommittedMem, Bubble
  <2> QED
    BY <1>1, <2>1, <2>3
<1> QED
  BY <1>2, <1>3

\* An edge with rst low is an instruction or none.
LEMMA ClockMaps ==
    ASSUME FirstRam \in Programs, CodeAddr \subseteq Addr, PInv, Obeys, Clock
    PROVE  Arch!Step \/ UNCHANGED Arch!isaVars
<1>1. Advance
  BY DEF Clock, ClockAbort, ClockReadFirst, ClockReadNext, ClockReadLast, ClockWrite, ClockIdle
<1>2. CASE MemStallReq \/ idex.opcode = "NON"
  BY <1>1, <1>2, Wait DEF Arch!isaVars
<1>3. CASE ~MemStallReq /\ idex.opcode # "NON"
  BY <1>1, <1>3, Retire
<1> QED
  BY <1>2, <1>3

\* No step, no instruction.
LEMMA StutterMaps ==
    ASSUME UNCHANGED vars
    PROVE  UNCHANGED Arch!isaVars
<1>1. UNCHANGED <<ram, pc_o, pc_enable, exmem, ifid, idex, exmemWb, memwb, regs>>
  BY DEF vars, pipeVars, mcVars, ramVars, pcVars, cacheVars
<1>2. OldestPc' = OldestPc
  BY <1>1 DEF OldestPc, ZeroWord
<1>3. CommittedRegs' = CommittedRegs
  BY <1>1 DEF CommittedRegs, PendingWrite, After, Extended, SignExtend, Number, Width, RamIdx
<1>4. CommittedMem' = CommittedMem
  BY <1>1 DEF CommittedMem, Width
<1> QED
  BY <1>2, <1>3, <1>4 DEF Arch!isaVars

\* Cardinalities, for the changes a pause may take back.
LEMMA OneMore ==
    ASSUME NEW T, NEW U, NEW x, IsFiniteSet(T), U = T \cup {x}
    PROVE  /\ IsFiniteSet(U) /\ Cardinality(T) \in Nat /\ Cardinality(U) \in Nat
           /\ Cardinality(U) <= Cardinality(T) + 1
<1>1. IsFiniteSet(U)
  BY FS_AddElement, Zenon
<1>2. Cardinality(T) \in Nat /\ Cardinality(U) \in Nat
  BY <1>1, FS_CardinalityType, Zenon
<1>3. Cardinality(U) = IF x \in T THEN Cardinality(T) ELSE Cardinality(T) + 1
  BY FS_AddElement, Zenon
<1> QED
  BY <1>1, <1>2, <1>3

\* At most two and at most four elements.
LEMMA FewElements ==
    ASSUME NEW a, NEW b, NEW c, NEW d
    PROVE  /\ \A S : S \subseteq {a, b} => Cardinality(S) <= 2
           /\ \A S : S \subseteq {a, b, c, d} => Cardinality(S) <= 4
<1> DEFINE A1 == {a}
           A2 == {a, b}
           A3 == {a, b, c}
           A4 == {a, b, c, d}
<1>1. A2 = A1 \cup {b} /\ A3 = A2 \cup {c} /\ A4 = A3 \cup {d}
  OBVIOUS
<1>2. IsFiniteSet(A1) /\ Cardinality(A1) = 1
  BY FS_Singleton, Zenon
<1> HIDE DEF A1, A2, A3, A4
<1>3. IsFiniteSet(A2) /\ Cardinality(A2) \in Nat /\ Cardinality(A2) <= Cardinality(A1) + 1
  BY <1>1, <1>2, OneMore, Zenon
<1>4. IsFiniteSet(A3) /\ Cardinality(A3) \in Nat /\ Cardinality(A3) <= Cardinality(A2) + 1
  BY <1>1, <1>3, OneMore, Zenon
<1>5. IsFiniteSet(A4) /\ Cardinality(A4) \in Nat /\ Cardinality(A4) <= Cardinality(A3) + 1
  BY <1>1, <1>4, OneMore, Zenon
<1>6. ASSUME NEW T, IsFiniteSet(T), NEW S, S \subseteq T
      PROVE  Cardinality(T) \in Nat /\ Cardinality(S) \in Nat /\ Cardinality(S) <= Cardinality(T)
  <2>1. S \in SUBSET T
    BY <1>6
  <2> QED
    BY <1>6, <2>1, FS_Subset, FS_CardinalityType, Zenon
<1>7. ASSUME NEW S, S \subseteq A2 PROVE Cardinality(S) <= 2
  <2>1. Cardinality(S) \in Nat /\ Cardinality(S) <= Cardinality(A2)
    BY <1>3, <1>6, <1>7
  <2> QED
    BY <1>2, <1>3, <2>1
<1>8. ASSUME NEW S, S \subseteq A4 PROVE Cardinality(S) <= 4
  <2>1. Cardinality(S) \in Nat /\ Cardinality(S) <= Cardinality(A4)
    BY <1>5, <1>6, <1>8
  <2> QED
    BY <1>2, <1>3, <1>4, <1>5, <2>1
<1> QED
  BY <1>7, <1>8 DEF A2, A4

\* A pause takes back what MEM and WB hold.
LEMMA PauseMaps ==
    ASSUME PInv, Pause
    PROVE  Arch!Restart
<1>1. /\ ~pc_enable' /\ ifid' = NoInst /\ idex' = NoOp /\ exmem' = Bubble
      /\ exmemWb' = NoWrite /\ memwb' = NoWrite /\ ram' = ram /\ regs' = regs
  BY DEF Pause, PcReset
<1>2. OldestPc' = 0
  BY <1>1 DEF OldestPc, NoOp, NoInst, ZeroWord
<1>3. Cardinality({r \in DOMAIN CommittedRegs : CommittedRegs'[r] # CommittedRegs[r]}) <= 2
  <2> DEFINE base == [regs EXCEPT ![0] = 0]
             mid == After(base, memwb)
  <2>1. CommittedRegs' = base
    BY <1>1 DEF CommittedRegs, PendingWrite, After, NoWrite, Bubble
  <2>2. base \in [Reg -> Value] /\ memwb.wd \in Reg /\ memwb.wdata \in Value
    BY BaseType DEF PInv, CpuTyped, TypeOK
  <2>3. CommittedRegs = After(mid, PendingWrite)
    BY DEF CommittedRegs
  <2> HIDE DEF base
  <2>4. mid \in [Reg -> Value] /\ \A r \in Reg : r # memwb.wd => mid[r] = base[r]
    BY <2>2, AfterType
  <2> HIDE DEF mid
  <2>5. \A r \in Reg : r # PendingWrite.wd => CommittedRegs[r] = mid[r]
    BY <2>3, <2>4, PendingType, AfterType DEF PInv
  <2>6. DOMAIN CommittedRegs = Reg
    BY CommittedRegsType DEF PInv
  <2>7. {r \in DOMAIN CommittedRegs : CommittedRegs'[r] # CommittedRegs[r]}
          \subseteq {memwb.wd, PendingWrite.wd}
    BY <2>1, <2>4, <2>5, <2>6
  <2> QED
    BY <2>7, FewElements
<1>4. Cardinality({a \in DOMAIN CommittedMem : CommittedMem'[a] # CommittedMem[a]}) <= 4
  <2> DEFINE s(k) == RamIdx(exmem.addr + k)
  <2>1. CommittedMem' = ram
    BY <1>1 DEF CommittedMem, Bubble
  <2>2. DOMAIN CommittedMem = Addr /\ exmem.addr \in Addr
    BY CommittedMemType, PortTypes DEF PInv
  <2>3. ASSUME NEW a \in Addr, ram[a] # CommittedMem[a]
        PROVE  a \in {s(0), s(1), s(2), s(3)}
    <3>1. (a - exmem.addr) % MemSize < Width(exmem.func3)
      BY <2>3 DEF CommittedMem
    <3>2. (a - exmem.addr) % MemSize \in 0 .. 3
      BY <2>2, <3>1, SpanByte, PortTypes DEF PInv
    <3>3. s((a - exmem.addr) % MemSize) = a
      <4>1. (a - exmem.addr) % MemSize \in 0 .. 7
        BY <3>2
      <4> QED
        BY <2>2, <4>1, SpanByte
    <3> QED
      BY <3>2, <3>3
  <2> HIDE DEF s
  <2>4. {a \in DOMAIN CommittedMem : CommittedMem'[a] # CommittedMem[a]}
          \subseteq {s(0), s(1), s(2), s(3)}
    BY <2>1, <2>2, <2>3
  <2> QED
    BY <2>4, FewElements
<1> QED
  BY <1>2, <1>3, <1>4 DEF Arch!Restart, Arch!Cardinality, Cardinality

\* Power-up.
LEMMA InitMaps ==
    ASSUME CpuTyped, Init
    PROVE  Arch!Init
<1>1. OldestPc = 0
  BY DEF Init, OldestPc, NoOp, NoInst
<1> QED
  BY <1>1, CommittedRegsType DEF Arch!Init

\* Without pauses.
THEOREM CpuImplementsIsa ==
    ASSUME FirstRam \in Programs, CodeAddr \subseteq Addr, 0 \in CodeAddr
    PROVE  RunSpec /\ ram = FirstRam /\ CodeDefined /\ []Obeys => ImplementsIsa
<1>1. Init /\ ram = FirstRam /\ CodeDefined => PInv
  BY InitPInv
<1>2. PInv /\ Obeys /\ [Clock]_vars => PInv'
  BY NextPInv DEF Next
<1>3. Init /\ PInv => Arch!Init
  BY InitMaps DEF PInv
<1>4. PInv /\ Obeys /\ [Clock]_vars =>
        [Arch!Step \/ Arch!Undefined]_(Arch!isaVars)
  BY ClockMaps, StutterMaps
<1> QED
  BY <1>1, <1>2, <1>3, <1>4, PTL DEF RunSpec, ImplementsIsa, Arch!RunSpec

\* With them.
THEOREM CpuRestartsIsa ==
    ASSUME FirstRam \in Programs, CodeAddr \subseteq Addr, 0 \in CodeAddr
    PROVE  Spec /\ ram = FirstRam /\ CodeDefined /\ []Obeys => RestartsIsa
<1>1. Init /\ ram = FirstRam /\ CodeDefined => PInv
  BY InitPInv
<1>2. PInv /\ Obeys /\ [Next]_vars => PInv'
  BY NextPInv
<1>3. Init /\ PInv => Arch!Init
  BY InitMaps DEF PInv
<1>4. PInv /\ Obeys /\ [Next]_vars => [Arch!Next]_(Arch!isaVars)
  BY ClockMaps, PauseMaps, StutterMaps DEF Next, Arch!Next
<1> QED
  BY <1>1, <1>2, <1>3, <1>4, PTL DEF Spec, RestartsIsa, Arch!Spec
-----------------------------------------------------------------------------
(* What brings about the misread x0.                                       *)

\* No instruction of the program but a jump has destination x0.
OnlyJumpsDiscard ==
    \A a \in CodeAddr : InstAt(a).opcode \in WriteOps \ {"JAL", "JALR"} => InstAt(a).rd # 0

\* Behind a jump that discards its link ID is empty when it gets to MEM.
JumpAlone == exmemWb.wreg /\ exmemWb.wd = 0 => ifid.inst = ZeroWord /\ exmem.op = "OTHER"

\* A write to x0 in EX is that of a jump.
LEMMA DiscardJumps ==
    ASSUME PInv, OnlyJumpsDiscard, ExWrite.wreg, ExWrite.wd = 0
    PROVE  ExJump /\ ExRequest.op = "OTHER"
<1>1. idex.wreg /\ idex.wd = 0 /\ idex.opcode \in WriteOps
  BY DEF ExWrite, PInv, WritesRight
<1>2. idex.pc \in CodeAddr /\ idex.opcode = InstAt(idex.pc).opcode /\ idex.wd = InstAt(idex.pc).rd
  BY <1>1 DEF WriteOps, PInv, OnPath, OldestPc, DecodedRight
<1>3. idex.opcode \in {"JAL", "JALR"}
  BY <1>1, <1>2 DEF OnlyJumpsDiscard
<1> QED
  BY <1>3 DEF ExJump, ExRequest, Bubble

\* Then the operands that name x0 are zero.
LEMMA ZeroNow ==
    ASSUME PInv, OnlyJumpsDiscard, JumpAlone
    PROVE  ZeroReadsZero
<1> SUFFICES ASSUME ~Stalled(2, Depth), ~IfJump
             PROVE  (Fields.rs1 = 0 => Operand1 = 0) /\ (Fields.rs2 = 0 => Operand2 = 0)
  BY DEF ZeroReadsZero
<1>1. ~Stalled(3, Depth)
  BY DEF Stalled, Depth, StallDepth
<1>2. ~ExJump
  BY <1>1 DEF IfJump
<1>3. ~(ExWrite.wreg /\ ExWrite.wd = 0)
  BY <1>2, DiscardJumps
<1>4. ASSUME Reads1 PROVE Forward(0) = 0
  <2>1. ifid.inst # ZeroWord
    <3>1. ifid.inst = ZeroWord => Fields.opcode = "NON"
      BY ZeroIsNone DEF Fields
    <3> QED
      BY <1>4, <3>1 DEF Reads1
  <2>2. ~(MemWrite.wreg /\ MemWrite.wd = 0)
    BY <2>1 DEF MemWrite, JumpAlone
  <2> QED
    BY <1>3, <2>2 DEF Forward, RegRead
<1> QED
  BY <1>4 DEF Operand1, Operand2

LEMMA JumpAloneStep ==
    ASSUME PInv, OnlyJumpsDiscard, JumpAlone, [Next]_vars
    PROVE  JumpAlone'
<1>1. ASSUME Advance PROVE JumpAlone'
  <2>1. CASE MemStallReq
    BY <1>1, <2>1, StallEdge DEF JumpAlone, ZeroWord
  <2>2. CASE ~MemStallReq
    <3>1. exmem' = ExRequest /\ exmemWb' = ExWrite
      BY <1>1, <2>2, MoveEdge
    <3>2. ExJump => ifid'.inst = ZeroWord
      BY <1>1, <2>2, MoveFetch DEF NoInst
    <3> QED
      BY <3>1, <3>2, DiscardJumps DEF JumpAlone, ZeroWord
  <2> QED
    BY <2>1, <2>2
<1>2. CASE Clock
  BY <1>1, <1>2 DEF Clock, ClockAbort, ClockReadFirst, ClockReadNext, ClockReadLast,
                    ClockWrite, ClockIdle
<1>3. CASE Pause
  BY <1>3 DEF Pause, NoWrite, JumpAlone
<1>4. CASE UNCHANGED vars
  BY <1>4 DEF vars, pipeVars, JumpAlone, ZeroWord
<1> QED
  BY <1>2, <1>3, <1>4 DEF Next

LEMMA DiscardStays ==
    ASSUME FirstRam \in Programs, CodeAddr \subseteq Addr, PInv, Rules, OnlyJumpsDiscard,
           [Next]_vars
    PROVE  OnlyJumpsDiscard'
<1>1. \A a \in CodeAddr : WordAt(a)' = WordAt(a)
  <2>1. ASSUME Advance PROVE \A a \in CodeAddr : WordAt(a)' = WordAt(a)
    BY <2>1, CodeStays DEF PInv, Rules
  <2>2. CASE Clock
    BY <2>1, <2>2 DEF Clock, ClockAbort, ClockReadFirst, ClockReadNext, ClockReadLast,
                      ClockWrite, ClockIdle
  <2>3. CASE Pause
    BY <2>3 DEF Pause, WordAt
  <2>4. CASE UNCHANGED vars
    BY <2>4 DEF vars, ramVars, WordAt
  <2> QED
    BY <2>2, <2>3, <2>4 DEF Next
<1>2. \A a \in CodeAddr : InstAt(a)' = InstAt(a)
  BY <1>1 DEF InstAt, Number
<1> QED
  BY <1>2 DEF OnlyJumpsDiscard

\* Where only jumps discard their result no operand that names x0 is misread:
\* the hypothesis ZeroReadsZero of the two theorems above is then none
\* (id.v:222).
THEOREM ZeroIsKept ==
    ASSUME FirstRam \in Programs, CodeAddr \subseteq Addr, 0 \in CodeAddr
    PROVE  Spec /\ ram = FirstRam /\ CodeDefined /\ OnlyJumpsDiscard /\ []Rules
             => []ZeroReadsZero
<1> DEFINE J == PInv /\ OnlyJumpsDiscard /\ JumpAlone
<1>1. Init /\ ram = FirstRam /\ CodeDefined /\ OnlyJumpsDiscard => J
  <2>1. Init => JumpAlone
    BY DEF Init, NoWrite, JumpAlone
  <2> QED
    BY <2>1, InitPInv
<1>2. J /\ Rules /\ [Next]_vars => J'
  <2> SUFFICES ASSUME J, Rules, [Next]_vars PROVE J'
    OBVIOUS
  <2>1. Obeys
    BY ZeroNow DEF Obeys
  <2>2. PInv'
    BY <2>1, NextPInv
  <2>3. OnlyJumpsDiscard' /\ JumpAlone'
    BY DiscardStays, JumpAloneStep
  <2> QED
    BY <2>2, <2>3
<1>3. J => ZeroReadsZero
  BY ZeroNow
<1> QED
  <2> HIDE DEF J
  <2> QED
    BY <1>1, <1>2, <1>3, PTL DEF Spec
=============================================================================

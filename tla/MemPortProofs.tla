--------------------------- MODULE MemPortProofs ---------------------------
(* Proofs about MemPort: its safety properties for every memory size,      *)
(* cache size, program and instruction mix.                                *)
EXTENDS MemPort, TLAPS

-----------------------------------------------------------------------------
(* Arithmetic of addresses.                                                *)

\* An address plus a lane or a byte counter wraps into the memory.
LEMMA RamIdxType ==
    ASSUME NEW a \in Addr, NEW k \in 0..7
    PROVE  RamIdx(a + k) \in Addr
BY MemSizeAssumption DEF RamIdx, Addr

\* The four bytes of a word are different bytes of the RAM.
LEMMA RamIdxInjective ==
    ASSUME NEW a \in Addr, NEW j \in 0..7, NEW k \in 0..7,
           RamIdx(a + j) = RamIdx(a + k)
    PROVE  j = k
BY MemSizeAssumption DEF RamIdx, Addr

\* Every address has a cache line and a tag.
LEMMA LineType ==
    ASSUME NEW a \in Addr
    PROVE  Index(a) \in Line /\ Tag(a) \in Nat
BY MemSizeAssumption, IcacheAssumption DEF Index, Tag, Line, Addr

\* Line and tag together identify the address (icache.v compares only the
\* tag of the indexed line).
LEMMA LineTagInjective ==
    ASSUME NEW a \in Addr, NEW b \in Addr,
           Index(a) = Index(b), Tag(a) = Tag(b)
    PROVE  a = b
<1>1. a = IcacheNum * (a \div IcacheNum) + (a % IcacheNum)
  BY MemSizeAssumption, IcacheAssumption DEF Addr
<1>2. b = IcacheNum * (b \div IcacheNum) + (b % IcacheNum)
  BY MemSizeAssumption, IcacheAssumption DEF Addr
<1> QED
  BY <1>1, <1>2 DEF Index, Tag

-----------------------------------------------------------------------------
(* Types of the combinational wires.                                       *)

LEMMA BubbleType == Bubble \in MemInstr
BY ByteAssumption, MemSizeAssumption
   DEF Bubble, MemInstr, MemOp, Func3, Addr, Word, ZeroWord

\* What MEM sends to memory_control has the width of its wires.
LEMMA MemReqType ==
    ASSUME exmem \in MemInstr, mem_enable \in BOOLEAN, mem_busy \in BOOLEAN
    PROVE  /\ MemReq.en \in BOOLEAN /\ MemReq.wr \in BOOLEAN
           /\ MemReq.addr \in Addr /\ MemReq.width \in {0, 1, 2, 4}
           /\ MemReq.data \in Word
           /\ MemReq.en <=> MemStallReq /\ ~mem_busy
           /\ MemReq.wr <=> MemReq.en /\ exmem.op = "STORE"
           /\ MemReq.en => /\ MemReq.addr = exmem.addr
                           /\ MemReq.width = Width(exmem.func3)
           /\ MemReq.wr => MemReq.data = StoreData(exmem)
<1> DEFINE en == MemStallReq /\ ~mem_busy
<1>1. exmem.addr \in Addr /\ exmem.data \in Word
  BY DEF MemInstr
<1>2. 0 \in Addr /\ ZeroWord \in Word
  BY ByteAssumption, MemSizeAssumption DEF Addr, Word, ZeroWord
<1>3. StoreData(exmem) \in Word
  BY <1>1, ByteAssumption DEF StoreData, Word
<1>4. Width(exmem.func3) \in {1, 2, 4}
  BY DEF Width
<1>5. MemStallReq \in BOOLEAN
  BY DEF MemStallReq, IsMemOp
<1> QED
  BY <1>1, <1>2, <1>3, <1>4, <1>5 DEF MemReq

LEMMA InstReqType ==
    ASSUME pc_o \in Addr, pc_enable \in BOOLEAN
    PROVE  /\ InstAddr \in Addr
           /\ InstReq.addr = InstAddr
           /\ InstReq.en <=> pc_enable /\ ~Hit /\ ~inst_enable /\ ~inst_busy
           /\ InstReq.en \in BOOLEAN
<1>1. InstAddr \in Addr
  BY MemSizeAssumption DEF InstAddr, Addr
<1> QED
  BY <1>1 DEF InstReq, Hit

\* The RAM is driven with an address it has.
LEMMA PortType ==
    ASSUME TypeOK
    PROVE  /\ Num(InstReq, MemReq) \in {0, 1, 2, 4}
           /\ ServedAddr(InstReq, MemReq) \in Addr
           /\ RamAddr(InstReq, MemReq) \in Addr
           /\ RamOut(MemReq) \in Byte
           /\ RamIn \in Byte
<1>1. exmem \in MemInstr
  BY BubbleType, InstrsAssumption DEF TypeOK
<1>2. Num(InstReq, MemReq) \in {0, 1, 2, 4}
  BY <1>1, MemReqType DEF Num, TypeOK
<1>3. ServedAddr(InstReq, MemReq) \in Addr
  BY <1>1, MemReqType, InstReqType DEF ServedAddr, TypeOK
<1>4. RamAddr(InstReq, MemReq) \in Addr
  <2>1. flag \in 0..7
    BY DEF TypeOK
  <2> QED
    BY <1>3, <2>1, RamIdxType DEF RamAddr
<1>5. RamOut(MemReq) \in Byte
  <2>1. MemReq.data \in [0..3 -> Byte]
    BY <1>1, MemReqType DEF TypeOK, Word
  <2> QED
    BY <2>1, ByteAssumption DEF RamOut, TypeOK
<1>6. RamIn \in Byte
  BY DEF RamIn, TypeOK
<1> QED
  BY <1>2, <1>3, <1>4, <1>5, <1>6

\* memory_control assembles bytes into words.
LEMMA AssembleType ==
    ASSUME TypeOK, NEW n \in 1..4
    PROVE  Assemble(n) \in Word
<1>1. l_data \in [0..3 -> Byte] /\ RamIn \in Byte /\ Zero \in Byte
  BY PortType, ByteAssumption DEF TypeOK, Word
<1> QED
  BY <1>1 DEF Assemble, Word

-----------------------------------------------------------------------------
(* Type correctness.                                                       *)

LEMMA InitTypeOK == Init => TypeOK
<1> SUFFICES ASSUME Init PROVE TypeOK
  OBVIOUS
<1>1. 0 \in Addr /\ ZeroWord \in Word
  BY ByteAssumption, MemSizeAssumption DEF Addr, Word, ZeroWord
<1>2. flag \in 0..4
  BY DEF Init
<1>3. /\ i_cache_tag \in [Line -> Nat]
      /\ i_cache_data \in [Line -> Word]
      /\ i_cache_valid \in [Line -> BOOLEAN]
  BY HostAssumption DEF Init
<1> QED
  BY <1>1, <1>2, <1>3, HostAssumption DEF Init, TypeOK

\* At an edge with rst low the clients' registers keep their types.
LEMMA ClientsTypeOK ==
    ASSUME TypeOK, NEW in \in PipeInput, ClientsTick(in)
    PROVE  /\ ram' \in [Addr -> Byte] /\ q_addr' \in Addr
           /\ pc_o' \in Addr /\ pc_tmp' \in Addr /\ pc_enable' \in BOOLEAN
           /\ i_cache_valid' \in [Line -> BOOLEAN]
           /\ i_cache_tag' \in [Line -> Nat]
           /\ i_cache_data' \in [Line -> Word]
           /\ exmem' \in Instrs \union {Bubble}
<1>1. ram' \in [Addr -> Byte] /\ q_addr' \in Addr
  BY PortType DEF ClientsTick, RamTick, TypeOK
<1>2. pc_o' \in Addr /\ pc_tmp' \in Addr /\ pc_enable' \in BOOLEAN
  <2>1. in.target \in Addr
    BY CodeAssumption DEF PipeInput
  <2>2. RamIdx(in.target + 4) \in Addr /\ RamIdx(pc_tmp + 4) \in Addr
    BY <2>1, RamIdxType DEF TypeOK
  <2> QED
    BY <2>1, <2>2 DEF ClientsTick, PcTick, TypeOK
<1>3. /\ i_cache_valid' \in [Line -> BOOLEAN]
      /\ i_cache_tag' \in [Line -> Nat]
      /\ i_cache_data' \in [Line -> Word]
  <2>1. Index(InstAddr) \in Line /\ Tag(InstAddr) \in Nat
    BY InstReqType, LineType DEF TypeOK
  <2> QED
    BY <2>1 DEF ClientsTick, CacheTick, cacheVars, TypeOK
<1>4. exmem' \in Instrs \union {Bubble}
  BY DEF ClientsTick, PipeInput, TypeOK
<1> QED
  BY <1>1, <1>2, <1>3, <1>4

\* memory_control's registers keep theirs, whichever branch is taken.
LEMMA ControllerTypeOK ==
    ASSUME TypeOK,
           \/ Cleared
           \/ ReadFirst(InstReq, MemReq)
           \/ ReadNext(InstReq, MemReq)
           \/ ReadLast(InstReq, MemReq)
           \/ WriteByte(InstReq, MemReq)
           \/ Idle(InstReq, MemReq),
           RamWr(InstReq, MemReq) => flag < Num(InstReq, MemReq)
    PROVE  /\ flag' \in 0..4
           /\ mem_busy' \in BOOLEAN /\ inst_busy' \in BOOLEAN
           /\ inst_enable' \in BOOLEAN /\ mem_enable' \in BOOLEAN
           /\ inst_data' \in Word /\ mem_rdata' \in Word /\ l_data' \in Word
<1>1. exmem \in MemInstr
  BY BubbleType, InstrsAssumption DEF TypeOK
<1>2. MemReq.en \in BOOLEAN /\ MemReq.wr \in BOOLEAN
  BY <1>1, MemReqType DEF TypeOK
<1>3. ZeroWord \in Word
  BY ByteAssumption DEF Word, ZeroWord
<1>4. CASE Cleared
  <2>1. flag' \in 0..4
    BY <1>4 DEF Cleared
  <2> QED
    BY <1>3, <1>4, <2>1 DEF Cleared, TypeOK
<1>5. CASE ReadFirst(InstReq, MemReq)
  <2>1. flag' \in 0..4
    BY <1>5 DEF ReadFirst
  <2> QED
    BY <1>2, <1>5, <2>1 DEF ReadFirst, TypeOK
<1>6. CASE ReadNext(InstReq, MemReq)
  <2>1. l_data' \in Word
    BY <1>6, PortType DEF ReadNext, TypeOK, Word
  <2>2. flag' \in 0..4
    BY <1>6, PortType DEF ReadNext, TypeOK
  <2> QED
    BY <1>6, <2>1, <2>2 DEF ReadNext, TypeOK
<1>7. CASE ReadLast(InstReq, MemReq)
  <2>1. MemReq.en => Assemble(MemReq.width) \in Word
    <3>1. MemReq.en => MemReq.width \in 1..4
      BY <1>1, <1>7, MemReqType DEF ReadLast, Num, TypeOK
    <3> QED
      BY <3>1, AssembleType
  <2>2. Assemble(4) \in Word
    BY AssembleType
  <2>3. flag' \in 0..4
    BY <1>7 DEF ReadLast
  <2> QED
    BY <1>7, <2>1, <2>2, <2>3 DEF ReadLast, TypeOK
<1>8. CASE WriteByte(InstReq, MemReq)
  <2>1. flag' \in 0..4
    BY <1>8, PortType DEF WriteByte, TypeOK
  <2> QED
    BY <1>2, <1>8, <2>1 DEF WriteByte, TypeOK
<1>9. CASE Idle(InstReq, MemReq)
  BY <1>9 DEF Idle, TypeOK
<1> QED
  BY <1>4, <1>5, <1>6, <1>7, <1>8, <1>9

-----------------------------------------------------------------------------
(* Who drives the port, under the invariant.                               *)

\* A load or store that is being served drives its own address and width;
\* a store always has a byte left to write.
LEMMA MemOpPort ==
    ASSUME IInv, MemReq.en
    PROVE  /\ MemStallReq /\ ~mem_busy /\ IsMemOp(exmem)
           /\ ~inst_enable /\ ~mem_enable
           /\ Num(InstReq, MemReq) = Width(exmem.func3)
           /\ ServedAddr(InstReq, MemReq) = exmem.addr
           /\ flag <= Width(exmem.func3)
           /\ flag # 0 => inst_busy
           /\ RamWr(InstReq, MemReq) <=> exmem.op = "STORE"
           /\ exmem.op = "STORE" => flag < Width(exmem.func3)
<1>1. exmem \in MemInstr /\ TypeOK
  BY BubbleType, InstrsAssumption DEF IInv, TypeOK
<1>2. MemStallReq /\ ~mem_busy /\ IsMemOp(exmem) /\ ~mem_enable
  BY <1>1, MemReqType DEF MemStallReq, TypeOK
<1>3. ~inst_enable /\ (flag # 0 => inst_busy)
  BY <1>2 DEF IInv, PortOwned
<1>4. Num(InstReq, MemReq) = Width(exmem.func3)
  BY <1>1, MemReqType DEF Num, TypeOK
<1>5. ServedAddr(InstReq, MemReq) = exmem.addr
  BY <1>1, MemReqType DEF ServedAddr, TypeOK
<1>6. /\ flag <= Width(exmem.func3)
      /\ exmem.op = "STORE" => flag < Width(exmem.func3)
  <2>1. Width(exmem.func3) \in {1, 2, 4} /\ flag \in 0..4
    BY <1>1 DEF Width, TypeOK
  <2> QED
    BY <1>3, <2>1 DEF IInv, MemOpHeld
<1>7. RamWr(InstReq, MemReq) <=> exmem.op = "STORE"
  <2>1. Width(exmem.func3) \in {1, 2, 4} /\ flag \in 0..4
    BY <1>1 DEF Width, TypeOK
  <2>2. MemReq.wr <=> exmem.op = "STORE"
    BY <1>1, MemReqType DEF TypeOK
  <2> QED
    BY <1>4, <1>6, <2>1, <2>2 DEF RamWr
<1> QED
  BY <1>2, <1>3, <1>4, <1>5, <1>6, <1>7

\* A fetch drives the program counter and four bytes, and never writes.
LEMMA FetchPort ==
    ASSUME IInv, InstReq.en, ~MemReq.en
    PROVE  /\ pc_enable /\ ~Hit /\ ~inst_enable /\ ~inst_busy
           /\ InstAddr = pc_o /\ IfStallReq
           /\ flag # 0 => mem_busy
           /\ Num(InstReq, MemReq) = 4
           /\ ServedAddr(InstReq, MemReq) = pc_o
           /\ ~RamWr(InstReq, MemReq)
<1>1. TypeOK
  BY DEF IInv
<1>2. pc_enable /\ ~Hit /\ ~inst_enable /\ ~inst_busy /\ InstReq.addr = InstAddr
  BY <1>1, InstReqType DEF TypeOK
<1>3. InstAddr = pc_o /\ IfStallReq
  BY <1>2 DEF InstAddr, IfStallReq, FetchDone
<1>4. flag # 0 => mem_busy
  BY <1>2 DEF IInv, PortOwned
<1> QED
  BY <1>2, <1>3, <1>4 DEF Num, ServedAddr, RamWr

\* A store still has a byte left whenever it writes.
LEMMA WriteInRange ==
    ASSUME IInv, RamWr(InstReq, MemReq)
    PROVE  flag < Num(InstReq, MemReq)
<1>1. MemReq.en
  BY DEF RamWr
<1> QED
  BY <1>1, MemOpPort

\* While a load or store is served it stays in MEM and no jump is taken.
LEMMA MemOpStable ==
    ASSUME IInv, MemReq.en, NEW in \in PipeInput, ClientsTick(in)
    PROVE  /\ exmem' = exmem /\ ~IfJump(in)
           /\ q_addr' = RamIdx(exmem.addr + flag)
           /\ exmem.op # "STORE" => ram' = ram
           /\ exmem.op = "STORE" =>
                 ram' = [ram EXCEPT ![RamIdx(exmem.addr + flag)] = exmem.data[flag]]
<1>1. Depth(in) = 5
  BY MemOpPort DEF Depth, StallDepth
<1>2. exmem' = exmem /\ ~IfJump(in)
  BY <1>1 DEF ClientsTick, IfJump, Stalled
<1>3. RamAddr(InstReq, MemReq) = RamIdx(exmem.addr + flag)
  BY MemOpPort DEF RamAddr
<1>4. ASSUME exmem.op = "STORE" PROVE RamOut(MemReq) = exmem.data[flag]
  <2>1. exmem \in MemInstr /\ flag \in 0..4
    BY BubbleType, InstrsAssumption DEF IInv, TypeOK
  <2>2. MemReq.data = StoreData(exmem)
    BY <1>4, <2>1, MemReqType DEF IInv, TypeOK
  <2>3. flag < Width(exmem.func3) /\ Width(exmem.func3) \in {1, 2, 4}
    BY <1>4, MemOpPort DEF Width
  <2> QED
    BY <2>1, <2>2, <2>3 DEF RamOut, StoreData
<1> QED
  BY <1>2, <1>3, <1>4, MemOpPort DEF ClientsTick, RamTick

\* While a fetch is served and no jump drops it, the program counter waits.
LEMMA FetchStable ==
    ASSUME IInv, InstReq.en, ~MemReq.en, NEW in \in PipeInput,
           ClientsTick(in), ~Aborts(MemReq, IfJump(in))
    PROVE  /\ pc_o' = pc_o /\ pc_enable' /\ ~Hit'
           /\ UNCHANGED cacheVars
           /\ ram' = ram
           /\ q_addr' = RamIdx(pc_o + flag)
<1>1. ~IfJump(in)
  BY DEF Aborts
<1>2. Stalled(0, Depth(in))
  BY FetchPort DEF Depth, StallDepth, Stalled
<1>3. pc_o' = pc_o /\ pc_enable'
  BY <1>1, <1>2 DEF ClientsTick, PcTick
<1>4. UNCHANGED cacheVars
  BY FetchPort DEF ClientsTick, CacheTick
<1>5. ~Hit'
  BY <1>3, <1>4, FetchPort DEF Hit, InstAddr, cacheVars, Index, Tag
<1> QED
  BY <1>3, <1>4, <1>5, FetchPort DEF ClientsTick, RamTick, RamAddr

-----------------------------------------------------------------------------
(* Cache coherence across an edge with rst low, whatever branch            *)
(* memory_control takes: the line filled gets the word of its own address, *)
(* and a store never changes a byte of the program.                        *)

LEMMA CodeUntouched ==
    ASSUME IInv, NEW in \in PipeInput, ClientsTick(in), NEW a \in CodeAddr
    PROVE  WordAt(a)' = WordAt(a)
<1>1. a \in Addr
  BY CodeAssumption
<1>2. exmem \in MemInstr /\ TypeOK
  BY BubbleType, InstrsAssumption DEF IInv, TypeOK
<1>3. CASE RamWr(InstReq, MemReq)
  <2>1. MemReq.en
    BY <1>3 DEF RamWr
  <2>2. exmem.op = "STORE" /\ flag < Width(exmem.func3)
    BY <1>3, <2>1, MemOpPort
  <2>3. ram' = [ram EXCEPT ![RamIdx(exmem.addr + flag)] = exmem.data[flag]]
    BY <2>1, <2>2, MemOpStable
  <2>4. RamIdx(exmem.addr + flag) \in Span(exmem)
    <3>1. flag \in 0 .. Width(exmem.func3) - 1
      BY <1>2, <2>2 DEF TypeOK, Width
    <3> QED
      BY <3>1 DEF Span
  <2>5. exmem \in Instrs
    BY <1>2, <2>2 DEF TypeOK, Bubble
  <2>6. RamIdx(exmem.addr + flag) \notin CodeBytes
    BY <2>2, <2>4, <2>5, InstrsAssumption
  <2>7. \A k \in 0..3 : RamIdx(a + k) \in CodeBytes
    BY DEF CodeBytes
  <2>8. \A k \in 0..3 : ram'[RamIdx(a + k)] = ram[RamIdx(a + k)]
    <3> SUFFICES ASSUME NEW k \in 0..3
                 PROVE  ram'[RamIdx(a + k)] = ram[RamIdx(a + k)]
      OBVIOUS
    <3>1. RamIdx(a + k) # RamIdx(exmem.addr + flag)
      BY <2>6, <2>7
    <3>2. RamIdx(a + k) \in Addr
      <4>1. k \in 0..7
        OBVIOUS
      <4> QED
        BY <1>1, <4>1, RamIdxType
    <3> QED
      BY <1>2, <2>3, <3>1, <3>2 DEF TypeOK
  <2> QED
    BY <2>8 DEF WordAt
<1>4. CASE ~RamWr(InstReq, MemReq)
  BY <1>4 DEF ClientsTick, RamTick, WordAt
<1> QED
  BY <1>3, <1>4

LEMMA CacheStep ==
    ASSUME IInv, NEW in \in PipeInput, ClientsTick(in)
    PROVE  CacheCoherent'
<1> SUFFICES ASSUME NEW a \in CodeAddr,
                    i_cache_valid'[Index(a)] /\ i_cache_tag'[Index(a)] = Tag(a)
             PROVE  i_cache_data'[Index(a)] = WordAt(a)'
  BY DEF CacheCoherent, Index, Tag
<1>1. a \in Addr /\ TypeOK
  BY CodeAssumption DEF IInv
<1>2. WordAt(a)' = WordAt(a)
  BY CodeUntouched
<1>3. Index(a) \in Line /\ InstAddr \in Addr /\ Index(InstAddr) \in Line
  BY <1>1, LineType, InstReqType DEF TypeOK
<1>4. CASE inst_enable /\ Index(a) = Index(InstAddr)
  <2>1. /\ i_cache_tag'[Index(a)] = Tag(InstAddr)
        /\ i_cache_data'[Index(a)] = inst_data
    BY <1>1, <1>3, <1>4 DEF ClientsTick, CacheTick, TypeOK
  <2>2. a = InstAddr
    BY <1>1, <1>3, <1>4, <2>1, LineTagInjective
  <2>3. inst_data = WordAt(pc_o) /\ InstAddr = pc_o
    BY <1>4 DEF IInv, FetchReply, InstAddr
  <2> QED
    BY <1>2, <2>1, <2>2, <2>3
<1>5. CASE ~(inst_enable /\ Index(a) = Index(InstAddr))
  <2>1. /\ i_cache_valid'[Index(a)] = i_cache_valid[Index(a)]
        /\ i_cache_tag'[Index(a)] = i_cache_tag[Index(a)]
        /\ i_cache_data'[Index(a)] = i_cache_data[Index(a)]
    BY <1>1, <1>3, <1>5 DEF ClientsTick, CacheTick, cacheVars, TypeOK
  <2> QED
    BY <1>2, <2>1 DEF IInv, CacheCoherent
<1> QED
  BY <1>4, <1>5

-----------------------------------------------------------------------------
(* The steps that leave the port idle.                                     *)

PortIdle == /\ flag = 0 /\ ~mem_busy /\ ~inst_busy
            /\ ~inst_enable /\ ~mem_enable

LEMMA PortIdleInv ==
    ASSUME PortIdle'
    PROVE  /\ PortOwned' /\ FetchHeld' /\ MemOpHeld' /\ TransferProgress'
           /\ FetchReply' /\ ReplyMeetsRequest' /\ LoadCorrect' /\ StoreComplete'
BY DEF PortIdle, PortOwned, FetchHeld, MemOpHeld, TransferProgress, FetchReply,
       ReplyMeetsRequest, LoadCorrect, StoreComplete

\* Abort: a taken jump drops the fetch; the port is idle, the cache as it was.
LEMMA AbortStep ==
    ASSUME IInv, NEW in \in PipeInput, ClockAbort(in)
    PROVE  IInv'
<1>1. ClientsTick(in) /\ Cleared
  BY DEF ClockAbort, Abort
<1>2. TypeOK'
  BY <1>1, ClientsTypeOK, ControllerTypeOK, WriteInRange DEF IInv, TypeOK
<1>3. CacheCoherent'
  BY <1>1, CacheStep
<1>4. PortIdle'
  BY <1>1 DEF Cleared, PortIdle
<1> QED
  BY <1>2, <1>3, <1>4, PortIdleInv DEF IInv

\* No request: an answer, if there was one, has been taken.
LEMMA IdleStep ==
    ASSUME IInv, NEW in \in PipeInput, ClockIdle(in)
    PROVE  IInv'
<1>1. ClientsTick(in) /\ Idle(InstReq, MemReq)
  BY DEF ClockIdle
<1>2. TypeOK'
  BY <1>1, ClientsTypeOK, ControllerTypeOK, WriteInRange DEF IInv, TypeOK
<1>3. CacheCoherent'
  BY <1>1, CacheStep
<1>4. flag = 0
  <2>1. ~MemReq.en
    <3>1. MemReq.en => Width(exmem.func3) \in {1, 2, 4}
      BY DEF Width
    <3> QED
      BY <1>1, <3>1, MemOpPort DEF Idle
  <2>2. ~InstReq.en
    BY <1>1, <2>1 DEF Idle, Num
  <2>3. CASE flag # 0 /\ mem_busy
    BY <2>2, <2>3 DEF IInv, FetchHeld
  <2>4. CASE flag # 0 /\ inst_busy
    <3>1. IsMemOp(exmem) /\ ~mem_enable /\ ~mem_busy
      BY <2>4 DEF IInv, MemOpHeld, PortOwned
    <3>2. exmem \in MemInstr
      BY BubbleType, InstrsAssumption DEF IInv, TypeOK
    <3> QED
      BY <2>1, <3>1, <3>2, MemReqType DEF MemStallReq, IInv, TypeOK
  <2> QED
    BY <2>3, <2>4 DEF IInv, PortOwned
<1>5. PortIdle'
  BY <1>1, <1>4 DEF Idle, PortIdle
<1> QED
  BY <1>2, <1>3, <1>5, PortIdleInv DEF IInv

\* rst high, with or without a host write: nothing survives but the RAM.
LEMMA ResetStep ==
    ASSUME IInv, Reset \/ HostWrite
    PROVE  IInv'
<1>1. ResetTick
  BY DEF Reset, HostWrite
<1>2. ram' \in [Addr -> Byte]
  BY HostAssumption DEF Reset, HostWrite, IInv, TypeOK
<1>3. TypeOK'
  <2>1. /\ flag' \in 0..4
        /\ mem_busy' \in BOOLEAN /\ inst_busy' \in BOOLEAN
        /\ inst_enable' \in BOOLEAN /\ mem_enable' \in BOOLEAN
        /\ inst_data' \in Word /\ mem_rdata' \in Word /\ l_data' \in Word
    BY <1>1, ControllerTypeOK, WriteInRange DEF ResetTick, IInv
  <2>2. q_addr' \in Addr
    <3>1. RamIdx(flag) \in Addr
      BY MemSizeAssumption DEF IInv, TypeOK, RamIdx, Addr
    <3> QED
      BY <1>1, <3>1, HostAssumption DEF ResetTick
  <2>3. pc_o' \in Addr /\ pc_tmp' \in Addr /\ pc_enable' \in BOOLEAN
    <3>1. 0 \in Addr
      BY MemSizeAssumption DEF Addr
    <3> QED
      BY <1>1, <3>1 DEF ResetTick, PcReset, IInv, TypeOK
  <2>4. /\ i_cache_valid' \in [Line -> BOOLEAN]
        /\ i_cache_tag' \in [Line -> Nat]
        /\ i_cache_data' \in [Line -> Word]
    BY <1>1 DEF ResetTick, CacheReset, IInv, TypeOK
  <2>5. exmem' \in Instrs \union {Bubble}
    BY <1>1 DEF ResetTick
  <2> QED
    BY <1>2, <2>1, <2>2, <2>3, <2>4, <2>5 DEF TypeOK
<1>4. CacheCoherent'
  <2> SUFFICES ASSUME NEW a \in CodeAddr
               PROVE  ~i_cache_valid'[Index(a)]
    BY DEF CacheCoherent, Index, Tag
  <2>1. Index(a) \in Line
    BY CodeAssumption, LineType
  <2> QED
    BY <1>1, <2>1 DEF ResetTick, CacheReset
<1>5. PortIdle'
  BY <1>1 DEF ResetTick, Cleared, PortIdle
<1> QED
  BY <1>3, <1>4, <1>5, PortIdleInv DEF IInv

-----------------------------------------------------------------------------
(* The steps that move a byte.                                             *)

\* First cycle of a read: the port gets an owner.
LEMMA ReadFirstStep ==
    ASSUME IInv, NEW in \in PipeInput, ClockReadFirst(in)
    PROVE  IInv'
<1>1. /\ ClientsTick(in) /\ ReadFirst(InstReq, MemReq)
      /\ ~Aborts(MemReq, IfJump(in))
  BY DEF ClockReadFirst
<1>2. TypeOK' /\ TypeOK
  BY <1>1, ClientsTypeOK, ControllerTypeOK, WriteInRange DEF IInv, TypeOK
<1>3. CacheCoherent'
  BY <1>1, CacheStep
<1>4. /\ flag = 0 /\ flag' = 1 /\ ~mem_enable' /\ ~inst_enable'
      /\ mem_busy' <=> ~MemReq.en
      /\ inst_busy' <=> MemReq.en
  BY <1>1, <1>2, MemReqType DEF ReadFirst
<1>5. PortOwned' /\ FetchReply' /\ ReplyMeetsRequest' /\ LoadCorrect' /\ StoreComplete'
  BY <1>4 DEF PortOwned, FetchReply, ReplyMeetsRequest, LoadCorrect, StoreComplete
<1>6. FetchHeld' /\ MemOpHeld' /\ TransferProgress'
  <2>1. CASE MemReq.en
    <3>1. /\ exmem' = exmem /\ exmem.op = "LOAD"
          /\ q_addr' = RamIdx(exmem.addr + flag)
      BY <1>1, <2>1, MemOpStable, MemOpPort DEF ReadFirst, IsMemOp
    <3>2. flag' <= Width(exmem.func3)
      BY <1>4 DEF Width
    <3> QED
      BY <1>4, <2>1, <3>1, <3>2
         DEF FetchHeld, MemOpHeld, IsMemOp, TransferProgress, ReadProgress
  <2>2. CASE ~MemReq.en
    <3>1. InstReq.en
      BY <1>1, <2>2 DEF ReadFirst, Num
    <3>2. pc_o' = pc_o /\ pc_enable' /\ ~Hit' /\ q_addr' = RamIdx(pc_o + flag)
      BY <1>1, <2>2, <3>1, FetchStable
    <3>3. q_addr' = RamIdx(pc_o' + flag' - 1)
      <4>1. pc_o' + flag' - 1 = pc_o + flag
        BY <1>2, <1>4, <3>2 DEF TypeOK, Addr
      <4> QED
        BY <3>2, <4>1
    <3>4. \A k \in 0..3 : ~(k < flag' - 1)
      BY <1>4
    <3>5. FetchHeld' /\ MemOpHeld'
      BY <1>4, <2>2, <3>2 DEF FetchHeld, InstReq, MemOpHeld
    <3>6. TransferProgress'
      BY <1>4, <2>2, <3>3, <3>4 DEF TransferProgress, ReadProgress
    <3> QED
      BY <3>5, <3>6
  <2> QED
    BY <2>1, <2>2
<1> QED
  BY <1>2, <1>3, <1>5, <1>6 DEF IInv

\* Next cycle of a read, for the client being served at address a: the byte
\* registered at the last edge joins those already collected.
LEMMA ReadNextProgress ==
    ASSUME TypeOK, NEW a \in Addr, ReadProgress(a),
           ReadNext(InstReq, MemReq),
           ram' = ram, q_addr' = RamIdx(a + flag)
    PROVE  /\ q_addr' = RamIdx(a + flag' - 1)
           /\ \A k \in 0..3 : k < flag' - 1 => l_data'[k] = ram'[RamIdx(a + k)]
<1>1. /\ flag \in 1..3 /\ flag' = flag + 1
      /\ l_data' = [l_data EXCEPT ![flag - 1] = RamIn]
  BY PortType DEF ReadNext, TypeOK
<1>2. RamIn = ram[RamIdx(a + (flag - 1))]
  <2>1. a + flag - 1 = a + (flag - 1)
    BY <1>1 DEF Addr
  <2> QED
    BY <2>1 DEF ReadProgress, RamIn
<1>3. ASSUME NEW k \in 0..3, k < flag' - 1
      PROVE  l_data'[k] = ram'[RamIdx(a + k)]
  <2>1. l_data \in [0..3 -> Byte]
    BY DEF TypeOK, Word
  <2>2. CASE k = flag - 1
    BY <1>1, <1>2, <2>1, <2>2
  <2>3. CASE k # flag - 1
    <3>1. k < flag - 1
      BY <1>1, <1>3, <2>3
    <3> QED
      BY <1>1, <2>1, <2>3, <3>1 DEF ReadProgress
  <2> QED
    BY <2>2, <2>3
<1>4. q_addr' = RamIdx(a + flag' - 1)
  <2>1. a + flag' - 1 = a + flag
    BY <1>1 DEF Addr
  <2> QED
    BY <2>1
<1> QED
  BY <1>3, <1>4

LEMMA ReadNextStep ==
    ASSUME IInv, NEW in \in PipeInput, ClockReadNext(in)
    PROVE  IInv'
<1>1. /\ ClientsTick(in) /\ ReadNext(InstReq, MemReq)
      /\ ~Aborts(MemReq, IfJump(in))
  BY DEF ClockReadNext
<1>2. TypeOK' /\ TypeOK
  BY <1>1, ClientsTypeOK, ControllerTypeOK, WriteInRange DEF IInv, TypeOK
<1>3. CacheCoherent'
  BY <1>1, CacheStep
<1>4. /\ flag \in 1..3 /\ flag' = flag + 1
      /\ flag < Num(InstReq, MemReq)
      /\ UNCHANGED <<mem_busy, inst_busy, inst_enable, mem_enable>>
  BY <1>1, <1>2, PortType DEF ReadNext, TypeOK
<1>5. ~mem_enable /\ ~inst_enable
  BY <1>4 DEF IInv, PortOwned
<1>6. PortOwned' /\ FetchReply' /\ ReplyMeetsRequest' /\ LoadCorrect' /\ StoreComplete'
  BY <1>4, <1>5
     DEF IInv, PortOwned, FetchReply, ReplyMeetsRequest, LoadCorrect, StoreComplete
<1>7. FetchHeld' /\ MemOpHeld' /\ TransferProgress'
  <2>1. CASE MemReq.en
    <3>1. inst_busy /\ ~mem_busy /\ exmem.op = "LOAD" /\ flag < Width(exmem.func3)
      BY <1>1, <1>4, <2>1, MemOpPort DEF ReadNext, IsMemOp
    <3>2. /\ exmem' = exmem /\ ram' = ram
          /\ q_addr' = RamIdx(exmem.addr + flag)
      BY <1>1, <2>1, <3>1, MemOpStable
    <3>3. exmem.addr \in Addr
      BY BubbleType, InstrsAssumption, <1>2 DEF TypeOK, MemInstr
    <3>4. ReadProgress(exmem.addr)
      BY <1>4, <3>1 DEF IInv, TransferProgress
    <3>5. /\ q_addr' = RamIdx(exmem.addr + flag' - 1)
          /\ \A k \in 0..3 : k < flag' - 1 => l_data'[k] = ram'[RamIdx(exmem.addr + k)]
      BY <1>1, <1>2, <3>2, <3>3, <3>4, ReadNextProgress
    <3>6. flag' <= Width(exmem.func3)
      BY <1>4, <3>1 DEF Width
    <3> QED
      BY <1>4, <3>1, <3>2, <3>5, <3>6
         DEF FetchHeld, MemOpHeld, IsMemOp, TransferProgress, ReadProgress
  <2>2. CASE ~MemReq.en
    <3>1. InstReq.en
      BY <1>1, <2>2 DEF ReadNext, Num
    <3>2. mem_busy /\ ~inst_busy
      BY <1>4, <2>2, <3>1, FetchPort
    <3>3. /\ pc_o' = pc_o /\ pc_enable' /\ ~Hit' /\ ram' = ram
          /\ q_addr' = RamIdx(pc_o + flag)
      BY <1>1, <2>2, <3>1, FetchStable
    <3>4. ReadProgress(pc_o) /\ pc_o \in Addr
      BY <1>2, <1>4, <3>2 DEF IInv, TransferProgress, TypeOK
    <3>5. /\ q_addr' = RamIdx(pc_o + flag' - 1)
          /\ \A k \in 0..3 : k < flag' - 1 => l_data'[k] = ram'[RamIdx(pc_o + k)]
      BY <1>1, <1>2, <3>3, <3>4, ReadNextProgress
    <3> QED
      BY <1>4, <1>5, <3>2, <3>3, <3>5
         DEF FetchHeld, InstReq, MemOpHeld, TransferProgress, ReadProgress
  <2> QED
    BY <2>1, <2>2
<1> QED
  BY <1>2, <1>3, <1>6, <1>7 DEF IInv

\* Last cycle of a read: the assembled word is the one in the RAM.
LEMMA AssembleProgress ==
    ASSUME TypeOK, NEW a \in Addr, ReadProgress(a), NEW n \in 1..4, flag = n
    PROVE  Assemble(n) = [k \in 0..3 |-> IF k < n THEN ram[RamIdx(a + k)] ELSE Zero]
<1>1. RamIn = ram[RamIdx(a + (n - 1))]
  <2>1. a + flag - 1 = a + (n - 1)
    BY DEF Addr
  <2> QED
    BY <2>1 DEF ReadProgress, RamIn
<1>2. ASSUME NEW k \in 0..3
      PROVE  (IF k < n - 1 THEN l_data[k] ELSE IF k = n - 1 THEN RamIn ELSE Zero)
             = (IF k < n THEN ram[RamIdx(a + k)] ELSE Zero)
  BY <1>1 DEF ReadProgress
<1> QED
  BY <1>2 DEF Assemble

LEMMA ReadLastStep ==
    ASSUME IInv, NEW in \in PipeInput, ClockReadLast(in)
    PROVE  IInv'
<1>1. /\ ClientsTick(in) /\ ReadLast(InstReq, MemReq)
      /\ ~Aborts(MemReq, IfJump(in))
  BY DEF ClockReadLast
<1>2. TypeOK' /\ TypeOK
  BY <1>1, ClientsTypeOK, ControllerTypeOK, WriteInRange DEF IInv, TypeOK
<1>3. CacheCoherent'
  BY <1>1, CacheStep
<1>4. /\ flag \in 1..4 /\ flag' = 0 /\ flag >= Num(InstReq, MemReq)
      /\ UNCHANGED <<mem_busy, inst_busy>>
  BY <1>1, <1>2 DEF ReadLast, TypeOK
<1>5. ~mem_enable /\ ~inst_enable
  BY <1>4 DEF IInv, PortOwned
<1>6. FetchHeld' /\ MemOpHeld' /\ TransferProgress'
  BY <1>4 DEF FetchHeld, MemOpHeld, TransferProgress
<1>7. PortOwned' /\ FetchReply' /\ ReplyMeetsRequest' /\ LoadCorrect' /\ StoreComplete'
  <2>1. CASE MemReq.en
    <3>1. inst_busy /\ ~mem_busy /\ exmem.op = "LOAD" /\ flag = Width(exmem.func3)
      <4>1. Width(exmem.func3) \in {1, 2, 4}
        BY DEF Width
      <4> QED
        BY <1>1, <1>4, <2>1, <4>1, MemOpPort DEF ReadLast, IsMemOp
    <3>2. exmem' = exmem /\ ram' = ram
      BY <1>1, <2>1, <3>1, MemOpStable
    <3>3. exmem \in MemInstr /\ exmem.addr \in Addr
      BY BubbleType, InstrsAssumption, <1>2 DEF TypeOK, MemInstr
    <3>4. ReadProgress(exmem.addr)
      BY <1>4, <3>1 DEF IInv, TransferProgress
    <3>5. /\ mem_enable' /\ ~inst_enable'
          /\ mem_rdata' = Assemble(Width(exmem.func3))
      BY <1>1, <1>2, <1>5, <2>1, <3>3, MemReqType DEF ReadLast, TypeOK
    <3>6. mem_rdata' = [k \in 0..3 |-> IF k < Width(exmem.func3)
                                       THEN ram[RamIdx(exmem.addr + k)] ELSE Zero]
      BY <1>2, <1>4, <3>1, <3>3, <3>4, <3>5, AssembleProgress
    <3>7. PortOwned' /\ FetchReply' /\ ReplyMeetsRequest' /\ StoreComplete'
      BY <1>4, <3>1, <3>2, <3>5
         DEF PortOwned, FetchReply, ReplyMeetsRequest, StoreComplete, IsMemOp
    <3>8. LoadCorrect'
      BY <3>2, <3>6 DEF LoadCorrect
    <3> QED
      BY <3>7, <3>8
  <2>2. CASE ~MemReq.en
    <3>1. InstReq.en
      BY <1>1, <2>2 DEF ReadLast, Num
    <3>2. mem_busy /\ ~inst_busy /\ flag = 4
      BY <1>4, <2>2, <3>1, FetchPort
    <3>3. pc_o' = pc_o /\ pc_enable' /\ ram' = ram
      BY <1>1, <2>2, <3>1, FetchStable
    <3>4. ReadProgress(pc_o) /\ pc_o \in Addr
      BY <1>2, <1>4, <3>2 DEF IInv, TransferProgress, TypeOK
    <3>5. inst_enable' /\ ~mem_enable' /\ inst_data' = Assemble(4)
      BY <1>1, <1>5, <2>2 DEF ReadLast
    <3>6. inst_data' = WordAt(pc_o)
      <4>1. PICK n \in 1..4 : n = 4
        OBVIOUS
      <4>2. Assemble(n) = [k \in 0..3 |-> IF k < n THEN ram[RamIdx(pc_o + k)] ELSE Zero]
        BY <1>2, <3>2, <3>4, <4>1, AssembleProgress
      <4>3. Assemble(4) = [k \in 0..3 |-> ram[RamIdx(pc_o + k)]]
        BY <4>1, <4>2
      <4> QED
        BY <3>5, <4>3 DEF WordAt
    <3>7. FetchReply'
      BY <3>3, <3>6 DEF FetchReply, WordAt
    <3> QED
      BY <1>4, <3>2, <3>3, <3>5, <3>7
         DEF PortOwned, ReplyMeetsRequest, LoadCorrect, StoreComplete
  <2> QED
    BY <2>1, <2>2
<1> QED
  BY <1>2, <1>3, <1>6, <1>7 DEF IInv

\* A store writes its next byte; the last one reports it done.
LEMMA WriteStep ==
    ASSUME IInv, NEW in \in PipeInput, ClockWrite(in)
    PROVE  IInv'
<1>1. ClientsTick(in) /\ WriteByte(InstReq, MemReq)
  BY DEF ClockWrite
<1>2. TypeOK' /\ TypeOK
  BY <1>1, ClientsTypeOK, ControllerTypeOK, WriteInRange DEF IInv, TypeOK
<1>3. CacheCoherent'
  BY <1>1, CacheStep
<1>4. MemReq.en
  BY <1>1 DEF WriteByte, RamWr
<1>5. exmem \in MemInstr /\ exmem.addr \in Addr
  BY BubbleType, InstrsAssumption, <1>2 DEF TypeOK, MemInstr
<1>6. /\ exmem.op = "STORE" /\ IsMemOp(exmem) /\ ~mem_busy /\ ~inst_enable /\ ~mem_enable
      /\ Num(InstReq, MemReq) = Width(exmem.func3)
      /\ flag # 0 => inst_busy
  BY <1>1, <1>4, MemOpPort DEF WriteByte
<1>7. Width(exmem.func3) \in {1, 2, 4} /\ flag \in 0..3 /\ flag < Width(exmem.func3)
  BY <1>2, <1>4, <1>6, MemOpPort DEF Width, TypeOK
<1>8. /\ exmem' = exmem
      /\ ram' = [ram EXCEPT ![RamIdx(exmem.addr + flag)] = exmem.data[flag]]
  BY <1>1, <1>4, <1>6, MemOpStable
<1>9. /\ inst_busy' /\ ~mem_busy' /\ ~inst_enable'
      /\ mem_enable' <=> flag + 1 = Width(exmem.func3)
      /\ flag' = IF flag + 1 = Width(exmem.func3) THEN 0 ELSE flag + 1
  BY <1>1, <1>2, <1>6 DEF WriteByte, TypeOK
<1>10. \A k \in 0..3 : k < flag + 1 => ram'[RamIdx(exmem.addr + k)] = exmem.data[k]
  <2> SUFFICES ASSUME NEW k \in 0..3, k < flag + 1
               PROVE  ram'[RamIdx(exmem.addr + k)] = exmem.data[k]
    OBVIOUS
  <2>1. k \in 0..7 /\ flag \in 0..7
    BY <1>7
  <2>2. RamIdx(exmem.addr + k) \in Addr /\ RamIdx(exmem.addr + flag) \in Addr
    BY <1>5, <2>1, RamIdxType
  <2>3. CASE k = flag
    BY <1>2, <1>8, <2>2, <2>3 DEF TypeOK
  <2>4. CASE k # flag
    <3>1. k < flag /\ flag # 0 /\ inst_busy
      BY <1>6, <1>7, <2>4
    <3>2. ram[RamIdx(exmem.addr + k)] = exmem.data[k]
      BY <1>6, <3>1 DEF IInv, TransferProgress
    <3>3. RamIdx(exmem.addr + k) # RamIdx(exmem.addr + flag)
      BY <1>5, <2>1, <2>4, RamIdxInjective
    <3> QED
      BY <1>2, <1>8, <2>2, <3>2, <3>3 DEF TypeOK
  <2> QED
    BY <2>3, <2>4
<1>11. PortOwned' /\ FetchHeld' /\ FetchReply' /\ ReplyMeetsRequest' /\ LoadCorrect'
  BY <1>6, <1>7, <1>8, <1>9
     DEF PortOwned, FetchHeld, FetchReply, ReplyMeetsRequest, LoadCorrect, IsMemOp
<1>12. MemOpHeld'
  BY <1>6, <1>7, <1>8, <1>9 DEF MemOpHeld, IsMemOp
<1>13. TransferProgress'
  BY <1>6, <1>7, <1>8, <1>9, <1>10 DEF TransferProgress
<1>14. StoreComplete'
  BY <1>7, <1>8, <1>9, <1>10 DEF StoreComplete
<1> QED
  BY <1>2, <1>3, <1>11, <1>12, <1>13, <1>14 DEF IInv

-----------------------------------------------------------------------------
(* The invariant and what follows from it.                                 *)

LEMMA InitIInv == Init => IInv
<1> SUFFICES ASSUME Init PROVE IInv
  OBVIOUS
<1>1. TypeOK
  BY InitTypeOK
<1>2. CacheCoherent
  BY CodeAssumption, LineType DEF Init, CacheCoherent
<1> QED
  BY <1>1, <1>2
     DEF Init, IInv, PortOwned, FetchHeld, MemOpHeld, TransferProgress, FetchReply,
         ReplyMeetsRequest, LoadCorrect, StoreComplete

LEMMA StutterIInv ==
    ASSUME IInv, UNCHANGED vars
    PROVE  IInv'
<1>1. UNCHANGED <<flag, mem_busy, inst_busy, inst_enable, inst_data, mem_enable,
                  mem_rdata, l_data, ram, q_addr, pc_o, pc_tmp, pc_enable,
                  i_cache_valid, i_cache_tag, i_cache_data, exmem>>
  BY DEF vars, mcVars, ramVars, pcVars, cacheVars
<1>2. TypeOK' /\ PortOwned' /\ FetchReply' /\ CacheCoherent'
  BY <1>1 DEF IInv, TypeOK, PortOwned, FetchReply, CacheCoherent, WordAt
<1>3. FetchHeld' /\ MemOpHeld'
  BY <1>1 DEF IInv, FetchHeld, InstReq, Hit, InstAddr, MemOpHeld
<1>4. TransferProgress'
  BY <1>1 DEF IInv, TransferProgress, ReadProgress
<1>5. ReplyMeetsRequest' /\ LoadCorrect' /\ StoreComplete'
  BY <1>1 DEF IInv, ReplyMeetsRequest, LoadCorrect, StoreComplete
<1> QED
  BY <1>2, <1>3, <1>4, <1>5 DEF IInv

LEMMA NextIInv == IInv /\ [Next]_vars => IInv'
<1> SUFFICES ASSUME IInv, [Next]_vars PROVE IInv'
  OBVIOUS
<1>1. ASSUME NEW in \in PipeInput, ClockAbort(in) PROVE IInv'
  BY <1>1, AbortStep
<1>2. ASSUME NEW in \in PipeInput, ClockReadFirst(in) PROVE IInv'
  BY <1>2, ReadFirstStep
<1>3. ASSUME NEW in \in PipeInput, ClockReadNext(in) PROVE IInv'
  BY <1>3, ReadNextStep
<1>4. ASSUME NEW in \in PipeInput, ClockReadLast(in) PROVE IInv'
  BY <1>4, ReadLastStep
<1>5. ASSUME NEW in \in PipeInput, ClockWrite(in) PROVE IInv'
  BY <1>5, WriteStep
<1>6. ASSUME NEW in \in PipeInput, ClockIdle(in) PROVE IInv'
  BY <1>6, IdleStep
<1>7. CASE Reset \/ HostWrite
  BY <1>7, ResetStep
<1>8. CASE UNCHANGED vars
  BY <1>8, StutterIInv
<1> QED
  BY <1>1, <1>2, <1>3, <1>4, <1>5, <1>6, <1>7, <1>8 DEF Next, Clock

\* The inductive invariant: ownership of the byte port, the progress of the
\* transfer it is serving, and everything the checked invariants say
\* (memory_control.v, icache.v, mem.v).
THEOREM Invariance == Spec => []IInv
<1>1. Init => IInv
  BY InitIInv
<1>2. IInv /\ [Next]_vars => IInv'
  BY NextIInv
<1> QED
  BY <1>1, <1>2, PTL DEF Spec

\* Every register keeps its width; in particular the byte counter never
\* passes the width of the transfer (memory_control.v flag).
THEOREM TypeCorrect == Spec => []TypeOK
<1>1. IInv => TypeOK
  BY DEF IInv
<1> QED
  BY <1>1, Invariance, PTL

\* A valid cache line holds the program's word, for every cache and memory
\* size and every program (icache.v).
THEOREM CacheIsCoherent == Spec => []CacheCoherent
<1>1. IInv => CacheCoherent
  BY DEF IInv
<1> QED
  BY <1>1, Invariance, PTL

\* The word handed to IF/ID is the RAM's word at the program counter (if.v).
THEOREM FetchIsCorrect == Spec => []FetchCorrect
<1>1. IInv => FetchCorrect
  <2> SUFFICES ASSUME IInv, FetchDone, pc_o \in CodeAddr
               PROVE  FetchedInst = WordAt(pc_o)
    BY DEF FetchCorrect
  <2>1. InstAddr = pc_o
    BY DEF FetchDone, InstAddr
  <2>2. CASE Hit
    BY <2>1, <2>2 DEF IInv, CacheCoherent, FetchedInst, Hit
  <2>3. CASE ~Hit
    BY <2>3 DEF IInv, FetchReply, FetchDone, FetchedInst
  <2> QED
    BY <2>2, <2>3
<1> QED
  BY <1>1, Invariance, PTL

\* Replies reach the client that asked, loads return the RAM's bytes and a
\* store reported done is in the RAM (memory_control.v, mem.v).
THEOREM RepliesAreCorrect ==
    Spec => []RepliesCorrect
<1>1. IInv => RepliesCorrect
  BY DEF IInv, RepliesCorrect
<1> QED
  BY <1>1, Invariance, PTL

-----------------------------------------------------------------------------
(* What a single edge may do.                                              *)

\* The wires of a transfer in progress, after an edge.
LEMMA MemOpWiresNext ==
    ASSUME IInv', flag' # 0, inst_busy'
    PROVE  /\ Num(InstReq, MemReq)' = Width(exmem'.func3)
           /\ ServedAddr(InstReq, MemReq)' = exmem'.addr
<1>1. IsMemOp(exmem') /\ ~mem_enable' /\ ~mem_busy'
  BY DEF IInv, MemOpHeld, PortOwned, IsMemOp
<1> QED
  BY <1>1 DEF Num, ServedAddr, MemReq, MemStallReq, IsMemOp, Width

LEMMA FetchWiresNext ==
    ASSUME IInv', flag' # 0, mem_busy'
    PROVE  /\ Num(InstReq, MemReq)' = 4
           /\ ServedAddr(InstReq, MemReq)' = pc_o'
<1>1. InstReq'.en
  BY DEF IInv, FetchHeld
<1>2. pc_enable'
  BY <1>1 DEF InstReq
<1> QED
  BY <1>1, <1>2 DEF Num, ServedAddr, MemReq, InstReq, InstAddr

\* An edge in the middle of a load or store.
LEMMA MemOpEdge ==
    ASSUME IInv, MemReq.en, flag # 0, [Next]_vars, ~ResetTick, vars' # vars
    PROVE  /\ exmem' = exmem /\ inst_busy' /\ ~mem_busy'
           /\ \/ flag' = flag + 1
              \/ flag' = 0 /\ mem_enable'
<1>1. PICK in \in PipeInput :
        \/ ClockAbort(in) \/ ClockReadFirst(in) \/ ClockReadNext(in)
        \/ ClockReadLast(in) \/ ClockWrite(in) \/ ClockIdle(in)
  BY DEF Next, Clock, Reset, HostWrite
<1>2. ClientsTick(in)
  BY <1>1 DEF ClockAbort, ClockReadFirst, ClockReadNext, ClockReadLast, ClockWrite, ClockIdle
<1>3. exmem' = exmem
  BY <1>2, MemOpStable
<1>4. /\ inst_busy /\ ~mem_busy /\ ~mem_enable /\ Width(exmem.func3) # 0
      /\ Num(InstReq, MemReq) = Width(exmem.func3)
  BY MemOpPort DEF Width
<1>5. ~ClockAbort(in) /\ ~ClockReadFirst(in) /\ ~ClockIdle(in)
  BY <1>4 DEF ClockAbort, Abort, Aborts, ClockReadFirst, ReadFirst, ClockIdle, Idle
<1>6. CASE ClockReadNext(in)
  BY <1>3, <1>4, <1>6 DEF ClockReadNext, ReadNext
<1>7. CASE ClockReadLast(in)
  BY <1>3, <1>4, <1>7 DEF ClockReadLast, ReadLast
<1>8. CASE ClockWrite(in)
  <2>1. flag' = IF flag + 1 = Num(InstReq, MemReq) THEN 0 ELSE flag + 1
    BY <1>8 DEF ClockWrite, WriteByte
  <2>2. flag + 1 = Num(InstReq, MemReq) => mem_enable'
    BY <1>8 DEF ClockWrite, WriteByte
  <2>3. inst_busy' /\ ~mem_busy'
    BY <1>4, <1>8 DEF ClockWrite, WriteByte
  <2> QED
    BY <1>3, <2>1, <2>2, <2>3
<1> QED
  BY <1>1, <1>5, <1>6, <1>7, <1>8

\* An edge in the middle of a fetch.
LEMMA FetchEdge ==
    ASSUME IInv, InstReq.en, ~MemReq.en, flag # 0, flag' # 0, [Next]_vars, vars' # vars
    PROVE  pc_o' = pc_o /\ mem_busy' /\ ~inst_busy'
<1>1. ~ResetTick
  BY DEF ResetTick, Cleared
<1>2. PICK in \in PipeInput :
        \/ ClockAbort(in) \/ ClockReadFirst(in) \/ ClockReadNext(in)
        \/ ClockReadLast(in) \/ ClockWrite(in) \/ ClockIdle(in)
  BY <1>1 DEF Next, Clock, Reset, HostWrite
<1>3. mem_busy /\ ~inst_busy /\ Num(InstReq, MemReq) = 4 /\ ~RamWr(InstReq, MemReq)
  BY FetchPort
<1>4. ClockReadNext(in)
  <2>1. ~ClockAbort(in) /\ ~ClockReadLast(in)
    BY DEF ClockAbort, Abort, Cleared, ClockReadLast, ReadLast
  <2>2. ~ClockReadFirst(in) /\ ~ClockWrite(in) /\ ~ClockIdle(in)
    BY <1>3 DEF ClockReadFirst, ReadFirst, ClockWrite, WriteByte, ClockIdle, Idle
  <2> QED
    BY <1>2, <2>1, <2>2
<1>5. pc_o' = pc_o
  BY <1>4, FetchStable DEF ClockReadNext
<1> QED
  BY <1>3, <1>4, <1>5 DEF ClockReadNext, ReadNext

\* Somebody is asking for every transfer in progress.
LEMMA OwnerAsks ==
    ASSUME IInv, flag # 0
    PROVE  MemReq.en \/ (InstReq.en /\ ~MemReq.en)
<1>1. exmem \in MemInstr
  BY BubbleType, InstrsAssumption DEF IInv, TypeOK
<1>2. CASE mem_busy
  BY <1>2 DEF IInv, FetchHeld
<1>3. CASE inst_busy
  <2>1. IsMemOp(exmem) /\ ~mem_enable /\ ~mem_busy
    BY <1>3 DEF IInv, PortOwned, MemOpHeld
  <2> QED
    BY <1>1, <2>1, MemReqType DEF MemStallReq, IInv, TypeOK
<1> QED
  BY <1>2, <1>3 DEF IInv, PortOwned

\* A transfer in progress keeps its address and length until it is over.
THEOREM OwnerIsStable == Spec => OwnerStable
<1>1. ASSUME IInv, IInv', [Next]_vars, vars' # vars, flag # 0, flag' # 0
      PROVE  /\ ServedAddr(InstReq, MemReq)' = ServedAddr(InstReq, MemReq)
             /\ Num(InstReq, MemReq)' = Num(InstReq, MemReq)
  <2>1. CASE MemReq.en
    <3>1. ~ResetTick
      BY <1>1 DEF ResetTick, Cleared
    <3>2. exmem' = exmem /\ inst_busy'
      BY <1>1, <2>1, <3>1, MemOpEdge
    <3> QED
      BY <1>1, <2>1, <3>2, MemOpPort, MemOpWiresNext
  <2>2. CASE InstReq.en /\ ~MemReq.en
    <3>1. pc_o' = pc_o /\ mem_busy'
      BY <1>1, <2>2, FetchEdge
    <3> QED
      BY <1>1, <2>2, <3>1, FetchPort, FetchWiresNext
  <2> QED
    BY <1>1, <2>1, <2>2, OwnerAsks
<1>2. IInv /\ IInv' /\ [Next]_vars =>
        [ flag # 0 /\ flag' # 0 =>
            /\ ServedAddr(InstReq, MemReq)' = ServedAddr(InstReq, MemReq)
            /\ Num(InstReq, MemReq)' = Num(InstReq, MemReq) ]_vars
  BY <1>1
<1> QED
  BY <1>2, Invariance, PTL DEF Spec, OwnerStable

\* A load or store that moved a byte moves its next byte or is reported done:
\* neither jumps nor fetches nor stalls make memory_control drop it.
THEOREM NeverAbandoned == Spec => NotAbandoned
<1>1. ASSUME IInv, [Next]_vars, vars' # vars, MemStallReq, flag # 0, ~mem_busy
      PROVE  \/ ResetTick
             \/ /\ exmem' = exmem
                /\ flag' = flag + 1 \/ (flag' = 0 /\ mem_enable')
  <2>1. exmem \in MemInstr
    BY <1>1, BubbleType, InstrsAssumption DEF IInv, TypeOK
  <2>2. MemReq.en
    BY <1>1, <2>1, MemReqType DEF IInv, TypeOK
  <2> QED
    BY <1>1, <2>2, MemOpEdge
<1>2. IInv /\ [Next]_vars =>
        [ MemStallReq /\ flag # 0 /\ ~mem_busy =>
            \/ ResetTick
            \/ /\ exmem' = exmem
               /\ flag' = flag + 1 \/ (flag' = 0 /\ mem_enable') ]_vars
  BY <1>1
<1> QED
  BY <1>2, Invariance, PTL DEF Spec, NotAbandoned

\* While rst is low the RAM changes only in bytes of the store in MEM.
THEOREM NoWriteStrays == Spec => NoStrayWrite
<1>1. ASSUME IInv, [Next]_vars, vars' # vars, ~ResetTick, NEW a \in Addr, ram'[a] # ram[a]
      PROVE  exmem.op = "STORE" /\ a \in Span(exmem)
  <2>1. PICK in \in PipeInput : ClientsTick(in)
    BY <1>1 DEF Next, Clock, Reset, HostWrite, ClockAbort, ClockReadFirst,
                ClockReadNext, ClockReadLast, ClockWrite, ClockIdle
  <2>2. MemReq.en
    BY <1>1, <2>1 DEF ClientsTick, RamTick, RamWr
  <2>3. exmem.op = "STORE" /\ flag < Width(exmem.func3)
    BY <1>1, <2>1, <2>2, MemOpStable, MemOpPort
  <2>4. a = RamIdx(exmem.addr + flag)
    BY <1>1, <2>1, <2>2, <2>3, MemOpStable DEF IInv, TypeOK
  <2>5. flag \in 0 .. Width(exmem.func3) - 1
    BY <1>1, <2>3 DEF IInv, TypeOK, Width
  <2> QED
    BY <2>3, <2>4, <2>5 DEF Span
<1>2. IInv /\ [Next]_vars =>
        [ \/ ResetTick
          \/ \A a \in Addr : ram'[a] # ram[a] =>
                exmem.op = "STORE" /\ a \in Span(exmem) ]_vars
  BY <1>1
<1> QED
  BY <1>2, Invariance, PTL DEF Spec, NoStrayWrite

\* A reply lasts one cycle, so no load or store is served twice.
THEOREM RepliedOnce == Spec => ReplyOnce
<1>1. ASSUME IInv, [Next]_vars, vars' # vars, mem_enable
      PROVE  ~mem_enable'
  <2>1. CASE ResetTick
    BY <2>1 DEF ResetTick, Cleared
  <2>2. CASE ~ResetTick
    <3>1. PICK in \in PipeInput :
            \/ ClockAbort(in) \/ ClockReadFirst(in) \/ ClockReadNext(in)
            \/ ClockReadLast(in) \/ ClockWrite(in) \/ ClockIdle(in)
      BY <1>1, <2>2 DEF Next, Clock, Reset, HostWrite
    <3>2. flag = 0 /\ inst_busy
      BY <1>1 DEF IInv, PortOwned
    <3>3. ~MemReq.en /\ ~InstReq.en
      BY <1>1, <3>2 DEF MemReq, MemStallReq, InstReq
    <3>4. ~ClockReadFirst(in) /\ ~ClockReadNext(in) /\ ~ClockReadLast(in) /\ ~ClockWrite(in)
      BY <3>3 DEF ClockReadFirst, ReadFirst, ClockReadNext, ReadNext, ClockReadLast,
                  ReadLast, ClockWrite, WriteByte, Num
    <3> QED
      BY <3>1, <3>4 DEF ClockAbort, Abort, Cleared, ClockIdle, Idle
  <2> QED
    BY <2>1, <2>2
<1>2. IInv /\ [Next]_vars => [mem_enable => ~mem_enable']_vars
  BY <1>1
<1> QED
  BY <1>2, Invariance, PTL DEF Spec, ReplyOnce
=============================================================================

------------------------------ MODULE MemPort ------------------------------
(***************************************************************************)
(* The memory system of the CPU as cpu.v wires it: fetch stage and i-cache *)
(* on one side, MEM stage on the other, memory_control and the RAM between *)
(* them.  One step is one clock edge; all registers change together.       *)
(*                                                                         *)
(* The pipeline above is an arbitrary environment: in every cycle ID may   *)
(* ask for a stall, EX may resolve a jump to any address of JumpAddr, and  *)
(* hand any instruction of Instrs to MEM.  cpu.v is one such environment.  *)
(* A cycle with rst high (power-up, or rdy_in low because the debug block  *)
(* is active) resets the registers; meanwhile the host owns the RAM port   *)
(* and may write it (riscv_top.v).                                         *)
(***************************************************************************)
EXTENDS InstrFetch, MemStage

CONSTANTS CodeAddr,     \* word addresses of the program
          JumpAddr,     \* where EX may send the fetch
          Instrs,       \* what EX may pass to MEM
          InitRam,      \* contents of the RAM at power-up
          HostAddr,     \* bytes the host may write during a reset
          HostByte,     \* and the values it may write there
          InitWord      \* contents of the registers no reset clears

CodeBytes == {RamIdx(a + k) : a \in CodeAddr, k \in 0..3}

MemInstr == [op : MemOp, func3 : Func3, addr : Addr, data : Word]

ASSUME CodeAssumption == CodeAddr \subseteq Addr /\ JumpAddr \subseteq Addr
\* Stores never touch the program: the CPU has no FENCE.I, and nothing
\* invalidates the cache when the RAM is written.
ASSUME InstrsAssumption ==
    /\ Instrs \subseteq MemInstr
    /\ \A x \in Instrs : x.op = "STORE" => /\ x.func3 \in {"B", "H", "W"}
                                           /\ Span(x) \cap CodeBytes = {}
ASSUME HostAssumption ==
    /\ InitRam \in [Addr -> Byte]
    /\ HostAddr \subseteq Addr
    /\ HostByte \subseteq Byte
    /\ InitWord \in Word

vars == <<mcVars, ramVars, pcVars, cacheVars, exmem>>

-----------------------------------------------------------------------------
(* Power-up: rst is held high for at least one edge before the CPU runs.   *)
Init ==
    /\ flag = 0 /\ mem_busy = FALSE /\ inst_busy = FALSE
    /\ inst_enable = FALSE /\ mem_enable = FALSE
    /\ inst_data = InitWord /\ mem_rdata = InitWord /\ l_data = ZeroWord
    /\ ram = InitRam /\ q_addr = 0
    /\ pc_o = 0 /\ pc_tmp = 0 /\ pc_enable = FALSE
    /\ i_cache_valid = [l \in Line |-> FALSE]
    /\ i_cache_tag = [l \in Line |-> 0]
    /\ i_cache_data = [l \in Line |-> InitWord]
    /\ exmem = Bubble

-----------------------------------------------------------------------------
(* The inputs a cycle takes from the rest of the pipeline.                 *)
PipeInput == [idStall : BOOLEAN, exJump : BOOLEAN, target : JumpAddr,
              next : Instrs \union {Bubble}]

Depth(in) == StallDepth(in.idStall, IfStallReq)

\* cpu.v: a jump takes effect only when EX can leave its stage.
IfJump(in) == in.exJump /\ ~Stalled(3, Depth(in))

\* Everything but memory_control itself, at an edge with rst low.
ClientsTick(in) ==
    /\ PcTick(IfJump(in), in.target, Stalled(0, Depth(in)))
    /\ CacheTick
    /\ RamTick(InstReq, MemReq)
    /\ exmem' = IF Stalled(3, Depth(in)) THEN exmem ELSE in.next

ClockAbort(in) ==
    ClientsTick(in) /\ Abort(MemReq, IfJump(in))

ClockReadFirst(in) ==
    ~Aborts(MemReq, IfJump(in)) /\ ClientsTick(in) /\ ReadFirst(InstReq, MemReq)

ClockReadNext(in) ==
    ~Aborts(MemReq, IfJump(in)) /\ ClientsTick(in) /\ ReadNext(InstReq, MemReq)

ClockReadLast(in) ==
    ~Aborts(MemReq, IfJump(in)) /\ ClientsTick(in) /\ ReadLast(InstReq, MemReq)

ClockWrite(in) ==
    ~Aborts(MemReq, IfJump(in)) /\ ClientsTick(in) /\ WriteByte(InstReq, MemReq)

ClockIdle(in) ==
    ~Aborts(MemReq, IfJump(in)) /\ ClientsTick(in) /\ Idle(InstReq, MemReq)

Clock == \E in \in PipeInput :
    \/ ClockAbort(in)
    \/ ClockReadFirst(in)
    \/ ClockReadNext(in)
    \/ ClockReadLast(in)
    \/ ClockWrite(in)
    \/ ClockIdle(in)

\* An edge with rst high.  The RAM port belongs to the host (or is idle).
ResetTick ==
    /\ Cleared
    /\ CacheReset
    /\ PcReset
    /\ exmem' = Bubble
    /\ q_addr' \in HostAddr \union {RamIdx(flag)}

Reset == ResetTick /\ UNCHANGED ram

HostWrite ==
    /\ ResetTick
    /\ \E a \in HostAddr, b \in HostByte : ram' = [ram EXCEPT ![a] = b]

Next == Clock \/ Reset \/ HostWrite

Spec == Init /\ [][Next]_vars

(* The clock never stops, and a reset does not last for ever.  Nothing is  *)
(* asked of the pipeline's choices.                                        *)
FairSpec == Spec /\ WF_vars(Clock)

-----------------------------------------------------------------------------
TypeOK ==
    /\ flag \in 0..4
    /\ mem_busy \in BOOLEAN /\ inst_busy \in BOOLEAN
    /\ inst_enable \in BOOLEAN /\ mem_enable \in BOOLEAN
    /\ inst_data \in Word /\ mem_rdata \in Word /\ l_data \in Word
    /\ ram \in [Addr -> Byte] /\ q_addr \in Addr
    /\ pc_o \in Addr /\ pc_tmp \in Addr /\ pc_enable \in BOOLEAN
    /\ i_cache_valid \in [Line -> BOOLEAN]
    /\ i_cache_tag \in [Line -> Nat]
    /\ i_cache_data \in [Line -> Word]
    /\ exmem \in Instrs \union {Bubble}

\* What the fetch stage hands to IF/ID is the word the RAM holds at the
\* program counter, whether it came from the cache or from memory_control,
\* after any interleaving of jumps, stalls, loads, stores and resets
\* (if.v, icache.v).
FetchCorrect ==
    FetchDone /\ pc_o \in CodeAddr => FetchedInst = WordAt(pc_o)

\* A valid line holds the RAM's word for every code address it answers to:
\* a word fetched for one address is never filed under another
\* (icache.v writes inst_data under the current inst_addr_i).
CacheCoherent ==
    \A a \in CodeAddr :
        i_cache_valid[Index(a)] /\ i_cache_tag[Index(a)] = Tag(a)
            => i_cache_data[Index(a)] = WordAt(a)

\* memory_control answers the client that asked and nobody else: a load or
\* store reply finds that load or store still in MEM, a fetch reply finds the
\* program counter still asking, and the two never come together.
ReplyMeetsRequest ==
    /\ mem_enable => IsMemOp(exmem)
    /\ inst_enable => pc_enable
    /\ ~(mem_enable /\ inst_enable)

\* The value a load returns is what the RAM holds in its bytes, in order,
\* zero in the lanes beyond its width (memory_control.v mem_rdata).
LoadCorrect ==
    mem_enable /\ exmem.op = "LOAD" =>
        mem_rdata = [k \in 0..3 |-> IF k < Width(exmem.func3)
                                    THEN ram[RamIdx(exmem.addr + k)] ELSE Zero]

\* When a store is reported done every byte of it is in the RAM.
StoreComplete ==
    mem_enable /\ exmem.op = "STORE" =>
        \A k \in 0 .. Width(exmem.func3) - 1 :
            ram[RamIdx(exmem.addr + k)] = exmem.data[k]

\* Replies go to the instruction that asked and to no other, with the bytes
\* of the RAM for a load and after the last byte of a store is written
\* (memory_control.v mem_enable, inst_enable, mem_rdata).
RepliesCorrect == ReplyMeetsRequest /\ LoadCorrect /\ StoreComplete

\* While rst is low only the store in MEM changes the RAM, and only bytes it
\* names: fetches, loads and the read-ahead of a read's last cycle never write.
NoStrayWrite ==
    [][ \/ ResetTick
        \/ \A a \in Addr : ram'[a] # ram[a] =>
               exmem.op = "STORE" /\ a \in Span(exmem) ]_vars

\* A transfer in progress keeps its client: the address served and its length
\* stay the same until the counter returns to zero.
OwnerStable ==
    [][ flag # 0 /\ flag' # 0 =>
          /\ ServedAddr(InstReq, MemReq)' = ServedAddr(InstReq, MemReq)
          /\ Num(InstReq, MemReq)' = Num(InstReq, MemReq) ]_vars

\* A load or store that moved a byte is never dropped half-way: it stays in
\* MEM, and each edge moves its next byte or reports it done.  Only a reset
\* cuts it short.
NotAbandoned ==
    [][ MemStallReq /\ flag # 0 /\ ~mem_busy =>
          \/ ResetTick
          \/ /\ exmem' = exmem
             /\ flag' = flag + 1 \/ (flag' = 0 /\ mem_enable') ]_vars

\* A reply is given once: the load or store leaves MEM at the edge after it,
\* so a store is never issued twice to memory or to a device behind it.
ReplyOnce == [][ mem_enable => ~mem_enable' ]_vars

\* Every load or store that reaches MEM is served, however the fetch side
\* competes for the port, unless a reset clears it.
MemOpCompletes == MemStallReq ~> (mem_enable \/ exmem = Bubble)

-----------------------------------------------------------------------------
(* Why the safety properties hold: the busy bits say who owns the port,    *)
(* the owner keeps asking with the same address until it is answered, and  *)
(* the byte counter says how much of the answer is already in place.       *)

\* The port is either idle, or held by one client that is being served or
\* has just been answered.
PortOwned ==
    /\ ~(mem_busy /\ inst_busy)
    /\ inst_enable => flag = 0 /\ mem_busy
    /\ mem_enable => flag = 0 /\ inst_busy
    /\ mem_busy => flag # 0 \/ inst_enable
    /\ inst_busy => flag # 0 \/ mem_enable
    /\ flag # 0 => mem_busy \/ inst_busy

\* A fetch in progress is still asked for.
FetchHeld == flag # 0 /\ mem_busy => InstReq.en

\* So is a load or store, and the counter stays within its width.
MemOpHeld ==
    flag # 0 /\ inst_busy =>
        /\ IsMemOp(exmem)
        /\ flag <= Width(exmem.func3)
        /\ exmem.op = "STORE" => flag < Width(exmem.func3)

\* After flag cycles of a read the RAM has the address of its last byte and
\* l_data the bytes before it; of a store, the first flag bytes are written.
ReadProgress(a) ==
    /\ q_addr = RamIdx(a + flag - 1)
    /\ \A k \in 0..3 : k < flag - 1 => l_data[k] = ram[RamIdx(a + k)]

TransferProgress ==
    /\ flag # 0 /\ mem_busy => ReadProgress(pc_o)
    /\ flag # 0 /\ inst_busy /\ exmem.op = "LOAD" => ReadProgress(exmem.addr)
    /\ flag # 0 /\ inst_busy /\ exmem.op = "STORE" =>
           \A k \in 0..3 : k < flag => ram[RamIdx(exmem.addr + k)] = exmem.data[k]

\* A fetched word is that of the program counter, in the program or not.
FetchReply == inst_enable => pc_enable /\ inst_data = WordAt(pc_o)

IInv ==
    /\ TypeOK
    /\ PortOwned
    /\ FetchHeld
    /\ MemOpHeld
    /\ TransferProgress
    /\ FetchReply
    /\ CacheCoherent
    /\ ReplyMeetsRequest
    /\ LoadCorrect
    /\ StoreComplete
=============================================================================

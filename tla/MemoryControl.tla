--------------------------- MODULE MemoryControl ---------------------------
(***************************************************************************)
(* memory_control.v and the single-port synchronous RAM behind it          *)
(* (ram.v, block_ram.v).  The RAM moves one byte per clock; the controller *)
(* serves instruction fetches and loads/stores through that one port and   *)
(* assembles words byte by byte.  Both share the byte counter flag, and a  *)
(* pair of busy bits keeps one client away while the other is served.      *)
(*                                                                         *)
(* Every action below is one branch of the module's clocked block.  Its    *)
(* arguments are the controller's input wires in that cycle: i is the      *)
(* fetch request [en, addr], m the load/store request                      *)
(* [en, wr, addr, width, data].  Register names are those of the source.   *)
(*                                                                         *)
(* Abstractions: a word is the function from byte lane to byte, so the     *)
(* source's concatenations are tuple formation; an address is the 17 bits  *)
(* that reach the RAM (MemSize bytes), wrapping like them.                 *)
(***************************************************************************)
EXTENDS Integers

CONSTANTS Byte,      \* the values of a memory byte
          Zero,      \* 8'h00
          MemSize    \* bytes of RAM, 2^17 in the source

ASSUME ByteAssumption == Zero \in Byte
\* Eight bytes are enough for address + flag to wrap at most once.
ASSUME MemSizeAssumption == MemSize \in Nat /\ MemSize >= 8

VARIABLES
    flag,           \* byte counter of the transfer being served
    mem_busy,       \* tells the MEM stage to wait
    inst_busy,      \* tells the i-cache to wait
    inst_enable,    \* inst_data holds the fetched word
    inst_data,
    mem_enable,     \* the load/store of the MEM stage is done
    mem_rdata,
    l_data,         \* bytes read so far
    ram,            \* contents of the block RAM
    q_addr          \* the address the block RAM registered at the last edge

mcVars == <<flag, mem_busy, inst_busy, inst_enable, inst_data, mem_enable,
            mem_rdata, l_data>>
ramVars == <<ram, q_addr>>

Addr == 0 .. MemSize - 1
Word == [0..3 -> Byte]
ZeroWord == [k \in 0..3 |-> Zero]

\* The RAM sees the low 17 bits of a sum that exceeds the last address.
RamIdx(a) == IF a < MemSize THEN a ELSE a - MemSize

\* The word stored at a, as a client of the memory should see it.
WordAt(a) == [k \in 0..3 |-> ram[RamIdx(a + k)]]

-----------------------------------------------------------------------------
(* Combinational wires.                                                    *)

Num(i, m) == IF m.en THEN m.width ELSE IF i.en THEN 4 ELSE 0

ServedAddr(i, m) == IF m.en THEN m.addr ELSE i.addr

\* Mutant: every load/store request drives the write enable.
MutRamWr(i, m) == m.en /\ flag # Num(i, m)

RamWr(i, m) == m.en /\ flag # Num(i, m) /\ m.wr

RamAddr(i, m) == RamIdx(ServedAddr(i, m) + flag)

RamOut(m) == IF flag = 4 THEN Zero ELSE m.data[flag]

RamIn == ram[q_addr]

\* Mutant: the lanes above the width show what an earlier read left there.
MutAssemble(n) == [k \in 0..3 |-> IF k = n - 1 THEN RamIn ELSE l_data[k]]

\* {ram_in, l_data[n-2], .., l_data[0]}, zero-extended to a word.
Assemble(n) == [k \in 0..3 |-> IF k < n - 1 THEN l_data[k]
                               ELSE IF k = n - 1 THEN RamIn ELSE Zero]

-----------------------------------------------------------------------------
(* The block RAM at a clock edge: write, and register the address.         *)
RamTick(i, m) ==
    /\ ram' = IF RamWr(i, m) THEN [ram EXCEPT ![RamAddr(i, m)] = RamOut(m)]
                             ELSE ram
    /\ q_addr' = RamAddr(i, m)

\* Mutant: clearing forgets that the i-cache had kept the MEM stage waiting.
MutCleared ==
    /\ flag' = 0
    /\ inst_busy' = FALSE
    /\ inst_enable' = FALSE
    /\ mem_enable' = FALSE
    /\ l_data' = ZeroWord
    /\ UNCHANGED <<inst_data, mem_rdata, mem_busy>>

(* The branches of the clocked block.                                      *)
Cleared ==
    /\ flag' = 0
    /\ mem_busy' = FALSE
    /\ inst_busy' = FALSE
    /\ inst_enable' = FALSE
    /\ mem_enable' = FALSE
    /\ l_data' = ZeroWord
    /\ UNCHANGED <<inst_data, mem_rdata>>

\* Mutant: a taken jump lets the fetch under way go on.
MutAborts(m, jump) == FALSE

\* A taken jump drops the fetch of the wrong path.
Aborts(m, jump) == jump /\ ~m.en

Abort(m, jump) == Aborts(m, jump) /\ Cleared

ReadFirst(i, m) ==
    /\ Num(i, m) # 0 /\ ~RamWr(i, m)
    /\ flag = 0
    /\ flag' = 1
    /\ mem_enable' = FALSE
    /\ inst_enable' = FALSE
    /\ mem_busy' = ~m.en
    /\ inst_busy' = m.en
    /\ UNCHANGED <<inst_data, mem_rdata, l_data>>

\* Mutant: one byte too many.
MutReadNext(i, m) ==
    /\ Num(i, m) # 0 /\ ~RamWr(i, m)
    /\ 0 < flag /\ flag <= Num(i, m)
    /\ flag' = flag + 1
    /\ l_data' = [l_data EXCEPT ![flag - 1] = RamIn]
    /\ UNCHANGED <<mem_busy, inst_busy, inst_enable, inst_data, mem_enable, mem_rdata>>

ReadNext(i, m) ==
    /\ Num(i, m) # 0 /\ ~RamWr(i, m)
    /\ 0 < flag /\ flag < Num(i, m)
    /\ flag' = flag + 1
    /\ l_data' = [l_data EXCEPT ![flag - 1] = RamIn]
    /\ UNCHANGED <<mem_busy, inst_busy, inst_enable, inst_data, mem_enable, mem_rdata>>

ReadLast(i, m) ==
    /\ Num(i, m) # 0 /\ ~RamWr(i, m)
    /\ flag # 0 /\ flag >= Num(i, m)
    /\ flag' = 0
    /\ \/ /\ m.en
          /\ mem_enable' = TRUE
          /\ mem_rdata' = Assemble(m.width)
          /\ UNCHANGED <<inst_enable, inst_data>>
       \/ /\ ~m.en
          /\ inst_enable' = TRUE
          /\ inst_data' = Assemble(4)
          /\ UNCHANGED <<mem_enable, mem_rdata>>
    /\ UNCHANGED <<mem_busy, inst_busy, l_data>>

\* Mutant: a store is reported done one byte early.
MutWriteByte(i, m) ==
    /\ Num(i, m) # 0 /\ RamWr(i, m)
    /\ inst_busy' = (inst_busy \/ flag = 0)
    /\ mem_busy' = (mem_busy /\ flag # 0)
    /\ inst_enable' = (inst_enable /\ flag # 0)
    /\ mem_enable' = (flag + 2 >= Num(i, m) \/ (mem_enable /\ flag # 0))
    /\ flag' = IF flag + 2 >= Num(i, m) THEN 0 ELSE flag + 1
    /\ UNCHANGED <<inst_data, mem_rdata, l_data>>

WriteByte(i, m) ==
    /\ Num(i, m) # 0 /\ RamWr(i, m)
    /\ inst_busy' = (inst_busy \/ flag = 0)
    /\ mem_busy' = (mem_busy /\ flag # 0)
    /\ inst_enable' = (inst_enable /\ flag # 0)
    /\ mem_enable' = (flag + 1 = Num(i, m) \/ (mem_enable /\ flag # 0))
    /\ flag' = IF flag + 1 = Num(i, m) THEN 0 ELSE flag + 1
    /\ UNCHANGED <<inst_data, mem_rdata, l_data>>

\* Mutants: an idle cycle keeps the reply up, or keeps the MEM stage waiting.
MutIdleReply(i, m) ==
    /\ Num(i, m) = 0
    /\ mem_busy' = FALSE
    /\ inst_busy' = FALSE
    /\ inst_enable' = FALSE
    /\ UNCHANGED <<flag, inst_data, mem_rdata, l_data, mem_enable>>

MutIdleBusy(i, m) ==
    /\ Num(i, m) = 0
    /\ inst_busy' = FALSE
    /\ inst_enable' = FALSE
    /\ mem_enable' = FALSE
    /\ UNCHANGED <<flag, inst_data, mem_rdata, l_data, mem_busy>>

Idle(i, m) ==
    /\ Num(i, m) = 0
    /\ mem_busy' = FALSE
    /\ inst_busy' = FALSE
    /\ inst_enable' = FALSE
    /\ mem_enable' = FALSE
    /\ UNCHANGED <<flag, inst_data, mem_rdata, l_data>>
=============================================================================

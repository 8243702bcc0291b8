----------------------------- MODULE InstrFetch -----------------------------
(***************************************************************************)
(* The instruction side: the program counter (pc_reg.v), the fetch stage   *)
(* (if.v) and the direct-mapped instruction cache (icache.v).              *)
(*                                                                         *)
(* A hit is answered in the same cycle; a miss asks memory_control and the *)
(* word that comes back is forwarded and stored under the address the      *)
(* program counter shows at that time -- the cache keeps no copy of the    *)
(* address it asked for.                                                   *)
(***************************************************************************)
EXTENDS MemoryControl

CONSTANT IcacheNum    \* lines of the cache, 128 in the source

ASSUME IcacheAssumption == IcacheNum \in Nat \ {0}

VARIABLES
    pc_o, pc_tmp,     \* the address being fetched and the one after it
    pc_enable,        \* FALSE only in the first cycle after a reset
    i_cache_valid, i_cache_tag, i_cache_data

pcVars == <<pc_o, pc_tmp, pc_enable>>
cacheVars == <<i_cache_valid, i_cache_tag, i_cache_data>>

Line == 0 .. IcacheNum - 1

\* addr[IcacheBus] and addr[TagBytes]: the index is the low part of the
\* byte address, the two offset bits included.
Index(a) == a % IcacheNum
Tag(a) == a \div IcacheNum

-----------------------------------------------------------------------------
(* Combinational wires, while rst is low.                                  *)

InstAddr == IF pc_enable THEN pc_o ELSE 0

\* Mutant: the valid bit alone decides.
MutHit == i_cache_valid[Index(InstAddr)]

Hit == /\ i_cache_valid[Index(InstAddr)]
       /\ i_cache_tag[Index(InstAddr)] = Tag(InstAddr)

\* The cache answers the fetch stage: a hit, or the word just fetched.
FetchDone == pc_enable /\ (Hit \/ inst_enable)

FetchedInst == IF Hit THEN i_cache_data[Index(InstAddr)] ELSE inst_data

\* The cache's request to memory_control.
InstReq == [en |-> pc_enable /\ ~Hit /\ ~inst_enable /\ ~inst_busy,
            addr |-> InstAddr]

\* if.v asks for a stall while the word is missing.
IfStallReq == pc_enable /\ ~FetchDone

-----------------------------------------------------------------------------
(* Clocked blocks.                                                         *)

CacheTick ==
    IF inst_enable
    THEN /\ i_cache_valid' = [i_cache_valid EXCEPT ![Index(InstAddr)] = TRUE]
         /\ i_cache_tag' = [i_cache_tag EXCEPT ![Index(InstAddr)] = Tag(InstAddr)]
         /\ i_cache_data' = [i_cache_data EXCEPT ![Index(InstAddr)] = inst_data]
    ELSE UNCHANGED cacheVars

CacheReset ==
    /\ i_cache_valid' = [l \in Line |-> FALSE]
    /\ UNCHANGED <<i_cache_tag, i_cache_data>>

PcTick(ifjump, target, stalled) ==
    /\ pc_enable' = TRUE
    /\ \/ /\ ifjump
          /\ pc_tmp' = RamIdx(target + 4)
          /\ pc_o' = target
       \/ /\ ~ifjump /\ ~stalled
          /\ pc_tmp' = RamIdx(pc_tmp + 4)
          /\ pc_o' = pc_tmp
       \/ /\ ~ifjump /\ stalled
          /\ UNCHANGED <<pc_tmp, pc_o>>

PcReset ==
    /\ pc_tmp' = 0
    /\ pc_enable' = FALSE
    /\ UNCHANGED pc_o
=============================================================================

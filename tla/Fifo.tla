-------------------------------- MODULE Fifo --------------------------------
(***************************************************************************)
(* The circular buffer of common/fifo/fifo.v, used three times: for bytes  *)
(* received by the UART (8 entries), bytes to send (1024) and input bytes  *)
(* for the CPU (1024).  One step is one clock edge; both ports may be used *)
(* in the same cycle.                                                      *)
(***************************************************************************)
EXTENDS Integers

CONSTANTS Data,       \* what an entry holds
          Depth       \* 2**ADDR_BITS entries

\* Every instance has ADDR_BITS >= 3.  With two entries the empty and the
\* full condition of the source would hold together.
ASSUME DepthAssumption == Depth \in Nat /\ Depth >= 3

VARIABLES q_rd_ptr, q_wr_ptr, q_empty, q_full, q_data_array

fifoVars == <<q_rd_ptr, q_wr_ptr, q_empty, q_full, q_data_array>>

Ptr == 0 .. Depth - 1

\* Mutant: the pointer is one bit too wide.
MutPlus1(p) == (p + 1) % (2 * Depth)

\* Pointer arithmetic is ADDR_BITS wide.
Plus1(p) == (p + 1) % Depth
Minus(p, q) == (p - q) % Depth

-----------------------------------------------------------------------------
(* Combinational wires.                                                    *)

ReadProt(rd_en) == rd_en /\ ~q_empty

WriteProt(wr_en) == wr_en /\ ~q_full

\* Mutant: the write goes to the entry after the one the pointer names.
MutNextArray(wr, data) ==
    IF wr THEN [q_data_array EXCEPT ![Plus1(q_wr_ptr)] = data] ELSE q_data_array

\* The write index moves, and the entry it names is written, on an accepted
\* write only; the read index moves on an accepted read.
NextArray(wr, data) ==
    IF wr THEN [q_data_array EXCEPT ![q_wr_ptr] = data] ELSE q_data_array

NextPtr(p, moves) == IF moves THEN Plus1(p) ELSE p

NextEmpty(rd, wr) ==
    (q_empty /\ ~wr) \/ (Minus(q_wr_ptr, q_rd_ptr) = 1 /\ rd)

\* Mutant: full is raised one write late.
MutNextFull(rd, wr) ==
    (q_full /\ ~rd) \/ (Minus(q_rd_ptr, q_wr_ptr) = 0 /\ wr)

NextFull(rd, wr) ==
    (q_full /\ ~rd) \/ (Minus(q_rd_ptr, q_wr_ptr) = 1 /\ wr)

-----------------------------------------------------------------------------
(* Clocked block.                                                          *)

\* Registers before and at the first reset; the array is never cleared.
Init ==
    /\ q_rd_ptr = 0 /\ q_wr_ptr = 0
    /\ q_empty = TRUE /\ q_full = FALSE
    /\ q_data_array \in [Ptr -> Data]

Reset ==
    /\ q_rd_ptr' = 0 /\ q_wr_ptr' = 0
    /\ q_empty' = TRUE /\ q_full' = FALSE
    /\ UNCHANGED q_data_array

Clock(rd_en, wr_en, wr_data) ==
    LET rd == ReadProt(rd_en)
        wr == WriteProt(wr_en)
    IN  /\ q_rd_ptr' = NextPtr(q_rd_ptr, rd)
        /\ q_wr_ptr' = NextPtr(q_wr_ptr, wr)
        /\ q_empty' = NextEmpty(rd, wr)
        /\ q_full' = NextFull(rd, wr)
        /\ q_data_array' = NextArray(wr, wr_data)

Next ==
    \/ Reset
    \/ \E rd_en, wr_en \in BOOLEAN, wr_data \in Data : Clock(rd_en, wr_en, wr_data)

Spec == Init /\ [][Next]_fifoVars

-----------------------------------------------------------------------------
\* The entries written and not yet read: the distance of the two pointers,
\* and when they meet the full flag tells all from none.
Count == IF q_wr_ptr = q_rd_ptr
         THEN IF q_full THEN Depth ELSE 0
         ELSE Minus(q_wr_ptr, q_rd_ptr)

Contents == [i \in 1 .. Count |-> q_data_array[(q_rd_ptr + (i - 1)) % Depth]]

Queue == INSTANCE BoundedQueue WITH buf <- Contents, Capacity <- Depth

TypeOK ==
    /\ q_rd_ptr \in Ptr /\ q_wr_ptr \in Ptr
    /\ q_empty \in BOOLEAN /\ q_full \in BOOLEAN
    /\ q_data_array \in [Ptr -> Data]

\* The flags protect the data: with nothing to read empty is up, with no room
\* full is up, and they are never both up, so one port always works.  They
\* may lag by one entry on the safe side and never by more: with two entries
\* a read is accepted, with two places free a write is.
FlagsSafe ==
    /\ Count = 0 => q_empty
    /\ Count = Depth => q_full
    /\ q_empty => Count <= 1
    /\ q_full => Count >= Depth - 1
    /\ ~(q_empty /\ q_full)

\* The buffer is a queue: accepted writes come out once and in order, across
\* the wrap of either pointer and simultaneous use of both ports (fifo.v).
IsQueue == Queue!Spec
=============================================================================

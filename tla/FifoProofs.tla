----------------------------- MODULE FifoProofs -----------------------------
(***************************************************************************)
(* fifo.v for every depth and every kind of entry: its flags protect the   *)
(* entries, and it implements BoundedQueue.                                *)
(***************************************************************************)
EXTENDS Fifo, SequenceTheorems, TLAPS

IInv == TypeOK /\ FlagsSafe

-----------------------------------------------------------------------------
(* Pointer arithmetic without division.                                    *)

\* The pointers' value after a reset.
LEMMA ZeroPtr == 0 \in Ptr
  BY DepthAssumption DEF Ptr

\* An index that has passed the end of the array once wraps to its start.
LEMMA WrapOnce ==
    ASSUME NEW a \in Int, 0 <= a, a < 2 * Depth
    PROVE  /\ a % Depth = IF a < Depth THEN a ELSE a - Depth
           /\ a % Depth \in Ptr
  <1>1. a % Depth = IF a < Depth THEN a ELSE a - Depth
    BY DepthAssumption
  <1> QED
    BY <1>1, DepthAssumption DEF Ptr

\* The position of the i-th entry when the first is at r.
LEMMA SlotDef ==
    ASSUME NEW r \in Ptr, NEW i \in 1 .. Depth
    PROVE  /\ (r + (i - 1)) % Depth = IF r + (i - 1) < Depth THEN r + (i - 1)
                                      ELSE r + (i - 1) - Depth
           /\ (r + (i - 1)) % Depth \in Ptr
  <1>1. r + (i - 1) \in Int /\ 0 <= r + (i - 1) /\ r + (i - 1) < 2 * Depth
    BY DepthAssumption DEF Ptr
  <1>2. PICK a \in Int : a = r + (i - 1)
    BY <1>1
  <1>3. /\ a % Depth = IF a < Depth THEN a ELSE a - Depth
        /\ a % Depth \in Ptr
    BY <1>1, <1>2, WrapOnce
  <1>4. r \in Int /\ i \in Int /\ Depth \in Int
    BY DepthAssumption DEF Ptr
  <1> QED
    BY <1>2, <1>3, <1>4

\* The next pointer value.
LEMMA Plus1Def ==
    ASSUME NEW p \in Ptr
    PROVE  Plus1(p) = IF p = Depth - 1 THEN 0 ELSE p + 1
  BY DepthAssumption DEF Ptr, Plus1

\* The distance between two pointers.
LEMMA MinusDef ==
    ASSUME NEW p \in Ptr, NEW q \in Ptr
    PROVE  /\ Minus(p, q) = IF p >= q THEN p - q ELSE p - q + Depth
           /\ Minus(p, q) \in Ptr
  <1>1. Minus(p, q) = IF p >= q THEN p - q ELSE p - q + Depth
    BY DepthAssumption DEF Ptr, Minus
  <1> QED
    BY <1>1, DepthAssumption DEF Ptr

-----------------------------------------------------------------------------
\* How an edge changes the number of entries, that no read is accepted from
\* an empty buffer and no write into a full one, and that the flags stay safe.
LEMMA CountStep ==
    ASSUME IInv, NEW rd_en \in BOOLEAN, NEW wr_en \in BOOLEAN, NEW d \in Data,
           Clock(rd_en, wr_en, d)
    PROVE  /\ ReadProt(rd_en) => Count > 0
           /\ WriteProt(wr_en) => Count < Depth
           /\ Count' = Count + (IF WriteProt(wr_en) THEN 1 ELSE 0)
                             - (IF ReadProt(rd_en) THEN 1 ELSE 0)
           /\ IInv'
  <1> DEFINE rd == ReadProt(rd_en)
             wr == WriteProt(wr_en)
  <1>1. /\ q_rd_ptr' = IF ~rd THEN q_rd_ptr
                       ELSE IF q_rd_ptr = Depth - 1 THEN 0 ELSE q_rd_ptr + 1
        /\ q_wr_ptr' = IF ~wr THEN q_wr_ptr
                       ELSE IF q_wr_ptr = Depth - 1 THEN 0 ELSE q_wr_ptr + 1
    BY Plus1Def DEF Clock, NextPtr, IInv, TypeOK
  <1>2. /\ q_rd_ptr' \in Ptr /\ q_wr_ptr' \in Ptr
    BY <1>1, DepthAssumption DEF IInv, TypeOK, Ptr
  <1>3. /\ q_empty' = ((q_empty /\ ~wr) \/ (Minus(q_wr_ptr, q_rd_ptr) = 1 /\ rd))
        /\ q_full' = ((q_full /\ ~rd) \/ (Minus(q_rd_ptr, q_wr_ptr) = 1 /\ wr))
    BY DEF Clock, NextEmpty, NextFull
  <1>4. rd \in BOOLEAN /\ wr \in BOOLEAN /\ (rd => ~q_empty) /\ (wr => ~q_full)
    BY DEF ReadProt, WriteProt, IInv, TypeOK
  <1>5. /\ Minus(q_wr_ptr, q_rd_ptr) = IF q_wr_ptr >= q_rd_ptr
             THEN q_wr_ptr - q_rd_ptr ELSE q_wr_ptr - q_rd_ptr + Depth
        /\ Minus(q_rd_ptr, q_wr_ptr) = IF q_rd_ptr >= q_wr_ptr
             THEN q_rd_ptr - q_wr_ptr ELSE q_rd_ptr - q_wr_ptr + Depth
        /\ Minus(q_wr_ptr, q_rd_ptr)' = IF q_wr_ptr' >= q_rd_ptr'
             THEN q_wr_ptr' - q_rd_ptr' ELSE q_wr_ptr' - q_rd_ptr' + Depth
    BY <1>2, MinusDef DEF IInv, TypeOK
  <1>6. q_data_array' \in [Ptr -> Data]
    BY DEF Clock, NextArray, IInv, TypeOK
  <1>7. /\ q_rd_ptr \in Ptr /\ q_wr_ptr \in Ptr
        /\ q_empty \in BOOLEAN /\ q_full \in BOOLEAN /\ FlagsSafe
    BY DEF IInv, TypeOK
  <1> HIDE DEF rd, wr
  <1>8. (rd => Count > 0) /\ (wr => Count < Depth)
    BY <1>4, <1>5, <1>7, DepthAssumption DEF FlagsSafe, Count, Ptr
  <1>9. Count' = Count + (IF wr THEN 1 ELSE 0) - (IF rd THEN 1 ELSE 0)
    BY <1>1, <1>2, <1>3, <1>4, <1>5, <1>7, DepthAssumption
    DEF FlagsSafe, Count, Ptr
  <1>10. FlagsSafe'
    BY <1>1, <1>2, <1>3, <1>4, <1>5, <1>7, <1>9, DepthAssumption
    DEF FlagsSafe, Count, Ptr
  <1>11. TypeOK'
    BY <1>2, <1>3, <1>4, <1>6, <1>7 DEF TypeOK
  <1> QED
    BY <1>8, <1>9, <1>10, <1>11 DEF rd, wr, IInv

\* A reset empties the buffer.
LEMMA ResetStep ==
    ASSUME IInv, Reset
    PROVE  IInv' /\ Count' = 0
  <1>1. Count' = 0
    BY DEF Reset, Count
  <1>2. TypeOK'
    BY ZeroPtr DEF IInv, TypeOK, Reset
  <1> QED
    BY <1>1, <1>2, DepthAssumption DEF IInv, FlagsSafe, Reset

\* The flags protect the entries, whatever the two users of the buffer do.
THEOREM Invariance == Spec => []IInv
  <1>1. Init => IInv
    <2> SUFFICES ASSUME Init PROVE IInv
      OBVIOUS
    <2>1. Count = 0
      BY DEF Init, Count
    <2>2. TypeOK
      BY ZeroPtr DEF Init, TypeOK
    <2> QED
      BY <2>1, <2>2, DepthAssumption DEF IInv, FlagsSafe, Init
  <1>2. IInv /\ [Next]_fifoVars => IInv'
    <2> SUFFICES ASSUME IInv, [Next]_fifoVars PROVE IInv'
      OBVIOUS
    <2>1. CASE Reset
      BY <2>1, ResetStep
    <2>2. ASSUME NEW rd_en \in BOOLEAN, NEW wr_en \in BOOLEAN, NEW d \in Data,
                 Clock(rd_en, wr_en, d)
          PROVE  IInv'
      BY <2>2, CountStep
    <2>3. CASE UNCHANGED fifoVars
      BY <2>3 DEF fifoVars, IInv, TypeOK, FlagsSafe, Count, Minus
    <2> QED
      BY <2>1, <2>2, <2>3 DEF Next
  <1> QED
    BY <1>1, <1>2, PTL DEF Spec

\* The registers keep their widths.
THEOREM TypeCorrect == Spec => []TypeOK
  BY Invariance, PTL DEF IInv

\* Nothing is read that was not written, nothing is overwritten before it is
\* read, and the flags lag by one entry at most (fifo.v).
THEOREM FlagsAreSafe == Spec => []FlagsSafe
  BY Invariance, PTL DEF IInv

-----------------------------------------------------------------------------
(* Refinement.                                                             *)

\* The contents are a sequence as long as the count.
LEMMA ContentsType ==
    ASSUME IInv
    PROVE  /\ (Count \in 0 .. Depth)
           /\ (Contents \in Seq(Data))
           /\ (Len(Contents) = Count)
  <1>1. q_rd_ptr \in Ptr /\ q_wr_ptr \in Ptr /\ q_data_array \in [Ptr -> Data]
    BY DEF IInv, TypeOK
  <1>2. /\ Minus(q_wr_ptr, q_rd_ptr) \in Ptr
        /\ Count = IF q_wr_ptr = q_rd_ptr THEN IF q_full THEN Depth ELSE 0
                    ELSE Minus(q_wr_ptr, q_rd_ptr)
    BY <1>1, MinusDef DEF Count
  <1>3. (Count \in 0 .. Depth)
    BY <1>2, DepthAssumption DEF Ptr
  <1>4. \A i \in 1 .. Count : (q_rd_ptr + (i - 1)) % Depth \in Ptr
    <2> TAKE i \in 1 .. Count
    <2>1. i \in 1 .. Depth
      BY <1>3, DepthAssumption
    <2> QED
      BY <1>1, <2>1, SlotDef, Zenon
  <1>5. Contents \in [1 .. Count -> Data]
    BY <1>1, <1>4 DEF Contents
  <1>6. Contents \in Seq(Data)
    BY <1>3, <1>5, SeqDef
  <1> QED
    BY <1>3, <1>5, <1>6, LenProperties

\* The position of an entry in the array.
LEMMA EntryAt ==
    ASSUME IInv, NEW i \in 1 .. Count
    PROVE  Contents[i] = q_data_array[IF q_rd_ptr + (i - 1) < Depth
                                          THEN q_rd_ptr + (i - 1)
                                          ELSE q_rd_ptr + (i - 1) - Depth]
  <1>1. q_rd_ptr \in Ptr /\ i \in 1 .. Depth
    BY ContentsType, DepthAssumption DEF IInv, TypeOK
  <1>2. Contents[i] = q_data_array[(q_rd_ptr + (i - 1)) % Depth]
    BY Zenon DEF Contents
  <1>3. (q_rd_ptr + (i - 1)) % Depth = IF q_rd_ptr + (i - 1) < Depth
                                        THEN q_rd_ptr + (i - 1)
                                        ELSE q_rd_ptr + (i - 1) - Depth
    BY <1>1, SlotDef
  <1> QED
    BY <1>2, <1>3, Zenon

\* The same facts of the state after a step.
LEMMA ContentsTypeNext ==
    ASSUME IInv'
    PROVE  /\ (Count \in 0 .. Depth)'
           /\ (Contents \in Seq(Data))'
           /\ (Len(Contents) = Count)'
  <1>1. q_rd_ptr' \in Ptr /\ q_wr_ptr' \in Ptr /\ q_data_array' \in [Ptr -> Data]
    BY DEF IInv, TypeOK
  <1>2. /\ Minus(q_wr_ptr', q_rd_ptr') \in Ptr
        /\ Count' = IF q_wr_ptr' = q_rd_ptr' THEN IF q_full' THEN Depth ELSE 0
                    ELSE Minus(q_wr_ptr', q_rd_ptr')
    BY <1>1, MinusDef DEF Count
  <1>3. (Count \in 0 .. Depth)'
    BY <1>2, DepthAssumption DEF Ptr
  <1>4. \A i \in 1 .. Count' : (q_rd_ptr' + (i - 1)) % Depth \in Ptr
    <2> TAKE i \in 1 .. Count'
    <2>1. i \in 1 .. Depth
      BY <1>3, DepthAssumption
    <2> QED
      BY <1>1, <2>1, SlotDef, Zenon
  <1>5. Contents' \in [1 .. Count' -> Data]
    BY <1>1, <1>4 DEF Contents
  <1>6. Contents' \in Seq(Data)
    BY <1>3, <1>5, SeqDef
  <1> QED
    BY <1>3, <1>5, <1>6, LenProperties

LEMMA EntryAtNext ==
    ASSUME IInv', NEW i \in 1 .. Count'
    PROVE  Contents'[i] = (q_data_array')[IF q_rd_ptr' + (i - 1) < Depth
                                          THEN q_rd_ptr' + (i - 1)
                                          ELSE q_rd_ptr' + (i - 1) - Depth]
  <1>1. q_rd_ptr' \in Ptr /\ i \in 1 .. Depth
    BY ContentsTypeNext, DepthAssumption DEF IInv, TypeOK
  <1>2. Contents'[i] = (q_data_array')[(q_rd_ptr' + (i - 1)) % Depth]
    BY Zenon DEF Contents
  <1>3. (q_rd_ptr' + (i - 1)) % Depth = IF q_rd_ptr' + (i - 1) < Depth
                                        THEN q_rd_ptr' + (i - 1)
                                        ELSE q_rd_ptr' + (i - 1) - Depth
    BY <1>1, SlotDef
  <1> QED
    BY <1>2, <1>3, Zenon

\* What an edge does to the entries: those not read move up, and the one
\* written comes last.
LEMMA EntriesStep ==
    ASSUME IInv, NEW rd_en \in BOOLEAN, NEW wr_en \in BOOLEAN, NEW d \in Data,
           Clock(rd_en, wr_en, d)
    PROVE  \A i \in 1 .. Count' :
               Contents'[i] = IF i <= Count - (IF ReadProt(rd_en) THEN 1 ELSE 0)
                              THEN Contents[IF ReadProt(rd_en) THEN i + 1 ELSE i]
                              ELSE d
  <1> DEFINE rd == ReadProt(rd_en)
             wr == WriteProt(wr_en)
             n == Count - (IF rd THEN 1 ELSE 0)
             pos(r, i) == IF r + (i - 1) < Depth THEN r + (i - 1)
                          ELSE r + (i - 1) - Depth
  <1>1. /\ rd => Count > 0
        /\ wr => Count < Depth
        /\ Count' = Count + (IF wr THEN 1 ELSE 0) - (IF rd THEN 1 ELSE 0)
        /\ IInv'
    BY CountStep
  <1>2. Count \in 0 .. Depth /\ Count' \in 0 .. Depth
    BY <1>1, ContentsType, ContentsTypeNext
  <1>3. /\ q_rd_ptr \in Ptr /\ q_wr_ptr \in Ptr
        /\ q_rd_ptr' = IF ~rd THEN q_rd_ptr
                       ELSE IF q_rd_ptr = Depth - 1 THEN 0 ELSE q_rd_ptr + 1
    BY Plus1Def DEF Clock, NextPtr, IInv, TypeOK
  <1>4. q_data_array' = IF wr THEN [q_data_array EXCEPT ![q_wr_ptr] = d]
                              ELSE q_data_array
    BY DEF Clock, NextArray
  <1>5. Count = IF q_wr_ptr = q_rd_ptr THEN IF q_full THEN Depth ELSE 0
                ELSE IF q_wr_ptr >= q_rd_ptr THEN q_wr_ptr - q_rd_ptr
                ELSE q_wr_ptr - q_rd_ptr + Depth
    BY <1>3, MinusDef DEF Count
  <1>6. q_data_array \in [Ptr -> Data] /\ rd \in BOOLEAN /\ wr \in BOOLEAN
    BY DEF IInv, TypeOK, ReadProt, WriteProt
  <1>7. \A i \in 1 .. Count : Contents[i] = q_data_array[pos(q_rd_ptr, i)]
    BY EntryAt
  <1>8. \A i \in 1 .. Count' :
           Contents'[i] = (q_data_array')[pos(q_rd_ptr', i)]
    BY <1>1, EntryAtNext
  <1> HIDE DEF rd, wr
  <1>9. ASSUME NEW i \in 1 .. Count', i <= n
        PROVE  Contents'[i] = Contents[IF rd THEN i + 1 ELSE i]
    <2> DEFINE j == IF rd THEN i + 1 ELSE i
    <2>1. j \in 1 .. Count
      BY <1>1, <1>2, <1>6, <1>9
    <2>2. pos(q_rd_ptr', i) = pos(q_rd_ptr, j) /\ pos(q_rd_ptr, j) \in Ptr
      BY <1>3, <2>1, <1>2, DepthAssumption DEF Ptr
    <2>3. wr => pos(q_rd_ptr, j) # q_wr_ptr
      BY <1>3, <1>5, <2>1, <1>1, <1>2, DepthAssumption DEF Ptr
    <2>4. (q_data_array')[pos(q_rd_ptr, j)] = q_data_array[pos(q_rd_ptr, j)]
      BY <1>4, <1>6, <2>2, <2>3
    <2> HIDE DEF pos
    <2> QED
      BY <1>7, <1>8, <2>1, <2>2, <2>4
  <1>10. ASSUME NEW i \in 1 .. Count', ~(i <= n)
         PROVE  Contents'[i] = d
    <2>1. wr /\ i = n + 1 /\ n \in Nat
      BY <1>1, <1>2, <1>6, <1>10
    <2>2. pos(q_rd_ptr', i) = q_wr_ptr
      BY <1>1, <1>2, <1>3, <1>5, <1>6, <2>1, DepthAssumption DEF Ptr
    <2> HIDE DEF pos
    <2> QED
      BY <1>3, <1>4, <1>6, <1>8, <2>1, <2>2
  <1>11. \A i \in 1 .. Count' :
           Contents'[i] = IF i <= n THEN Contents[IF rd THEN i + 1 ELSE i] ELSE d
    BY <1>9, <1>10
  <1> QED
    BY <1>11, Zenon DEF rd, wr

\* A reset empties the queue; every other edge pushes, pops, does both or
\* neither.
LEMMA QueueStep ==
    ASSUME IInv, [Next]_fifoVars
    PROVE  [Queue!Next]_Contents
  <1>1. CASE Reset
    <2>1. Count' = 0 /\ IInv'
      BY <1>1, ResetStep
    <2>2. Contents' \in Seq(Data) /\ Len(Contents') = 0
      BY <2>1, ContentsTypeNext
    <2>3. Contents' = <<>>
      BY <2>2, EmptySeq
    <2> QED
      BY <2>3 DEF Queue!Next, Queue!Clear
  <1>2. ASSUME NEW rd_en \in BOOLEAN, NEW wr_en \in BOOLEAN, NEW d \in Data,
               Clock(rd_en, wr_en, d)
        PROVE  [Queue!Next]_Contents
    <2> DEFINE rd == ReadProt(rd_en)
               wr == WriteProt(wr_en)
               rest == IF rd THEN Tail(Contents) ELSE Contents
    <2>1. /\ rd => Count > 0
          /\ wr => Count < Depth
          /\ Count' = Count + (IF wr THEN 1 ELSE 0) - (IF rd THEN 1 ELSE 0)
          /\ IInv'
      BY <1>2, CountStep
    <2>2. /\ Count \in 0 .. Depth /\ Count' \in 0 .. Depth
          /\ Contents \in Seq(Data) /\ Len(Contents) = Count
          /\ Contents' \in Seq(Data) /\ Len(Contents') = Count'
      BY <2>1, ContentsType, ContentsTypeNext
    <2>3. /\ rest \in Seq(Data)
          /\ Len(rest) = Count - (IF rd THEN 1 ELSE 0)
          /\ \A i \in 1 .. Len(rest) : rest[i] = Contents[IF rd THEN i + 1 ELSE i]
      BY <2>1, <2>2, EmptySeq, HeadTailProperties
    <2>4. /\ \A i \in 1 .. Len(rest) : Contents'[i] = rest[i]
          /\ wr => Contents'[Len(rest) + 1] = d
      <3>1. \A i \in 1 .. Count' :
               Contents'[i] = IF i <= Len(rest) THEN Contents[IF rd THEN i + 1 ELSE i]
                              ELSE d
        BY <1>2, <2>3, EntriesStep
      <3> QED
        BY <2>1, <2>2, <2>3, <3>1
    <2>5. CASE wr
      <3>1. /\ Append(rest, d) \in Seq(Data)
            /\ Len(Append(rest, d)) = Len(rest) + 1
            /\ \A i \in 1 .. Len(rest) : Append(rest, d)[i] = rest[i]
            /\ Append(rest, d)[Len(rest) + 1] = d
        BY <2>3, AppendProperties
      <3>2. Contents' = Append(rest, d)
        <4>1. Len(Contents') = Len(Append(rest, d))
          BY <2>1, <2>2, <2>3, <2>5, <3>1
        <4>2. \A i \in 1 .. Len(Contents') : Contents'[i] = Append(rest, d)[i]
          BY <2>2, <2>3, <2>4, <2>5, <3>1, <4>1, LenProperties
        <4> QED
          BY <2>2, <3>1, <4>1, <4>2, SeqEqual
      <3>3. rd => Contents # <<>>
        BY <2>1, <2>2, EmptySeq
      <3> QED
        BY <2>1, <2>2, <2>5, <3>2, <3>3
        DEF Queue!Next, Queue!Push, Queue!PopPush
    <2>6. CASE ~wr
      <3>1. Contents' = rest
        BY <2>1, <2>2, <2>3, <2>4, <2>6, SeqEqual
      <3>2. rd => Contents # <<>>
        BY <2>1, <2>2, EmptySeq
      <3> QED
        BY <3>1, <3>2 DEF Queue!Next, Queue!Pop
    <2> QED
      BY <2>5, <2>6
  <1>3. CASE UNCHANGED fifoVars
    BY <1>3 DEF fifoVars, Contents, Count, Minus
  <1> QED
    BY <1>1, <1>2, <1>3 DEF Next

\* fifo.v is a bounded queue: accepted writes come out once and in order.
THEOREM FifoIsAQueue == Spec => IsQueue
  <1>1. Init => Queue!Init
    <2> SUFFICES ASSUME Init PROVE Contents = <<>>
      BY DEF Queue!Init
    <2>1. Count = 0
      BY DEF Init, Count
    <2> QED
      BY <2>1 DEF Contents
  <1> QED
    BY <1>1, Invariance, QueueStep, PTL DEF Spec, IsQueue, Queue!Spec
=============================================================================

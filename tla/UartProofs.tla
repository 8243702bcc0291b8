----------------------------- MODULE UartProofs -----------------------------
(***************************************************************************)
(* The serial line for every rate, frame, buffer and drift: the registers  *)
(* keep their widths, and as long as the drift stays within what the       *)
(* timing of the receiver tolerates every byte arrives once, in order and  *)
(* bit for bit.                                                            *)
(***************************************************************************)
EXTENDS Uart, FiniteSetTheorems, SequenceTheorems, TLAPS

FP == INSTANCE FifoProofs WITH Data <- Byte, Depth <- TxDepth

Bits == [1 .. DataBits -> Bit]

\* No parity state without a parity bit; the ticks come with the last state.
Phases ==
    /\ mode = 0 => tState # "PARITY" /\ rState # "PARITY"
    /\ q_tx_done_tick => tState = "IDLE"
    /\ q_done_tick => rState = "IDLE"

Typed == Widths /\ Counters /\ Phases /\ TxFifo!FlagsSafe

-----------------------------------------------------------------------------
(* Constants and operators.                                                *)

\* The sizes in use.
LEMMA Sizes ==
    /\ DataBits \in Nat /\ DataBits >= 1 /\ DataBits <= 8
    /\ Rate \in Nat /\ Rate >= 2 /\ Rate <= 16 /\ Div \in Nat /\ Div >= 1
    /\ Half \in Nat /\ Half < Rate /\ Half <= 15
    /\ StopBits \in Nat /\ StopBits >= 1 /\ Skew \in Nat
    /\ StopTicks \in Nat /\ StopTicks >= Rate /\ StopTicks <= 16
  <1>1. StopBits * Rate >= Rate
    BY UartAssumption
  <1> QED
    BY <1>1, UartAssumption DEF Half, StopTicks

\* A byte is a sequence of DataBits bits.
LEMMA BitsAreSeq ==
    ASSUME NEW d \in Bits
    PROVE  d \in Seq(Bit) /\ Len(d) = DataBits
  <1>1. DataBits \in Nat
    BY Sizes
  <1>2. d \in Seq(Bit)
    BY <1>1, SeqDef DEF Bits
  <1> QED
    BY <1>1, <1>2, LenProperties DEF Bits

\* A bit shifted in at the high end.
LEMMA ShiftIn ==
    ASSUME NEW d \in Bits, NEW b \in Bit
    PROVE  /\ Append(Tail(d), b) \in Bits
           /\ \A j \in 1 .. DataBits - 1 : Append(Tail(d), b)[j] = d[j + 1]
           /\ Append(Tail(d), b)[DataBits] = b
  <1> DEFINE n == DataBits - 1
  <1>0. n \in Nat /\ DataBits = n + 1 /\ DataBits \in Nat
    BY Sizes
  <1>1. d \in Seq(Bit) /\ Len(d) = DataBits
    BY BitsAreSeq
  <1>2. d # <<>>
    BY <1>0, <1>1, EmptySeq
  <1>3. /\ Tail(d) \in Seq(Bit) /\ Len(Tail(d)) = Len(d) - 1
        /\ \A i \in 1 .. Len(Tail(d)) : Tail(d)[i] = d[i + 1]
    BY <1>1, <1>2, HeadTailProperties
  <1> DEFINE t == Tail(d)
             a == Append(t, b)
  <1>4. t \in Seq(Bit) /\ Len(t) = n /\ \A i \in 1 .. n : t[i] = d[i + 1]
    BY <1>0, <1>1, <1>3
  <1> HIDE DEF t, n
  <1>5. /\ a \in Seq(Bit) /\ Len(a) = n + 1
        /\ \A i \in 1 .. n : a[i] = t[i]
        /\ a[n + 1] = b
    BY <1>4, AppendProperties
  <1>6. a \in [1 .. Len(a) -> Bit]
    BY <1>5, LenProperties
  <1>7. a \in [1 .. DataBits -> Bit]
    BY <1>0, <1>5, <1>6
  <1>8. /\ a \in Bits
        /\ \A i \in 1 .. n : a[i] = d[i + 1]
        /\ a[DataBits] = b
    BY <1>0, <1>4, <1>5, <1>7 DEF Bits
  <1> QED
    BY <1>8, Zenon DEF t, n, a

\* The parity is a bit.
LEMMA ParityType ==
    ASSUME NEW d \in Bits
    PROVE  TxParity(d) \in Bit /\ RxParity(d) \in Bit
  <1> DEFINE S == {i \in 1 .. DataBits : d[i] = 1}
  <1>1. IsFiniteSet(S)
    <2>1. IsFiniteSet(1 .. DataBits)
      BY FS_Interval, Sizes
    <2>2. S \subseteq 1 .. DataBits
      OBVIOUS
    <2> QED
      BY <2>1, <2>2, FS_Subset, Zenon
  <1>2. Cardinality(S) \in Nat
    BY <1>1, FS_CardinalityType
  <1>3. Xor(d) \in Bit
    <2> HIDE DEF S
    <2>1. Cardinality(S) % 2 \in Bit
      BY <1>2 DEF Bit
    <2> QED
      BY <2>1, Zenon DEF S, Xor
  <1>4. d[1] \in Bit
    BY Sizes DEF Bits
  <1> QED
    BY <1>3, <1>4 DEF TxParity, RxParity, Bit

-----------------------------------------------------------------------------
(* The transmit buffer.                                                    *)

\* What an edge does to it, whoever uses it.
LEMMA FifoEdge ==
    ASSUME TxFifo!TypeOK, TxFifo!FlagsSafe,
           NEW rd \in BOOLEAN, NEW wr \in BOOLEAN, NEW d \in Byte,
           TxFifo!Clock(rd, wr, d)
    PROVE  /\ TxFifo!TypeOK' /\ TxFifo!FlagsSafe'
           /\ rd /\ ~q_empty => TxFifo!Count > 0
           /\ TxFifo!Count' = TxFifo!Count + (IF wr /\ ~q_full THEN 1 ELSE 0)
                                           - (IF rd /\ ~q_empty THEN 1 ELSE 0)
           /\ \A i \in 1 .. TxFifo!Count' :
                 TxFifo!Contents'[i] =
                     IF i <= TxFifo!Count - (IF rd /\ ~q_empty THEN 1 ELSE 0)
                     THEN TxFifo!Contents[IF rd /\ ~q_empty THEN i + 1 ELSE i] ELSE d
  <1>1. FP!DepthAssumption
    BY UartAssumption DEF FP!DepthAssumption
  <1>2. FP!Count = TxFifo!Count /\ FP!Contents = TxFifo!Contents
    BY Zenon DEF FP!Count, FP!Minus, FP!Contents, TxFifo!Count, TxFifo!Minus, TxFifo!Contents
  <1>3. FP!Count' = TxFifo!Count' /\ FP!Contents' = TxFifo!Contents'
    BY Zenon DEF FP!Count, FP!Minus, FP!Contents, TxFifo!Count, TxFifo!Minus, TxFifo!Contents
  <1>4. FP!IInv
    BY <1>2, Zenon DEF FP!IInv, FP!TypeOK, FP!FlagsSafe, FP!Ptr,
                       TxFifo!TypeOK, TxFifo!FlagsSafe, TxFifo!Ptr
  <1>5. FP!Clock(rd, wr, d)
    BY Zenon DEF FP!Clock, FP!NextPtr, FP!Plus1, FP!NextEmpty, FP!NextFull, FP!Minus,
                 FP!NextArray, FP!ReadProt, FP!WriteProt,
                 TxFifo!Clock, TxFifo!NextPtr, TxFifo!Plus1, TxFifo!NextEmpty,
                 TxFifo!NextFull, TxFifo!Minus, TxFifo!NextArray, TxFifo!ReadProt,
                 TxFifo!WriteProt
  <1>6. /\ FP!ReadProt(rd) => FP!Count > 0
        /\ FP!Count' = FP!Count + (IF FP!WriteProt(wr) THEN 1 ELSE 0)
                                - (IF FP!ReadProt(rd) THEN 1 ELSE 0)
        /\ FP!IInv'
    BY <1>1, <1>4, <1>5, FP!CountStep
  <1>7. \A i \in 1 .. FP!Count' :
             FP!Contents'[i] = IF i <= FP!Count - (IF FP!ReadProt(rd) THEN 1 ELSE 0)
                               THEN FP!Contents[IF FP!ReadProt(rd) THEN i + 1 ELSE i]
                               ELSE d
    BY <1>1, <1>4, <1>5, FP!EntriesStep
  <1>8. TxFifo!TypeOK' /\ TxFifo!FlagsSafe'
    BY <1>3, <1>6, Zenon DEF FP!IInv, FP!TypeOK, FP!FlagsSafe, FP!Ptr,
                       TxFifo!TypeOK, TxFifo!FlagsSafe, TxFifo!Ptr
  <1>9. /\ FP!ReadProt(rd) = (rd /\ ~q_empty)
        /\ FP!WriteProt(wr) = (wr /\ ~q_full)
    BY Zenon DEF FP!ReadProt, FP!WriteProt
  <1> QED
    BY <1>2, <1>3, <1>6, <1>7, <1>8, <1>9, Zenon

\* What an edge of the transmitting board does to its buffer: the done tick
\* takes the first byte out, and a byte b may come in.
LEMMA BufferStep ==
    ASSUME Typed, TxEdge
    PROVE  \E w \in BOOLEAN, b \in Byte :
             LET k == IF q_tx_done_tick /\ ~q_empty THEN 1 ELSE 0
             IN  /\ sent' = IF w THEN Append(sent, b) ELSE sent
                 /\ TxFifo!Count' = TxFifo!Count + (IF w THEN 1 ELSE 0) - k
                 /\ \A i \in 1 .. TxFifo!Count' :
                       TxFifo!Contents'[i] = IF i <= TxFifo!Count - k
                                             THEN TxFifo!Contents[i + k] ELSE b
                 /\ k = 1 => TxFifo!Count > 0
                 /\ TxFifo!TypeOK' /\ TxFifo!FlagsSafe'
                 /\ ~q_empty /\ ~q_tx_done_tick => ~q_empty'
  <1> DEFINE rd == q_tx_done_tick
             k == IF q_tx_done_tick /\ ~q_empty THEN 1 ELSE 0
  <1>1. /\ TxFifo!TypeOK /\ TxFifo!FlagsSafe /\ rd \in BOOLEAN
        /\ q_empty \in BOOLEAN /\ q_full \in BOOLEAN
    BY DEF Typed, Widths, TxFifo!TypeOK
  <1>2. PICK wr \in BOOLEAN, b \in Byte :
             /\ TxFifo!Clock(rd, wr, b)
             /\ sent' = IF wr /\ ~q_full THEN Append(sent, b) ELSE sent
    <2>1. CASE TxFifo!Clock(rd, FALSE, tData) /\ UNCHANGED sent
      <3>1. PICK b \in Byte : TRUE
        BY UartAssumption
      <3>2. TxFifo!Clock(rd, FALSE, b)
        BY <2>1, Zenon DEF TxFifo!Clock, TxFifo!NextArray, TxFifo!WriteProt
      <3> QED
        BY <2>1, <3>1, <3>2, Zenon
    <2>2. CASE \E b \in Byte : /\ Len(sent) < MaxSent
                               /\ TxFifo!Clock(rd, TRUE, b)
                               /\ sent' = IF q_full THEN sent ELSE Append(sent, b)
      <3>1. PICK b \in Byte : /\ TxFifo!Clock(rd, TRUE, b)
                              /\ sent' = IF q_full THEN sent ELSE Append(sent, b)
        BY <2>2, Zenon
      <3>2. sent' = IF TRUE /\ ~q_full THEN Append(sent, b) ELSE sent
        BY <1>1, <3>1, Zenon
      <3> QED
        BY <3>1, <3>2, Zenon
    <2> QED
      BY <2>1, <2>2, Zenon DEF TxEdge
  <1> DEFINE w == wr /\ ~q_full
  <1>3. /\ TxFifo!TypeOK' /\ TxFifo!FlagsSafe'
        /\ rd /\ ~q_empty => TxFifo!Count > 0
        /\ TxFifo!Count' = TxFifo!Count + (IF w THEN 1 ELSE 0) - k
        /\ \A i \in 1 .. TxFifo!Count' :
             TxFifo!Contents'[i] = IF i <= TxFifo!Count - k
                   THEN TxFifo!Contents[IF rd /\ ~q_empty THEN i + 1 ELSE i] ELSE b
    <2>1. TxFifo!Clock(rd, wr, b)
      BY <1>2
    <2> HIDE DEF rd
    <2>2. /\ TxFifo!TypeOK' /\ TxFifo!FlagsSafe'
          /\ rd /\ ~q_empty => TxFifo!Count > 0
          /\ TxFifo!Count' = TxFifo!Count + (IF wr /\ ~q_full THEN 1 ELSE 0)
                                           - (IF rd /\ ~q_empty THEN 1 ELSE 0)
          /\ \A i \in 1 .. TxFifo!Count' :
                 TxFifo!Contents'[i] =
                     IF i <= TxFifo!Count - (IF rd /\ ~q_empty THEN 1 ELSE 0)
                     THEN TxFifo!Contents[IF rd /\ ~q_empty THEN i + 1 ELSE i] ELSE b
      BY ONLY <1>1, <2>1, FifoEdge, wr \in BOOLEAN, b \in Byte
    <2> QED
      BY <2>2, Zenon DEF rd
  <1>4. w \in BOOLEAN
    OBVIOUS
  <1>5. ~q_empty /\ ~q_tx_done_tick => ~q_empty'
    BY <1>2, Zenon DEF TxFifo!Clock, TxFifo!NextEmpty, TxFifo!ReadProt
  <1>6. k = 1 => TxFifo!Count > 0
    BY <1>3
  <1>7. ASSUME NEW i \in 1 .. TxFifo!Count'
        PROVE  TxFifo!Contents'[i] = IF i <= TxFifo!Count - k
                                     THEN TxFifo!Contents[i + k] ELSE b
    <2>1. (IF rd /\ ~q_empty THEN i + 1 ELSE i) = i + k
      BY <1>1
    <2> QED
      BY <1>3, <2>1, Zenon
  <1>8. /\ sent' = IF w THEN Append(sent, b) ELSE sent
        /\ b \in Byte
    BY <1>2, Zenon
  <1> QED
    BY <1>3, <1>4, <1>5, <1>6, <1>7, <1>8, Zenon

-----------------------------------------------------------------------------
(* Types.                                                                  *)

\* The count of ticks.
LEMMA TicksType ==
    ASSUME NEW n \in Nat, n <= 15, NEW tick \in BOOLEAN
    PROVE  /\ Ticks(n, tick) \in Nat /\ Ticks(n, tick) <= 15
           /\ ~tick \/ n < 15 => Ticks(n, tick) = IF tick THEN n + 1 ELSE n
  <1>1. CASE n = 15
    BY <1>1 DEF Ticks
  <1>2. CASE n < 15
    <2>1. (n + 1) % 16 = n + 1
      BY <1>2
    <2> QED
      BY <1>2, <2>1 DEF Ticks
  <1> QED
    BY <1>1, <1>2

\* The cycle within a tick.
LEMMA ClkType ==
    ASSUME NEW n \in 0 .. Div - 1
    PROVE  NextClk(n) \in 0 .. Div - 1
  BY Sizes DEF NextClk

\* At the start the registers have their widths.
LEMMA InitTyped == Init => Typed
  <1> SUFFICES ASSUME Init PROVE Typed
    OBVIOUS
  <1> USE DEF Init
  <1>1. TxFifo!TypeOK
    <2> DEFINE c == CHOOSE b \in Byte : TRUE
    <2>1. c \in Byte
      BY UartAssumption
    <2>2. q_data_array = [p \in 0 .. TxDepth - 1 |-> c]
      OBVIOUS
    <2> HIDE DEF c
    <2>3. q_data_array \in [0 .. TxDepth - 1 -> Byte]
      BY <2>1, <2>2
    <2>4. 0 \in 0 .. TxDepth - 1
      BY UartAssumption
    <2> QED
      BY <2>3, <2>4 DEF TxFifo!Init, TxFifo!TypeOK, TxFifo!Ptr
  <1>2. TxFifo!FlagsSafe
    BY UartAssumption DEF TxFifo!Init, TxFifo!FlagsSafe, TxFifo!Count
  <1>3. mode \in 0 .. 2
    BY UartAssumption
  <1>4. sent \in Seq(Byte) /\ got \in Seq(Bits)
    BY EmptySeq
  <1>5. Widths
    <2>1. 0 \in 0 .. Div - 1 /\ 0 \in -Skew .. Skew /\ 0 \in 0 .. 15 /\ 0 \in 0 .. 7
      BY Sizes
    <2>2. [i \in 1 .. DataBits |-> 0] \in Bits
      BY DEF Bits, Bit
    <2>3. tData \in Bits /\ rData \in Bits
      BY <2>2
    <2> QED
      BY <1>1, <1>3, <1>4, <2>1, <2>3 DEF Widths, States, Bit, Bits
  <1>6. Counters /\ Phases
    BY DEF Counters, Phases
  <1> QED
    BY <1>2, <1>5, <1>6 DEF Typed

\* An edge of the transmitter, state by state.
LEMMA TxShape ==
    ASSUME Typed, TxEdge
    PROVE  LET tick == tClk = Div - 1
               count == IF tick THEN tCnt + 1 ELSE tCnt
               over == tick /\ tCnt = Rate - 1
               stop == tick /\ tCnt = StopTicks - 1
               start == ~q_empty /\ ~q_tx_done_tick
           IN  /\ tClk' = NextClk(tClk)
               /\ tState = "IDLE" =>
                    /\ q_tx' = 1 /\ tIdx' = tIdx /\ q_tx_done_tick' = FALSE
                    /\ tState' = IF start THEN "START" ELSE "IDLE"
                    /\ tCnt' = IF start THEN 0 ELSE Ticks(tCnt, tick)
                    /\ tData' = IF start THEN q_data_array[q_rd_ptr] ELSE tData
                    /\ tParity' = IF start /\ mode # 0 THEN TxParity(q_data_array[q_rd_ptr])
                                  ELSE tParity
               /\ tState = "START" =>
                    /\ q_tx' = 0 /\ tData' = tData /\ tParity' = tParity
                    /\ q_tx_done_tick' = FALSE
                    /\ tState' = IF over THEN "DATA" ELSE "START"
                    /\ tCnt' = IF over THEN 0 ELSE count
                    /\ tIdx' = IF over THEN 0 ELSE tIdx
               /\ tState = "DATA" =>
                    /\ q_tx' = tData[1] /\ tParity' = tParity
                    /\ q_tx_done_tick' = FALSE
                    /\ tState' = IF over /\ tIdx = DataBits - 1 THEN AfterData ELSE "DATA"
                    /\ tCnt' = IF over THEN 0 ELSE count
                    /\ tIdx' = IF over THEN (tIdx + 1) % 8 ELSE tIdx
                    /\ tData' = IF over THEN Append(Tail(tData), 0) ELSE tData
               /\ tState = "PARITY" =>
                    /\ q_tx' = tParity /\ tData' = tData /\ tParity' = tParity
                    /\ q_tx_done_tick' = FALSE /\ tIdx' = tIdx
                    /\ tState' = IF over THEN "STOP" ELSE "PARITY"
                    /\ tCnt' = IF over THEN 0 ELSE count
               /\ tState = "STOP" =>
                    /\ q_tx' = 1 /\ tData' = tData /\ tParity' = tParity /\ tIdx' = tIdx
                    /\ q_tx_done_tick' = stop
                    /\ tState' = IF stop THEN "IDLE" ELSE "STOP"
                    /\ stop \/ tCnt' = count
                    /\ tCnt' = Ticks(tCnt, tick)
  <1> DEFINE tick == tClk = Div - 1
             count == IF tick THEN tCnt + 1 ELSE tCnt
             over == tick /\ tCnt = Rate - 1
             stop == tick /\ tCnt = StopTicks - 1
             start == ~q_empty /\ ~q_tx_done_tick
  <1>1. /\ tCnt \in Nat /\ tCnt <= 15 /\ tick \in BOOLEAN
        /\ tState \in {"START", "DATA", "PARITY"} => tCnt < Rate
        /\ tState = "STOP" => tCnt < StopTicks
    BY DEF Typed, Widths, Counters, Phases
  <1> HIDE DEF tick
  <1>2. /\ tState \in {"START", "DATA", "PARITY"} /\ ~over => Ticks(tCnt, tick) = count
        /\ tState = "STOP" /\ ~stop => Ticks(tCnt, tick) = count
    <2>1. ~tick \/ tCnt < 15 => Ticks(tCnt, tick) = count
      BY <1>1, TicksType
    <2>2. tick \in BOOLEAN
      BY <1>1
    <2> QED
      BY <1>1, <2>1, <2>2, Sizes
  <1>3. tClk' = NextClk(tClk)
    BY DEF TxEdge
  <1>4. CASE TxIdle(tick)
    <2>1. CASE start
      BY <1>3, <1>4, <2>1, Zenon DEF TxIdle, tx_start, tick
    <2>2. CASE ~start
      BY <1>3, <1>4, <2>2, Zenon DEF TxIdle, tx_start, tick
    <2> QED
      BY <2>1, <2>2, Zenon
  <1>5. CASE TxStart(tick)
    <2>1. CASE over
      BY <1>3, <1>5, <2>1, Zenon DEF TxStart, BitOver, tick
    <2>2. CASE ~over
      BY <1>2, <1>3, <1>5, <2>2, Zenon DEF TxStart, BitOver, tick
    <2> QED
      BY <2>1, <2>2, Zenon
  <1>6. CASE TxData(tick)
    <2>1. CASE over
      BY <1>3, <1>6, <2>1, Zenon DEF TxData, BitOver, tick
    <2>2. CASE ~over
      BY <1>2, <1>3, <1>6, <2>2, Zenon DEF TxData, BitOver, tick
    <2> QED
      BY <2>1, <2>2, Zenon
  <1>7. CASE TxParityBit(tick)
    <2>1. CASE over
      BY <1>3, <1>7, <2>1, Zenon DEF TxParityBit, BitOver, tick
    <2>2. CASE ~over
      BY <1>2, <1>3, <1>7, <2>2, Zenon DEF TxParityBit, BitOver, tick
    <2> QED
      BY <2>1, <2>2, Zenon
  <1>8. CASE TxStop(tick)
    <2>1. /\ stop \/ tCnt' = count
          /\ q_tx_done_tick' = stop
      BY <1>2, <1>8, Zenon DEF TxStop, BitOver
    <2> QED
      BY <1>3, <1>8, <2>1, Zenon DEF TxStop, BitOver, tick
  <1> QED
    BY <1>4, <1>5, <1>6, <1>7, <1>8, Zenon DEF TxEdge, tick

\* An edge of the receiver, state by state.
LEMMA RxShape ==
    ASSUME Typed, RxEdge
    PROVE  LET tick == rClk = Div - 1
               count == IF tick THEN rCnt + 1 ELSE rCnt
               half == tick /\ rCnt = Half
               over == tick /\ rCnt = Rate - 1
               stop == tick /\ rCnt = StopTicks - 1
           IN  /\ rClk' = NextClk(rClk) /\ q_rx' = q_tx
               /\ rState = "IDLE" =>
                    /\ rData' = rData /\ rIdx' = rIdx
                    /\ q_done_tick' = FALSE /\ q_parity_err' = FALSE
                    /\ rState' = IF q_rx = 0 THEN "START" ELSE "IDLE"
                    /\ rCnt' = IF q_rx = 0 THEN 0 ELSE Ticks(rCnt, tick)
               /\ rState = "START" =>
                    /\ rData' = rData
                    /\ q_done_tick' = FALSE /\ q_parity_err' = FALSE
                    /\ rState' = IF half THEN "DATA" ELSE "START"
                    /\ rCnt' = IF half THEN 0 ELSE count
                    /\ rIdx' = IF half THEN 0 ELSE rIdx
               /\ rState = "DATA" =>
                    /\ q_done_tick' = FALSE /\ q_parity_err' = FALSE
                    /\ rState' = IF over /\ rIdx = DataBits - 1 THEN AfterData ELSE "DATA"
                    /\ rCnt' = IF over THEN 0 ELSE count
                    /\ rIdx' = IF over /\ rIdx # DataBits - 1 THEN (rIdx + 1) % 8 ELSE rIdx
                    /\ rData' = IF over THEN Append(Tail(rData), q_rx) ELSE rData
               /\ rState = "PARITY" =>
                    /\ rData' = rData /\ rIdx' = rIdx /\ q_done_tick' = FALSE
                    /\ q_parity_err' = (over /\ q_rx # RxParity(rData))
                    /\ rState' = IF over THEN "STOP" ELSE "PARITY"
                    /\ rCnt' = IF over THEN 0 ELSE count
               /\ rState = "STOP" =>
                    /\ rData' = rData /\ rIdx' = rIdx /\ q_parity_err' = FALSE
                    /\ q_done_tick' = stop
                    /\ rState' = IF stop THEN "IDLE" ELSE "STOP"
                    /\ stop \/ rCnt' = count
                    /\ rCnt' = Ticks(rCnt, tick)
  <1> DEFINE tick == rClk = Div - 1
             count == IF tick THEN rCnt + 1 ELSE rCnt
             half == tick /\ rCnt = Half
             over == tick /\ rCnt = Rate - 1
             stop == tick /\ rCnt = StopTicks - 1
  <1>1. /\ rCnt \in Nat /\ rCnt <= 15 /\ tick \in BOOLEAN
        /\ rState = "START" => rCnt <= Half
        /\ rState \in {"DATA", "PARITY"} => rCnt < Rate
        /\ rState = "STOP" => rCnt < StopTicks
    BY DEF Typed, Widths, Counters, Phases
  <1> HIDE DEF tick
  <1>2. /\ rState = "START" /\ ~half => Ticks(rCnt, tick) = count
        /\ rState \in {"DATA", "PARITY"} /\ ~over => Ticks(rCnt, tick) = count
        /\ rState = "STOP" /\ ~stop => Ticks(rCnt, tick) = count
    <2>1. ~tick \/ rCnt < 15 => Ticks(rCnt, tick) = count
      BY <1>1, TicksType
    <2>2. tick \in BOOLEAN
      BY <1>1
    <2> QED
      BY <1>1, <2>1, <2>2, Sizes
  <1>3. rClk' = NextClk(rClk) /\ q_rx' = q_tx
    BY DEF RxEdge
  <1>4. CASE RxIdle(tick)
    <2>1. CASE q_rx = 0
      BY <1>3, <1>4, <2>1, Zenon DEF RxIdle, tick
    <2>2. CASE q_rx # 0
      BY <1>3, <1>4, <2>2, Zenon DEF RxIdle, tick
    <2> QED
      BY <2>1, <2>2, Zenon
  <1>5. CASE RxStart(tick)
    <2>1. CASE half
      BY <1>3, <1>5, <2>1, Zenon DEF RxStart, tick
    <2>2. CASE ~half
      BY <1>2, <1>3, <1>5, <2>2, Zenon DEF RxStart, tick
    <2> QED
      BY <2>1, <2>2, Zenon
  <1>6. CASE RxData(tick)
    <2>1. CASE over
      BY <1>3, <1>6, <2>1, Zenon DEF RxData, tick
    <2>2. CASE ~over
      BY <1>2, <1>3, <1>6, <2>2, Zenon DEF RxData, tick
    <2> QED
      BY <2>1, <2>2, Zenon
  <1>7. CASE RxParityBit(tick)
    <2>1. CASE over
      BY <1>3, <1>7, <2>1, Zenon DEF RxParityBit, tick
    <2>2. CASE ~over
      BY <1>2, <1>3, <1>7, <2>2, Zenon DEF RxParityBit, tick
    <2> QED
      BY <2>1, <2>2, Zenon
  <1>8. CASE RxStop(tick)
    <2>1. /\ stop \/ rCnt' = count
          /\ q_done_tick' = stop
      BY <1>2, <1>8, Zenon DEF RxStop
    <2> QED
      BY <1>3, <1>8, <2>1, Zenon DEF RxStop, tick
  <1> QED
    BY <1>4, <1>5, <1>6, <1>7, <1>8, Zenon DEF RxEdge, tick

\* What the transmitter's registers hold after an edge.
LEMMA TxTyped ==
    ASSUME Typed, TxEdge
    PROVE  /\ tClk' \in 0 .. Div - 1 /\ tState' \in States
           /\ tCnt' \in Nat /\ tCnt' <= 15 /\ tIdx' \in Nat /\ tIdx' <= 7
           /\ tData' \in Bits /\ tParity' \in Bit /\ q_tx' \in Bit
           /\ tState' \in {"START", "DATA", "PARITY"} => tCnt' < Rate
           /\ tState' = "STOP" => tCnt' < StopTicks
           /\ tState' = "DATA" => tIdx' < DataBits
           /\ mode = 0 => tState' # "PARITY"
           /\ q_tx_done_tick' => tState' = "IDLE"
  <1> DEFINE tick == tClk = Div - 1
  <1>1. /\ tClk \in 0 .. Div - 1 /\ tState \in States
        /\ tCnt \in Nat /\ tCnt <= 15 /\ tIdx \in Nat /\ tIdx <= 7
        /\ tData \in Bits /\ tParity \in Bit /\ q_tx \in Bit
        /\ q_rd_ptr \in 0 .. TxDepth - 1 /\ q_data_array \in [0 .. TxDepth - 1 -> Byte]
        /\ q_tx_done_tick \in BOOLEAN /\ q_empty \in BOOLEAN
    BY DEF Typed, Widths, TxFifo!TypeOK, TxFifo!Ptr, Bits
  <1>2. /\ tState \in {"START", "DATA", "PARITY"} => tCnt < Rate
        /\ tState = "STOP" => tCnt < StopTicks
        /\ tState = "DATA" => tIdx < DataBits
        /\ mode = 0 => tState # "PARITY"
    BY DEF Typed, Counters, Phases
  <1>3. tClk' \in 0 .. Div - 1
    BY <1>1, ClkType DEF TxEdge
  <1>4. /\ Ticks(tCnt, tick) \in Nat /\ Ticks(tCnt, tick) <= 15 /\ tick \in BOOLEAN
    BY <1>1, TicksType
  <1>5. /\ q_data_array[q_rd_ptr] \in Bits /\ TxParity(q_data_array[q_rd_ptr]) \in Bit
    BY <1>1, UartAssumption, ParityType DEF Bits
  <1>6. /\ Append(Tail(tData), 0) \in Bits
        /\ tData[1] \in Bit
    BY <1>1, ShiftIn, Sizes DEF Bits, Bit
  <1> HIDE DEF tick
  <1> DEFINE count == IF tick THEN tCnt + 1 ELSE tCnt
             over == tick /\ tCnt = Rate - 1
             stop == tick /\ tCnt = StopTicks - 1
             start == ~q_empty /\ ~q_tx_done_tick
  <1>7. CASE tState = "IDLE"
    <2>1. /\ q_tx' = 1 /\ tIdx' = tIdx /\ q_tx_done_tick' = FALSE
          /\ tState' = IF start THEN "START" ELSE "IDLE"
          /\ tCnt' = IF start THEN 0 ELSE Ticks(tCnt, tick)
          /\ tData' = IF start THEN q_data_array[q_rd_ptr] ELSE tData
          /\ tParity' = IF start /\ mode # 0 THEN TxParity(q_data_array[q_rd_ptr])
                        ELSE tParity
      BY <1>7, TxShape, Zenon DEF tick
    <2> QED
      BY <1>1, <1>3, <1>4, <1>5, <2>1, Sizes DEF States, Bit
  <1>8. CASE tState = "START"
    <2>1. /\ q_tx' = 0 /\ tData' = tData /\ tParity' = tParity
          /\ q_tx_done_tick' = FALSE
          /\ tState' = IF over THEN "DATA" ELSE "START"
          /\ tCnt' = IF over THEN 0 ELSE count
          /\ tIdx' = IF over THEN 0 ELSE tIdx
      BY <1>8, TxShape, Zenon DEF tick
    <2> QED
      BY <1>1, <1>2, <1>3, <1>4, <1>8, <2>1, Sizes DEF States, Bit
  <1>9. CASE tState = "DATA"
    <2>1. /\ q_tx' = tData[1] /\ tParity' = tParity
          /\ q_tx_done_tick' = FALSE
          /\ tState' = IF over /\ tIdx = DataBits - 1 THEN AfterData ELSE "DATA"
          /\ tCnt' = IF over THEN 0 ELSE count
          /\ tIdx' = IF over THEN (tIdx + 1) % 8 ELSE tIdx
          /\ tData' = IF over THEN Append(Tail(tData), 0) ELSE tData
      BY <1>9, TxShape, Zenon DEF tick
    <2> QED
      BY <1>1, <1>2, <1>3, <1>4, <1>6, <1>9, <2>1, Sizes DEF AfterData, States
  <1>10. CASE tState = "PARITY"
    <2>1. /\ q_tx' = tParity /\ tData' = tData /\ tParity' = tParity
          /\ q_tx_done_tick' = FALSE /\ tIdx' = tIdx
          /\ tState' = IF over THEN "STOP" ELSE "PARITY"
          /\ tCnt' = IF over THEN 0 ELSE count
      BY <1>10, TxShape, Zenon DEF tick
    <2> QED
      BY <1>1, <1>2, <1>3, <1>4, <1>10, <2>1, Sizes DEF States
  <1>11. CASE tState = "STOP"
    <2>1. /\ q_tx' = 1 /\ tData' = tData /\ tParity' = tParity /\ tIdx' = tIdx
          /\ q_tx_done_tick' <=> stop
          /\ tState' = IF stop THEN "IDLE" ELSE "STOP"
          /\ stop \/ tCnt' = count
          /\ tCnt' = Ticks(tCnt, tick)
      BY <1>11, TxShape, Zenon DEF tick
    <2> QED
      BY <1>1, <1>2, <1>3, <1>4, <1>11, <2>1, Sizes DEF States, Bit
  <1> QED
    BY <1>1, <1>7, <1>8, <1>9, <1>10, <1>11 DEF States

\* What the receiver's registers hold after an edge.
LEMMA RxTyped ==
    ASSUME Typed, RxEdge
    PROVE  /\ rClk' \in 0 .. Div - 1 /\ rState' \in States
           /\ rCnt' \in Nat /\ rCnt' <= 15 /\ rIdx' \in Nat /\ rIdx' <= 7
           /\ rData' \in Bits /\ q_rx' \in Bit
           /\ rState' = "START" => rCnt' <= Half
           /\ rState' \in {"DATA", "PARITY"} => rCnt' < Rate
           /\ rState' = "STOP" => rCnt' < StopTicks
           /\ rState' = "DATA" => rIdx' < DataBits
           /\ mode = 0 => rState' # "PARITY"
           /\ q_done_tick' => rState' = "IDLE"
  <1> DEFINE tick == rClk = Div - 1
  <1>1. /\ rClk \in 0 .. Div - 1 /\ rState \in States
        /\ rCnt \in Nat /\ rCnt <= 15 /\ rIdx \in Nat /\ rIdx <= 7
        /\ rData \in Bits /\ q_rx \in Bit /\ q_tx \in Bit
    BY DEF Typed, Widths, Bits
  <1>2. /\ rState = "START" => rCnt <= Half
        /\ rState \in {"DATA", "PARITY"} => rCnt < Rate
        /\ rState = "STOP" => rCnt < StopTicks
        /\ rState = "DATA" => rIdx < DataBits
        /\ mode = 0 => rState # "PARITY"
    BY DEF Typed, Counters, Phases
  <1>3. rClk' \in 0 .. Div - 1 /\ q_rx' \in Bit
    BY <1>1, ClkType DEF RxEdge
  <1>4. /\ Ticks(rCnt, tick) \in Nat /\ Ticks(rCnt, tick) <= 15 /\ tick \in BOOLEAN
    BY <1>1, TicksType
  <1>5. Append(Tail(rData), q_rx) \in Bits
    BY <1>1, ShiftIn
  <1> HIDE DEF tick
  <1> DEFINE count == IF tick THEN rCnt + 1 ELSE rCnt
             half == tick /\ rCnt = Half
             over == tick /\ rCnt = Rate - 1
             stop == tick /\ rCnt = StopTicks - 1
  <1>6. CASE rState = "IDLE"
    <2>1. /\ rData' = rData /\ rIdx' = rIdx
          /\ q_done_tick' = FALSE /\ q_parity_err' = FALSE
          /\ rState' = IF q_rx = 0 THEN "START" ELSE "IDLE"
          /\ rCnt' = IF q_rx = 0 THEN 0 ELSE Ticks(rCnt, tick)
      BY <1>6, RxShape, Zenon DEF tick
    <2> QED
      BY <1>1, <1>3, <1>4, <2>1, Sizes DEF States
  <1>7. CASE rState = "START"
    <2>1. /\ rData' = rData
          /\ q_done_tick' = FALSE /\ q_parity_err' = FALSE
          /\ rState' = IF half THEN "DATA" ELSE "START"
          /\ rCnt' = IF half THEN 0 ELSE count
          /\ rIdx' = IF half THEN 0 ELSE rIdx
      BY <1>7, RxShape, Zenon DEF tick
    <2> QED
      BY <1>1, <1>2, <1>3, <1>4, <1>7, <2>1, Sizes DEF States
  <1>8. CASE rState = "DATA"
    <2>1. /\ q_done_tick' = FALSE /\ q_parity_err' = FALSE
          /\ rState' = IF over /\ rIdx = DataBits - 1 THEN AfterData ELSE "DATA"
          /\ rCnt' = IF over THEN 0 ELSE count
          /\ rIdx' = IF over /\ rIdx # DataBits - 1 THEN (rIdx + 1) % 8 ELSE rIdx
          /\ rData' = IF over THEN Append(Tail(rData), q_rx) ELSE rData
      BY <1>8, RxShape, Zenon DEF tick
    <2> QED
      BY <1>1, <1>2, <1>3, <1>4, <1>5, <1>8, <2>1, Sizes DEF AfterData, States
  <1>9. CASE rState = "PARITY"
    <2>1. /\ rData' = rData /\ rIdx' = rIdx /\ q_done_tick' = FALSE
          /\ q_parity_err' = (over /\ q_rx # RxParity(rData))
          /\ rState' = IF over THEN "STOP" ELSE "PARITY"
          /\ rCnt' = IF over THEN 0 ELSE count
      BY <1>9, RxShape, Zenon DEF tick
    <2> QED
      BY <1>1, <1>2, <1>3, <1>4, <1>9, <2>1, Sizes DEF States
  <1>10. CASE rState = "STOP"
    <2>1. /\ rData' = rData /\ rIdx' = rIdx /\ q_parity_err' = FALSE
          /\ q_done_tick' <=> stop
          /\ rState' = IF stop THEN "IDLE" ELSE "STOP"
          /\ stop \/ rCnt' = count
          /\ rCnt' = Ticks(rCnt, tick)
      BY <1>10, RxShape, Zenon DEF tick
    <2> QED
      BY <1>1, <1>2, <1>3, <1>4, <1>10, <2>1, Sizes DEF States
  <1> QED
    BY <1>1, <1>6, <1>7, <1>8, <1>9, <1>10 DEF States

\* The ticks and the error of a frame are wires.
LEMMA WiresTyped ==
    ASSUME Typed
    PROVE  /\ TxEdge => q_tx_done_tick' \in BOOLEAN
           /\ RxEdge => q_done_tick' \in BOOLEAN /\ q_parity_err' \in BOOLEAN
  <1>1. ASSUME TxEdge PROVE q_tx_done_tick' \in BOOLEAN
    BY <1>1, Zenon DEF TxEdge, TxIdle, TxStart, TxData, TxParityBit, TxStop, BitOver
  <1>2. ASSUME RxEdge PROVE q_done_tick' \in BOOLEAN /\ q_parity_err' \in BOOLEAN
    BY <1>2, Zenon DEF RxEdge, RxIdle, RxStart, RxData, RxParityBit, RxStop
  <1> QED
    BY <1>1, <1>2

\* An edge of either board keeps the registers within their widths.
LEMMA TypedStep ==
    ASSUME Typed, [Next]_vars
    PROVE  Typed'
  <1>1. CASE TxEdge
    <2>1. PICK w \in BOOLEAN, b \in Byte :
            /\ sent' = IF w THEN Append(sent, b) ELSE sent
            /\ TxFifo!TypeOK' /\ TxFifo!FlagsSafe'
      BY <1>1, BufferStep, Zenon
    <2>2. sent' \in Seq(Byte)
      <3>1. sent \in Seq(Byte)
        BY DEF Typed, Widths
      <3> QED
        BY <2>1, <3>1, AppendProperties
    <2>3. ahead' \in -Skew .. Skew
      BY <1>1, Sizes DEF TxEdge, Typed, Widths
    <2>4. UNCHANGED <<mode, rClk, rState, rCnt, rData, rIdx, q_rx, q_done_tick,
                      q_parity_err, parity_err, got>>
      BY <1>1 DEF TxEdge, rxVars
    <2>5. /\ tClk' \in 0 .. Div - 1 /\ tState' \in States
          /\ tCnt' \in 0 .. 15 /\ tIdx' \in 0 .. 7
          /\ tData' \in [1 .. DataBits -> Bit] /\ tParity' \in Bit /\ q_tx' \in Bit
          /\ q_tx_done_tick' \in BOOLEAN
      <3>1. /\ tCnt' \in 0 .. 15 /\ tIdx' \in 0 .. 7
        BY <1>1, TxTyped
      <3> QED
        BY <1>1, <3>1, TxTyped, WiresTyped, Zenon DEF Bits
    <2>6. Widths'
      BY <2>1, <2>2, <2>3, <2>4, <2>5, Zenon DEF Typed, Widths
    <2>7. Counters' /\ Phases'
      BY <1>1, <2>4, TxTyped, Zenon DEF Typed, Counters, Phases
    <2> QED
      BY <2>1, <2>6, <2>7 DEF Typed
  <1>2. CASE RxEdge
    <2>1. UNCHANGED <<tClk, fifoVars, tState, tCnt, tData, tIdx, tParity, q_tx,
                      q_tx_done_tick, sent>>
      BY <1>2 DEF RxEdge, txVars
    <2>2. ahead' \in -Skew .. Skew
      BY <1>2, Sizes DEF RxEdge, Typed, Widths
    <2>3. got' \in Seq(Bits) /\ parity_err' \in BOOLEAN
      <3>1. got \in Seq(Bits) /\ rData \in Bits
        BY DEF Typed, Widths, Bits
      <3>2. Append(got, rData) \in Seq(Bits)
        BY <3>1, AppendProperties
      <3> QED
        BY <1>2, <3>1, <3>2 DEF RxEdge, Typed, Widths
    <2>4. TxFifo!TypeOK' /\ TxFifo!FlagsSafe'
      BY <2>1 DEF Typed, Widths, fifoVars, TxFifo!TypeOK, TxFifo!FlagsSafe, TxFifo!Count,
                  TxFifo!Minus
    <2>5. /\ rClk' \in 0 .. Div - 1 /\ rState' \in States
          /\ rCnt' \in 0 .. 15 /\ rIdx' \in 0 .. 7
          /\ rData' \in [1 .. DataBits -> Bit] /\ q_rx' \in Bit
          /\ q_done_tick' \in BOOLEAN /\ q_parity_err' \in BOOLEAN
      <3>1. /\ rCnt' \in 0 .. 15 /\ rIdx' \in 0 .. 7
        BY <1>2, RxTyped
      <3> QED
        BY <1>2, <3>1, RxTyped, WiresTyped, Zenon DEF Bits
    <2>6. mode' = mode
      BY <1>2 DEF RxEdge
    <2>7. Widths'
      BY <2>1, <2>2, <2>3, <2>4, <2>5, <2>6, Zenon DEF Typed, Widths, Bits
    <2>8. Counters' /\ Phases'
      BY <1>2, <2>1, <2>6, RxTyped, Zenon DEF Typed, Counters, Phases
    <2> QED
      BY <2>4, <2>7, <2>8 DEF Typed
  <1>3. CASE UNCHANGED vars
    BY <1>3 DEF vars, txVars, rxVars, fifoVars, Typed, Widths, Counters, Phases, TxFifo!TypeOK,
                TxFifo!FlagsSafe, TxFifo!Count, TxFifo!Minus
  <1> QED
    BY <1>1, <1>2, <1>3 DEF Next

\* uart.v: the registers of both boards keep their widths, and in every state
\* of a frame the counters of ticks and of bits are below what that state
\* counts to, so that its test for equality ends it on time; neither the
\* transmit buffer nor the drift leaves its bounds.
THEOREM UartTypeCorrect == Spec => []TypeOK
  <1>1. Typed => TypeOK
    BY DEF Typed, TypeOK
  <1> QED
    BY <1>1, InitTyped, TypedStep, PTL DEF Spec

-----------------------------------------------------------------------------
(* Where each side is in a frame, in cycles of its own clock from the end  *)
(* of the start bit; the receiver's start bit ends in its middle.          *)

\* Bits between the start bit and the stop bits.
Held == DataBits + (IF mode = 0 THEN 0 ELSE 1)

\* Cycles in a bit and in the half bit the receiver waits; the end of a frame.
BitTime == Rate * Div
HalfTime == Half * Div
FrameTime == (Held + StopBits) * BitTime

\* Cycle c of tick n of bit b.
Elapsed(b, n, c) == b * BitTime + n * Div + c

TBit ==
    CASE tState = "START"  -> -1
      [] tState = "DATA"   -> tIdx
      [] tState = "PARITY" -> DataBits
      [] OTHER             -> Held

\* The line shows a bit one cycle after the state machine has reached it.
TPos == IF tState = "IDLE"
        THEN IF q_tx_done_tick THEN FrameTime ELSE FrameTime + 1
        ELSE Elapsed(TBit, tCnt, tClk)

RBit ==
    CASE rState = "DATA"   -> rIdx
      [] rState = "PARITY" -> DataBits
      [] OTHER             -> Held

RPos == IF rState = "START" THEN Elapsed(0, rCnt - (Half + 1), rClk)
        ELSE Elapsed(RBit, rCnt, rClk)

\* How long these times are.
LEMMA Times ==
    ASSUME Typed
    PROVE  /\ BitTime \in Nat /\ BitTime >= 2 * Div /\ HalfTime \in Nat
           /\ Held \in Nat /\ Held >= DataBits /\ Held <= DataBits + 1
           /\ Held * BitTime \in Nat /\ FrameTime \in Nat
           /\ FrameTime >= Held * BitTime + BitTime
           /\ FrameTime = Held * BitTime + StopTicks * Div
  <1>1. BitTime \in Nat /\ HalfTime \in Nat
    BY Sizes DEF BitTime, HalfTime
  <1>2. BitTime >= 2 * Div
    <2>1. PICK e \in Nat : Rate = 2 + e
      <3>1. Rate - 2 \in Nat /\ Rate = 2 + (Rate - 2)
        BY Sizes
      <3> QED
        BY <3>1, Zenon
    <2>2. e * Div \in Nat /\ (2 + e) * Div = 2 * Div + e * Div
      BY Sizes
    <2> QED
      BY <2>1, <2>2, Sizes DEF BitTime
  <1>3. Held \in Nat /\ Held >= DataBits /\ Held <= DataBits + 1
    BY Sizes DEF Held
  <1> HIDE DEF Held
  <1> DEFINE b == BitTime
  <1>4. b \in Nat /\ b = Rate * Div
    BY <1>1 DEF BitTime
  <1> HIDE DEF b
  <1>5. /\ Held * b \in Nat /\ StopBits * b \in Nat
        /\ (Held + StopBits) * b = Held * b + StopBits * b
    BY <1>3, <1>4, Sizes
  <1>6. StopBits * b >= b
    <2>1. PICK e \in Nat : StopBits = 1 + e
      <3>1. StopBits - 1 \in Nat /\ StopBits = 1 + (StopBits - 1)
        BY Sizes
      <3> QED
        BY <3>1, Zenon
    <2>2. e * b \in Nat /\ (1 + e) * b = b + e * b
      BY <1>4
    <2> QED
      BY <2>1, <2>2, <1>4
  <1>7. StopBits * b = StopTicks * Div
    BY <1>4, Sizes DEF StopTicks
  <1>8. /\ Held * b \in Nat /\ (Held + StopBits) * b \in Nat
        /\ (Held + StopBits) * b >= Held * b + b
        /\ (Held + StopBits) * b = Held * b + StopTicks * Div
    BY <1>4, <1>5, <1>6, <1>7, Sizes
  <1> QED
    BY <1>1, <1>2, <1>3, <1>8, Zenon DEF b, FrameTime

\* One cycle on, in the same tick, in the next tick and in the next bit.
LEMMA ElapsedStep ==
    ASSUME NEW b \in Int, NEW n \in Int, NEW c \in 0 .. Div - 1
    PROVE  /\ Elapsed(b, n, c) \in Int
           /\ c # Div - 1 => Elapsed(b, n, NextClk(c)) = Elapsed(b, n, c) + 1
           /\ c = Div - 1 => Elapsed(b, n + 1, NextClk(c)) = Elapsed(b, n, c) + 1
           /\ c = Div - 1 => Elapsed(b + 1, 0, NextClk(c)) = Elapsed(b, Rate - 1, c) + 1
  <1> DEFINE B == b * BitTime
             N == n * Div
  <1>1. /\ B \in Int /\ N \in Int /\ BitTime \in Int
        /\ (b + 1) * BitTime = B + BitTime
        /\ (n + 1) * Div = N + Div
        /\ (Rate - 1) * Div = BitTime - Div
    BY Sizes DEF BitTime
  <1>2. 0 * Div = 0
    BY Sizes
  <1>3. \A k : /\ Elapsed(b, n, k) = B + N + k
               /\ Elapsed(b, n + 1, k) = B + (N + Div) + k
               /\ Elapsed(b + 1, 0, k) = B + BitTime + 0 + k
               /\ Elapsed(b, Rate - 1, k) = B + (BitTime - Div) + k
    BY <1>1, <1>2, Zenon DEF Elapsed
  <1> HIDE DEF B, N
  <1>4. /\ B + N + c \in Int
        /\ c # Div - 1 => B + N + NextClk(c) = B + N + c + 1
        /\ c = Div - 1 => B + (N + Div) + NextClk(c) = B + N + c + 1
        /\ c = Div - 1 => B + BitTime + 0 + NextClk(c) = B + (BitTime - Div) + c + 1
    BY <1>1, Sizes DEF NextClk
  <1> QED
    <2>1. /\ Elapsed(b, n, c) = B + N + c
          /\ Elapsed(b, n, NextClk(c)) = B + N + NextClk(c)
          /\ Elapsed(b, n + 1, NextClk(c)) = B + (N + Div) + NextClk(c)
          /\ Elapsed(b + 1, 0, NextClk(c)) = B + BitTime + 0 + NextClk(c)
          /\ Elapsed(b, Rate - 1, c) = B + (BitTime - Div) + c
      BY <1>3, Zenon
    <2> QED
      BY <1>4, <2>1

\* The first n of m ticks of a bit.
LEMMA ElapsedIn ==
    ASSUME NEW b \in Int, NEW n \in Nat, NEW m \in Nat, n < m, NEW c \in 0 .. Div - 1
    PROVE  /\ b * BitTime \in Int /\ m * Div \in Nat
           /\ Elapsed(b, n, c) >= b * BitTime
           /\ Elapsed(b, n, c) < b * BitTime + m * Div
           /\ n = m - 1 /\ c = Div - 1 => Elapsed(b, n, c) = b * BitTime + m * Div - 1
  <1>1. PICK e \in Nat : m = n + 1 + e
    <2>1. m - n - 1 \in Nat /\ m = n + 1 + (m - n - 1)
      OBVIOUS
    <2> QED
      BY <2>1, Zenon
  <1>2. /\ b * BitTime \in Int /\ n * Div \in Nat /\ e * Div \in Nat /\ m * Div \in Nat
        /\ m * Div = n * Div + Div + e * Div
        /\ e = 0 => e * Div = 0
    BY <1>1, Sizes DEF BitTime
  <1> DEFINE B == b * BitTime
             N == n * Div
             E == e * Div
             M == m * Div
  <1>3. B \in Int /\ N \in Nat /\ E \in Nat /\ M = N + Div + E /\ (e = 0 => E = 0)
    BY <1>2
  <1>4. Elapsed(b, n, c) = B + N + c
    BY DEF Elapsed
  <1> HIDE DEF B, N, E, M
  <1>5. /\ B + N + c >= B
        /\ B + N + c < B + M
        /\ n = m - 1 /\ c = Div - 1 => B + N + c = B + M - 1
    BY <1>1, <1>3, Sizes
  <1> QED
    BY <1>2, <1>4, <1>5, Zenon DEF B, N, M

\* A bit of the frame, and its first tick.
LEMMA ElapsedBit ==
    ASSUME NEW b \in Int, NEW n \in Nat, n < Rate, NEW c \in 0 .. Div - 1
    PROVE  /\ b * BitTime \in Int /\ Elapsed(b, n, c) \in Int
           /\ Elapsed(b, n, c) >= b * BitTime
           /\ Elapsed(b, n, c) < b * BitTime + BitTime
           /\ n = 0 => Elapsed(b, n, c) < b * BitTime + Div
           /\ n = Rate - 1 /\ c = Div - 1 =>
                Elapsed(b, n, c) = b * BitTime + BitTime - 1
  <1>1. Rate \in Nat /\ 1 \in Nat
    BY Sizes
  <1>2. /\ b * BitTime \in Int
        /\ Elapsed(b, n, c) >= b * BitTime
        /\ Elapsed(b, n, c) < b * BitTime + Rate * Div
        /\ n = Rate - 1 /\ c = Div - 1 =>
             Elapsed(b, n, c) = b * BitTime + Rate * Div - 1
    BY <1>1, ElapsedIn, Zenon
  <1>3. ASSUME n = 0 PROVE Elapsed(b, n, c) < b * BitTime + 1 * Div
    <2>1. n < 1
      BY <1>3
    <2> QED
      BY <1>1, <2>1, ElapsedIn, Zenon
  <1>4. Rate * Div = BitTime /\ 1 * Div = Div
    BY Sizes DEF BitTime
  <1>5. Elapsed(b, n, c) \in Int
    BY ElapsedStep
  <1> QED
    BY <1>2, <1>3, <1>4, <1>5, Zenon

\* The start bit.
LEMMA ElapsedBefore ==
    ASSUME NEW n \in Nat, n < Rate, NEW c \in 0 .. Div - 1
    PROVE  /\ Elapsed(-1, n, c) \in Int
           /\ Elapsed(-1, n, c) >= -BitTime
           /\ Elapsed(-1, n, c) < 0
           /\ n = 0 => Elapsed(-1, n, c) < Div - BitTime
           /\ n = Rate - 1 /\ c = Div - 1 => Elapsed(-1, n, c) = -1
  <1>1. PICK b \in Int : b = -1
    OBVIOUS
  <1>2. /\ Elapsed(b, n, c) \in Int
        /\ Elapsed(b, n, c) >= b * BitTime
        /\ Elapsed(b, n, c) < b * BitTime + BitTime
        /\ n = 0 => Elapsed(b, n, c) < b * BitTime + Div
        /\ n = Rate - 1 /\ c = Div - 1 =>
             Elapsed(b, n, c) = b * BitTime + BitTime - 1
    BY ONLY b \in Int, n \in Nat, n < Rate, c \in 0 .. Div - 1, ElapsedBit, Zenon
  <1>3. BitTime \in Nat
    BY Sizes DEF BitTime
  <1>4. b * BitTime = -BitTime
    BY <1>1, <1>3
  <1>5. /\ Elapsed(b, n, c) \in Int
        /\ Elapsed(b, n, c) >= -BitTime
        /\ Elapsed(b, n, c) < 0
        /\ n = 0 => Elapsed(b, n, c) < Div - BitTime
        /\ n = Rate - 1 /\ c = Div - 1 => Elapsed(b, n, c) = -1
    BY <1>2, <1>3, <1>4, Sizes
  <1> QED
    BY <1>1, <1>5, Zenon

\* The stop bits.
LEMMA ElapsedStop ==
    ASSUME Typed, NEW n \in Nat, n < StopTicks, NEW c \in 0 .. Div - 1
    PROVE  /\ Elapsed(Held, n, c) \in Int
           /\ Elapsed(Held, n, c) >= Held * BitTime
           /\ Elapsed(Held, n, c) < FrameTime
           /\ n = StopTicks - 1 /\ c = Div - 1 => Elapsed(Held, n, c) = FrameTime - 1
  <1>1. StopTicks \in Nat /\ Held \in Int
    BY Sizes, Times
  <1> DEFINE e == Elapsed(Held, n, c)
             h == Held * BitTime
             w == StopTicks * Div
  <1>2. /\ e >= h
        /\ e < h + w
        /\ n = StopTicks - 1 /\ c = Div - 1 => e = h + w - 1
    BY ONLY <1>1, n \in Nat, n < StopTicks, c \in 0 .. Div - 1, ElapsedIn, Zenon
  <1>3. e \in Int
    BY <1>1, ElapsedStep
  <1>4. FrameTime = h + w /\ h \in Nat /\ w \in Nat
    BY Times, Sizes
  <1> HIDE DEF e, h, w
  <1>5. /\ e \in Int /\ e >= h /\ e < FrameTime
        /\ n = StopTicks - 1 /\ c = Div - 1 => e = FrameTime - 1
    BY <1>2, <1>3, <1>4
  <1> QED
    BY <1>5, Zenon DEF e, h

\* Later bits are later.
LEMMA LaterBit ==
    ASSUME NEW i \in Int, NEW j \in Int, i < j
    PROVE  i * BitTime + BitTime <= j * BitTime
  <1>1. PICK e \in Nat : j = i + 1 + e
    <2>1. j - i - 1 \in Nat /\ j = i + 1 + (j - i - 1)
      OBVIOUS
    <2> QED
      BY <2>1, Zenon
  <1>2. BitTime \in Nat
    BY Sizes DEF BitTime
  <1>3. /\ j * BitTime = i * BitTime + BitTime + e * BitTime
        /\ e * BitTime \in Nat /\ i * BitTime \in Int
    BY <1>1, <1>2
  <1> QED
    BY <1>2, <1>3

\* A cycle is of one bit only.
LEMMA OneBit ==
    ASSUME NEW i \in Int, NEW j \in Int, NEW x \in Int,
           i * BitTime <= x, x < i * BitTime + BitTime,
           j * BitTime <= x, x < j * BitTime + BitTime
    PROVE  i = j
  <1>0. BitTime \in Nat /\ i * BitTime \in Int /\ j * BitTime \in Int
    BY Sizes DEF BitTime
  <1>1. CASE i < j
    BY <1>0, <1>1, LaterBit
  <1>2. CASE j < i
    BY <1>0, <1>2, LaterBit
  <1> QED
    BY <1>1, <1>2

\* The cycle the transmitter has reached, by state.
LEMMA TxWhere ==
    ASSUME Typed
    PROVE  /\ TPos \in Int
           /\ tState = "IDLE" => TPos >= FrameTime
           /\ tState = "IDLE" /\ ~q_tx_done_tick => TPos = FrameTime + 1
           /\ tState # "IDLE" => TPos < FrameTime
           /\ tState = "START" => TPos >= -BitTime /\ TPos < 0
           /\ tState = "DATA" => /\ TPos >= tIdx * BitTime
                                 /\ TPos < tIdx * BitTime + BitTime
           /\ tState = "PARITY" => /\ TPos >= DataBits * BitTime
                                   /\ TPos < DataBits * BitTime + BitTime
           /\ tState = "STOP" => TPos >= Held * BitTime
  <1>1. /\ tClk \in 0 .. Div - 1 /\ tCnt \in Nat /\ tIdx \in Nat /\ tState \in States
        /\ mode \in 0 .. 2 /\ q_tx_done_tick \in BOOLEAN
        /\ tState \in {"START", "DATA", "PARITY"} => tCnt < Rate
        /\ tState = "STOP" => tCnt < StopTicks
        /\ tState = "DATA" => tIdx < DataBits
        /\ mode = 0 => tState # "PARITY"
    BY DEF Typed, Widths, Counters, Phases
  <1>2. /\ BitTime \in Nat /\ Held \in Nat /\ Held >= DataBits /\ Held * BitTime \in Nat
        /\ FrameTime \in Nat /\ FrameTime >= Held * BitTime + BitTime
        /\ FrameTime = Held * BitTime + StopTicks * Div
    BY Times
  <1>3. CASE tState = "IDLE"
    <2>1. TPos = IF q_tx_done_tick THEN FrameTime ELSE FrameTime + 1
      BY <1>3 DEF TPos
    <2> QED
      BY <1>1, <1>2, <1>3, <2>1
  <1>4. CASE tState = "START"
    <2>1. TPos = Elapsed(-1, tCnt, tClk)
      BY <1>4 DEF TPos, TBit
    <2>2. /\ Elapsed(-1, tCnt, tClk) >= -BitTime
          /\ Elapsed(-1, tCnt, tClk) < 0
          /\ Elapsed(-1, tCnt, tClk) \in Int
      BY <1>1, <1>4, ElapsedBefore
    <2> QED
      BY <1>1, <1>2, <1>4, <2>1, <2>2
  <1>5. CASE tState = "DATA"
    <2>1. TPos = Elapsed(tIdx, tCnt, tClk)
      BY <1>5 DEF TPos, TBit
    <2>2. /\ Elapsed(tIdx, tCnt, tClk) >= tIdx * BitTime
          /\ Elapsed(tIdx, tCnt, tClk) < tIdx * BitTime + BitTime
          /\ Elapsed(tIdx, tCnt, tClk) \in Int
          /\ tIdx * BitTime \in Int
      BY <1>1, <1>5, ElapsedBit
    <2>3. tIdx * BitTime + BitTime <= Held * BitTime
      BY <1>1, <1>2, <1>5, LaterBit, Sizes
    <2> QED
      BY <1>1, <1>2, <1>5, <2>1, <2>2, <2>3
  <1>6. CASE tState = "PARITY"
    <2>1. TPos = Elapsed(DataBits, tCnt, tClk)
      BY <1>6 DEF TPos, TBit
    <2>2. /\ Elapsed(DataBits, tCnt, tClk) >= DataBits * BitTime
          /\ Elapsed(DataBits, tCnt, tClk) < DataBits * BitTime + BitTime
          /\ Elapsed(DataBits, tCnt, tClk) \in Int
          /\ DataBits * BitTime \in Int
      BY <1>1, <1>6, ElapsedBit, Sizes
    <2>3. DataBits * BitTime + BitTime <= Held * BitTime
      <3>1. DataBits < Held
        BY <1>1, <1>6, Sizes DEF Held
      <3> QED
        BY <1>2, <3>1, LaterBit, Sizes
    <2> QED
      BY <1>1, <1>2, <1>6, <2>1, <2>2, <2>3
  <1>7. CASE tState = "STOP"
    <2>1. TPos = Elapsed(Held, tCnt, tClk)
      BY <1>7 DEF TPos, TBit
    <2>2. /\ Elapsed(Held, tCnt, tClk) >= Held * BitTime
          /\ Elapsed(Held, tCnt, tClk) < FrameTime
          /\ Elapsed(Held, tCnt, tClk) \in Int
      BY <1>1, <1>7, ElapsedStop
    <2> QED
      BY <1>1, <1>2, <1>7, <2>1, <2>2
  <1> QED
    BY <1>1, <1>3, <1>4, <1>5, <1>6, <1>7 DEF States

\* A frame under way moves on by a cycle; a new one starts before its start
\* bit.
LEMMA TxMoves ==
    ASSUME Typed, TxEdge
    PROVE  /\ tState # "IDLE" => TPos' = TPos + 1
           /\ tState = "IDLE" /\ tState' = "IDLE" =>
                 TPos' = FrameTime + 1 /\ ~q_tx_done_tick'
           /\ tState = "IDLE" /\ tState' # "IDLE" =>
                 /\ tState' = "START" /\ ~q_tx_done_tick' /\ TPos' \in Int
                 /\ TPos' >= -BitTime /\ TPos' < Div - BitTime
  <1> DEFINE tick == tClk = Div - 1
             count == IF tick THEN tCnt + 1 ELSE tCnt
             over == tick /\ tCnt = Rate - 1
             stop == tick /\ tCnt = StopTicks - 1
             start == ~q_empty /\ ~q_tx_done_tick
  <1>1. /\ tClk \in 0 .. Div - 1 /\ tCnt \in Nat /\ tIdx \in Nat /\ tState \in States
        /\ mode \in 0 .. 2 /\ q_tx_done_tick \in BOOLEAN
        /\ tState \in {"START", "DATA", "PARITY"} => tCnt < Rate
        /\ tState = "STOP" => tCnt < StopTicks
        /\ tState = "DATA" => tIdx < DataBits
        /\ mode = 0 => tState # "PARITY"
    BY DEF Typed, Widths, Counters, Phases
  <1>2. /\ BitTime \in Nat /\ Held \in Nat /\ Held >= DataBits /\ Held * BitTime \in Nat
        /\ FrameTime \in Nat /\ FrameTime >= Held * BitTime + BitTime
        /\ FrameTime = Held * BitTime + StopTicks * Div
    BY Times
  <1>3. /\ tClk' = NextClk(tClk) /\ tClk' \in 0 .. Div - 1
        /\ mode' = mode /\ Held' = Held /\ FrameTime' = FrameTime
    <2>1. mode' = mode
      BY DEF TxEdge
    <2> QED
      BY <1>1, <2>1, TxShape, ClkType DEF Held, FrameTime
  <1>4. /\ tick => tCnt + 1 = count
        /\ ~tick => tCnt = count
    OBVIOUS
  <1>5. ASSUME NEW b \in Int
        PROVE  /\ Elapsed(b, count, tClk') = Elapsed(b, tCnt, tClk) + 1
               /\ tick => Elapsed(b + 1, 0, tClk') = Elapsed(b, Rate - 1, tClk) + 1
    <2>1. /\ ~tick => Elapsed(b, tCnt, NextClk(tClk)) = Elapsed(b, tCnt, tClk) + 1
          /\ tick => Elapsed(b, tCnt + 1, NextClk(tClk)) = Elapsed(b, tCnt, tClk) + 1
          /\ tick => Elapsed(b + 1, 0, NextClk(tClk)) = Elapsed(b, Rate - 1, tClk) + 1
      <3>1. tCnt \in Int /\ tClk \in 0 .. Div - 1
        BY <1>1
      <3> QED
        BY ONLY b \in Int, <3>1, ElapsedStep, Zenon
    <2> QED
      BY <1>3, <1>4, <2>1, Zenon
  <1>6. CASE tState = "IDLE"
    <2>1. /\ ~q_tx_done_tick'
          /\ tState' = IF start THEN "START" ELSE "IDLE"
          /\ start => tCnt' = 0
      BY <1>6, TxShape, Zenon
    <2>2. CASE start
      <3>1. TPos' = Elapsed(-1, 0, tClk')
        BY <2>1, <2>2 DEF TPos, TBit
      <3>2. /\ Elapsed(-1, 0, tClk') \in Int
            /\ Elapsed(-1, 0, tClk') >= -BitTime /\ Elapsed(-1, 0, tClk') < Div - BitTime
        BY <1>3, ElapsedBefore, Sizes
      <3> QED
        BY <1>6, <2>1, <2>2, <3>1, <3>2
    <2>3. CASE ~start
      BY <1>3, <1>6, <2>1, <2>3 DEF TPos
    <2> QED
      BY <2>2, <2>3
  <1>7. CASE tState = "START"
    <2>1. /\ ~q_tx_done_tick'
          /\ tState' = IF over THEN "DATA" ELSE "START"
          /\ tCnt' = IF over THEN 0 ELSE count
          /\ tIdx' = IF over THEN 0 ELSE tIdx
      BY <1>7, TxShape, Zenon
    <2>2. TPos = Elapsed(-1, tCnt, tClk)
      BY <1>7 DEF TPos, TBit
    <2>3. CASE over
      <3>1. TPos' = Elapsed(-1 + 1, 0, tClk')
        BY <2>1, <2>3 DEF TPos, TBit
      <3> QED
        BY <1>5, <1>7, <2>2, <2>3, <3>1
    <2>4. CASE ~over
      <3>1. TPos' = Elapsed(-1, count, tClk')
        BY <2>1, <2>4 DEF TPos, TBit
      <3> QED
        BY <1>5, <1>7, <2>2, <3>1
    <2> QED
      BY <2>3, <2>4
  <1>8. CASE tState = "DATA"
    <2>1. /\ ~q_tx_done_tick'
          /\ tState' = IF over /\ tIdx = DataBits - 1 THEN AfterData ELSE "DATA"
          /\ tCnt' = IF over THEN 0 ELSE count
          /\ tIdx' = IF over THEN (tIdx + 1) % 8 ELSE tIdx
      BY <1>8, TxShape, Zenon
    <2>2. TPos = Elapsed(tIdx, tCnt, tClk)
      BY <1>8 DEF TPos, TBit
    <2>3. CASE over
      <3>1. TPos' = Elapsed(tIdx + 1, 0, tClk')
        <4>1. CASE tIdx = DataBits - 1
          <5>1. tState' = AfterData /\ tCnt' = 0 /\ tIdx + 1 = DataBits
            BY <2>1, <2>3, <4>1, Sizes
          <5>2. CASE mode = 0
            <6>1. Held = DataBits
              BY <5>2, Sizes DEF Held
            <6> QED
              BY <1>3, <5>1, <5>2, <6>1 DEF TPos, TBit, AfterData
          <5>3. CASE mode # 0
            BY <1>3, <5>1, <5>3 DEF TPos, TBit, AfterData
          <5> QED
            BY <5>2, <5>3
        <4>2. CASE tIdx # DataBits - 1
          <5>1. (tIdx + 1) % 8 = tIdx + 1
            BY <1>1, <1>8, <4>2, Sizes
          <5> QED
            BY <2>1, <2>3, <4>2, <5>1 DEF TPos, TBit
        <4> QED
          BY <4>1, <4>2
      <3> QED
        BY <1>1, <1>5, <1>8, <2>2, <2>3, <3>1
    <2>4. CASE ~over
      <3>1. TPos' = Elapsed(tIdx, count, tClk')
        BY <2>1, <2>4 DEF TPos, TBit
      <3> QED
        BY <1>1, <1>5, <1>8, <2>2, <3>1
    <2> QED
      BY <2>3, <2>4
  <1>9. CASE tState = "PARITY"
    <2>1. /\ ~q_tx_done_tick'
          /\ tState' = IF over THEN "STOP" ELSE "PARITY"
          /\ tCnt' = IF over THEN 0 ELSE count
      BY <1>9, TxShape, Zenon
    <2>2. TPos = Elapsed(DataBits, tCnt, tClk)
      BY <1>9 DEF TPos, TBit
    <2>3. CASE over
      <3>1. Held = DataBits + 1
        BY <1>1, <1>9 DEF Held
      <3>2. TPos' = Elapsed(DataBits + 1, 0, tClk')
        BY <1>3, <2>1, <2>3, <3>1 DEF TPos, TBit
      <3> QED
        BY <1>5, <1>9, <2>2, <2>3, <3>2, Sizes
    <2>4. CASE ~over
      <3>1. TPos' = Elapsed(DataBits, count, tClk')
        BY <2>1, <2>4 DEF TPos, TBit
      <3> QED
        BY <1>5, <1>9, <2>2, <3>1, Sizes
    <2> QED
      BY <2>3, <2>4
  <1>10. CASE tState = "STOP"
    <2>1. /\ q_tx_done_tick' <=> stop
          /\ tState' = IF stop THEN "IDLE" ELSE "STOP"
          /\ stop \/ tCnt' = count
      BY <1>10, TxShape, Zenon
    <2>2. TPos = Elapsed(Held, tCnt, tClk)
      BY <1>10 DEF TPos, TBit
    <2>3. CASE stop
      <3>1. TPos' = FrameTime
        BY <1>3, <2>1, <2>3 DEF TPos
      <3>2. Elapsed(Held, tCnt, tClk) = FrameTime - 1
        BY <1>1, <1>10, <2>3, ElapsedStop
      <3> QED
        BY <1>2, <1>10, <2>2, <3>1, <3>2
    <2>4. CASE ~stop
      <3>1. TPos' = Elapsed(Held, count, tClk')
        BY <1>3, <2>1, <2>4 DEF TPos, TBit
      <3> QED
        BY <1>2, <1>5, <1>10, <2>2, <3>1
    <2> QED
      BY <2>3, <2>4
  <1> QED
    BY <1>1, <1>6, <1>7, <1>8, <1>9, <1>10 DEF States

\* The cycle the receiver has reached, by state.
LEMMA RxWhere ==
    ASSUME Typed, rState # "IDLE"
    PROVE  /\ RPos \in Int /\ RPos < FrameTime
           /\ rState = "START" => RPos < 0
           /\ rState = "DATA" => RPos < DataBits * BitTime
           /\ rState = "PARITY" => RPos < Held * BitTime
           /\ rState = "STOP" => RPos >= Held * BitTime
  <1>1. /\ rClk \in 0 .. Div - 1 /\ rCnt \in Nat /\ rIdx \in Nat /\ rState \in States
        /\ mode \in 0 .. 2
        /\ rState = "START" => rCnt <= Half
        /\ rState \in {"DATA", "PARITY"} => rCnt < Rate
        /\ rState = "STOP" => rCnt < StopTicks
        /\ rState = "DATA" => rIdx < DataBits
        /\ mode = 0 => rState # "PARITY"
    BY DEF Typed, Widths, Counters, Phases
  <1>2. /\ BitTime \in Nat /\ Held \in Nat /\ Held >= DataBits /\ Held * BitTime \in Nat
        /\ FrameTime \in Nat /\ FrameTime >= Held * BitTime + BitTime
    BY Times
  <1>3. DataBits * BitTime \in Nat /\ DataBits * BitTime <= Held * BitTime
    <2>1. DataBits * BitTime \in Nat
      BY <1>2, Sizes
    <2>2. CASE DataBits < Held
      BY <1>2, <2>1, <2>2, LaterBit, Sizes
    <2>3. CASE DataBits = Held
      BY <1>2, <2>3
    <2> QED
      BY <1>2, <2>1, <2>2, <2>3, Sizes
  <1>4. CASE rState = "START"
    <2> DEFINE n == rCnt - (Half + 1)
    <2>1. PICK k \in Nat : n = -1 - k
      <3>1. -1 - n \in Nat /\ n = -1 - (-1 - n)
        BY <1>1, <1>4, Sizes
      <3> QED
        BY <3>1, Zenon
    <2>2. RPos = 0 * BitTime + n * Div + rClk
      BY <1>4 DEF RPos, Elapsed
    <2> HIDE DEF n
    <2>3. k * Div \in Nat /\ n * Div = -Div - k * Div /\ 0 * BitTime = 0
      BY <1>2, <2>1, Sizes
    <2>4. RPos \in Int /\ RPos < 0
      BY <1>1, <2>2, <2>3, Sizes
    <2> QED
      BY <1>2, <1>4, <2>4
  <1>5. CASE rState = "DATA"
    <2>1. RPos = Elapsed(rIdx, rCnt, rClk)
      BY <1>5 DEF RPos, RBit
    <2>2. /\ Elapsed(rIdx, rCnt, rClk) < rIdx * BitTime + BitTime
          /\ Elapsed(rIdx, rCnt, rClk) \in Int
          /\ rIdx * BitTime \in Int
      BY <1>1, <1>5, ElapsedBit
    <2>3. rIdx * BitTime + BitTime <= DataBits * BitTime
      BY <1>1, <1>5, LaterBit, Sizes
    <2> QED
      BY <1>2, <1>3, <1>5, <2>1, <2>2, <2>3
  <1>6. CASE rState = "PARITY"
    <2>1. RPos = Elapsed(DataBits, rCnt, rClk)
      BY <1>6 DEF RPos, RBit
    <2>2. /\ Elapsed(DataBits, rCnt, rClk) < DataBits * BitTime + BitTime
          /\ Elapsed(DataBits, rCnt, rClk) \in Int
      BY <1>1, <1>6, ElapsedBit, Sizes
    <2>3. DataBits * BitTime + BitTime <= Held * BitTime
      <3>1. DataBits < Held
        BY <1>1, <1>6, Sizes DEF Held
      <3> QED
        BY <1>2, <3>1, LaterBit, Sizes
    <2> QED
      BY <1>2, <1>3, <1>6, <2>1, <2>2, <2>3
  <1>7. CASE rState = "STOP"
    <2>1. RPos = Elapsed(Held, rCnt, rClk)
      BY <1>7 DEF RPos, RBit
    <2>2. /\ Elapsed(Held, rCnt, rClk) >= Held * BitTime
          /\ Elapsed(Held, rCnt, rClk) < FrameTime
          /\ Elapsed(Held, rCnt, rClk) \in Int
      BY <1>1, <1>7, ElapsedStop
    <2> QED
      BY <1>7, <2>1, <2>2
  <1> QED
    BY <1>1, <1>4, <1>5, <1>6, <1>7 DEF States

\* The cycle a tick of the receiver ends a bit, and with it the frame.
LEMMA RxEnds ==
    ASSUME Typed, rClk = Div - 1
    PROVE  /\ rState = "DATA" /\ rCnt = Rate - 1 => RPos = rIdx * BitTime + BitTime - 1
           /\ rState = "PARITY" /\ rCnt = Rate - 1 => RPos = DataBits * BitTime + BitTime - 1
           /\ rState = "STOP" /\ rCnt = StopTicks - 1 => RPos = FrameTime - 1
  <1>1. rClk \in 0 .. Div - 1 /\ rCnt \in Nat /\ rIdx \in Nat /\ DataBits \in Nat
    BY Sizes DEF Typed, Widths
  <1>2. ASSUME NEW b \in Nat, rCnt = Rate - 1
        PROVE  Elapsed(b, rCnt, rClk) = b * BitTime + BitTime - 1
    BY <1>1, <1>2, ElapsedBit, Sizes
  <1>3. ASSUME rState = "DATA", rCnt = Rate - 1 PROVE RPos = rIdx * BitTime + BitTime - 1
    <2>1. RPos = Elapsed(rIdx, rCnt, rClk)
      BY <1>3 DEF RPos, RBit
    <2> QED
      BY <1>1, <1>2, <1>3, <2>1, Zenon
  <1>4. ASSUME rState = "PARITY", rCnt = Rate - 1 PROVE RPos = DataBits * BitTime + BitTime - 1
    <2>1. RPos = Elapsed(DataBits, rCnt, rClk)
      BY <1>4 DEF RPos, RBit
    <2> QED
      BY <1>1, <1>2, <1>4, <2>1, Zenon
  <1>5. ASSUME rState = "STOP", rCnt = StopTicks - 1 PROVE RPos = FrameTime - 1
    <2>1. RPos = Elapsed(Held, rCnt, rClk)
      BY <1>5 DEF RPos, RBit
    <2> QED
      BY <1>1, <1>5, <2>1, ElapsedStop, Sizes
  <1> QED
    BY <1>3, <1>4, <1>5

\* A frame being received moves on by a cycle; a new one starts within a tick
\* of half a bit and a tick before the end of the start bit.
LEMMA RxMoves ==
    ASSUME Typed, RxEdge
    PROVE  /\ rState # "IDLE" /\ rState' # "IDLE" => RPos' = RPos + 1
           /\ rState # "IDLE" /\ rState' = "IDLE" =>
                 rState = "STOP" /\ RPos = FrameTime - 1 /\ q_done_tick'
           /\ rState = "IDLE" => /\ ~q_done_tick'
                                 /\ rState' = IF q_rx = 0 THEN "START" ELSE "IDLE"
           /\ rState = "IDLE" /\ q_rx = 0 =>
                 /\ RPos' \in Int
                 /\ RPos' >= -HalfTime - Div
                 /\ RPos' < -HalfTime
  <1> DEFINE tick == rClk = Div - 1
             count == IF tick THEN rCnt + 1 ELSE rCnt
             half == tick /\ rCnt = Half
             over == tick /\ rCnt = Rate - 1
             stop == tick /\ rCnt = StopTicks - 1
  <1>1. /\ rClk \in 0 .. Div - 1 /\ rCnt \in Nat /\ rIdx \in Nat /\ rState \in States
        /\ mode \in 0 .. 2
        /\ rState = "START" => rCnt <= Half
        /\ rState \in {"DATA", "PARITY"} => rCnt < Rate
        /\ rState = "STOP" => rCnt < StopTicks
        /\ rState = "DATA" => rIdx < DataBits
        /\ mode = 0 => rState # "PARITY"
    BY DEF Typed, Widths, Counters, Phases
  <1>2. /\ BitTime \in Nat /\ HalfTime \in Nat /\ Held \in Nat
    BY Times
  <1>3. /\ rClk' = NextClk(rClk) /\ rClk' \in 0 .. Div - 1
        /\ mode' = mode /\ Held' = Held
    <2>1. mode' = mode
      BY DEF RxEdge
    <2> QED
      BY <1>1, <2>1, RxShape, ClkType DEF Held
  <1>4. /\ tick => rCnt + 1 = count
        /\ ~tick => rCnt = count
    OBVIOUS
  <1>5. ASSUME NEW b \in Int, NEW n \in Int
        PROVE  /\ ~tick => Elapsed(b, n, rClk') = Elapsed(b, n, rClk) + 1
               /\ tick => Elapsed(b, n + 1, rClk') = Elapsed(b, n, rClk) + 1
               /\ tick => Elapsed(b + 1, 0, rClk') = Elapsed(b, Rate - 1, rClk) + 1
    <2>1. /\ ~tick => Elapsed(b, n, NextClk(rClk)) = Elapsed(b, n, rClk) + 1
          /\ tick => Elapsed(b, n + 1, NextClk(rClk)) = Elapsed(b, n, rClk) + 1
          /\ tick => Elapsed(b + 1, 0, NextClk(rClk)) = Elapsed(b, Rate - 1, rClk) + 1
      <3>1. rClk \in 0 .. Div - 1
        BY <1>1
      <3> QED
        BY ONLY b \in Int, n \in Int, <3>1, ElapsedStep, Zenon
    <2> QED
      BY <1>3, <2>1, Zenon
  <1>6. ASSUME NEW b \in Int
        PROVE  /\ Elapsed(b, count, rClk') = Elapsed(b, rCnt, rClk) + 1
               /\ tick => Elapsed(b + 1, 0, rClk') = Elapsed(b, Rate - 1, rClk) + 1
    <2>1. rCnt \in Int
      BY <1>1
    <2> QED
      BY <1>4, <1>5, <2>1, Zenon
  <1>7. CASE rState = "IDLE"
    <2>1. /\ ~q_done_tick'
          /\ rState' = IF q_rx = 0 THEN "START" ELSE "IDLE"
          /\ q_rx = 0 => rCnt' = 0
      BY <1>7, RxShape, Zenon
    <2>2. ASSUME q_rx = 0
          PROVE  RPos' \in Int /\ RPos' >= -HalfTime - Div /\ RPos' < -HalfTime
      <3>1. RPos' = 0 * BitTime + (0 - (Half + 1)) * Div + rClk'
        BY <2>1, <2>2 DEF RPos, Elapsed
      <3>2. /\ 0 * BitTime = 0
            /\ (0 - (Half + 1)) * Div = -HalfTime - Div
        BY <1>2, Sizes DEF HalfTime
      <3> QED
        BY <1>2, <1>3, <3>1, <3>2, Sizes
    <2> QED
      BY <1>7, <2>1, <2>2
  <1>8. CASE rState = "START"
    <2>1. /\ rState' = IF half THEN "DATA" ELSE "START"
          /\ rCnt' = IF half THEN 0 ELSE count
          /\ rIdx' = IF half THEN 0 ELSE rIdx
      BY <1>8, RxShape, Zenon
    <2>2. RPos = Elapsed(0, rCnt - (Half + 1), rClk)
      BY <1>8 DEF RPos
    <2>3. CASE half
      <3>1. RPos' = Elapsed(0, 0, rClk')
        BY <2>1, <2>3 DEF RPos, RBit
      <3>2. RPos = Elapsed(0, -1, rClk)
        <4>1. rCnt - (Half + 1) = -1
          BY <2>3, Sizes
        <4> QED
          BY <2>2, <4>1, Zenon
      <3>3. PICK m \in Int : m = -1
        OBVIOUS
      <3>4. Elapsed(0, m + 1, rClk') = Elapsed(0, m, rClk) + 1
        BY <1>5, <2>3
      <3>5. m + 1 = 0
        BY <3>3
      <3>6. RPos' = RPos + 1
        BY <3>1, <3>2, <3>3, <3>4, <3>5, Zenon
      <3> QED
        BY <1>8, <2>1, <2>3, <3>6
    <2>4. CASE ~half
      <3> DEFINE n == rCnt - (Half + 1)
      <3>1. RPos' = Elapsed(0, count - (Half + 1), rClk')
        BY <2>1, <2>4 DEF RPos
      <3>2. n \in Int /\ (tick => count - (Half + 1) = n + 1) /\ (~tick => count - (Half + 1) = n)
        BY <1>1, Sizes
      <3>3. RPos' = RPos + 1
        <4>1. 0 \in Int
          OBVIOUS
        <4>2. CASE tick
          <5>1. Elapsed(0, n + 1, rClk') = Elapsed(0, n, rClk) + 1
            BY ONLY <1>5, <3>2, <4>1, <4>2, Zenon
          <5> QED
            BY <2>2, <3>1, <3>2, <4>2, <5>1, Zenon
        <4>3. CASE ~tick
          <5>1. Elapsed(0, n, rClk') = Elapsed(0, n, rClk) + 1
            BY ONLY <1>5, <3>2, <4>1, <4>3, Zenon
          <5> QED
            BY <2>2, <3>1, <3>2, <4>3, <5>1, Zenon
        <4> QED
          BY <4>2, <4>3, Zenon
      <3> QED
        BY <1>8, <2>1, <2>4, <3>3
    <2> QED
      BY <2>3, <2>4
  <1>9. CASE rState = "DATA"
    <2>1. /\ rState' = IF over /\ rIdx = DataBits - 1 THEN AfterData ELSE "DATA"
          /\ rCnt' = IF over THEN 0 ELSE count
          /\ rIdx' = IF over /\ rIdx # DataBits - 1 THEN (rIdx + 1) % 8 ELSE rIdx
      BY <1>9, RxShape, Zenon
    <2>2. RPos = Elapsed(rIdx, rCnt, rClk)
      BY <1>9 DEF RPos, RBit
    <2>3. CASE over
      <3>1. RPos' = Elapsed(rIdx + 1, 0, rClk') /\ rState' # "IDLE"
        <4>1. CASE rIdx = DataBits - 1
          <5>1. rState' = AfterData /\ rCnt' = 0 /\ rIdx + 1 = DataBits
            BY <2>1, <2>3, <4>1, Sizes
          <5>2. CASE mode = 0
            <6>1. Held = DataBits
              BY <5>2, Sizes DEF Held
            <6> QED
              BY <1>3, <5>1, <5>2, <6>1 DEF RPos, RBit, AfterData
          <5>3. CASE mode # 0
            BY <1>3, <5>1, <5>3 DEF RPos, RBit, AfterData
          <5> QED
            BY <5>2, <5>3
        <4>2. CASE rIdx # DataBits - 1
          <5>1. (rIdx + 1) % 8 = rIdx + 1
            BY <1>1, <1>9, <4>2, Sizes
          <5> QED
            BY <2>1, <2>3, <4>2, <5>1 DEF RPos, RBit
        <4> QED
          BY <4>1, <4>2
      <3> QED
        BY <1>1, <1>6, <1>9, <2>2, <2>3, <3>1
    <2>4. CASE ~over
      <3>1. RPos' = Elapsed(rIdx, count, rClk') /\ rState' # "IDLE"
        BY <2>1, <2>4 DEF RPos, RBit
      <3> QED
        BY <1>1, <1>6, <1>9, <2>2, <3>1
    <2> QED
      BY <2>3, <2>4
  <1>10. CASE rState = "PARITY"
    <2>1. /\ rState' = IF over THEN "STOP" ELSE "PARITY"
          /\ rCnt' = IF over THEN 0 ELSE count
      BY <1>10, RxShape, Zenon
    <2>2. RPos = Elapsed(DataBits, rCnt, rClk)
      BY <1>10 DEF RPos, RBit
    <2>3. CASE over
      <3>1. Held = DataBits + 1
        BY <1>1, <1>10 DEF Held
      <3>2. RPos' = Elapsed(DataBits + 1, 0, rClk') /\ rState' # "IDLE"
        BY <1>3, <2>1, <2>3, <3>1 DEF RPos, RBit
      <3> QED
        BY <1>6, <1>10, <2>2, <2>3, <3>2, Sizes
    <2>4. CASE ~over
      <3>1. RPos' = Elapsed(DataBits, count, rClk') /\ rState' # "IDLE"
        BY <2>1, <2>4 DEF RPos, RBit
      <3> QED
        BY <1>6, <1>10, <2>2, <3>1, Sizes
    <2> QED
      BY <2>3, <2>4
  <1>11. CASE rState = "STOP"
    <2>1. /\ q_done_tick' <=> stop
          /\ rState' = IF stop THEN "IDLE" ELSE "STOP"
          /\ stop \/ rCnt' = count
      BY <1>11, RxShape, Zenon
    <2>2. RPos = Elapsed(Held, rCnt, rClk)
      BY <1>11 DEF RPos, RBit
    <2>3. CASE stop
      BY <1>11, <2>1, <2>3, RxEnds
    <2>4. CASE ~stop
      <3>1. RPos' = Elapsed(Held, count, rClk')
        BY <1>3, <2>1, <2>4 DEF RPos, RBit
      <3> QED
        BY <1>2, <1>6, <1>11, <2>1, <2>2, <2>4, <3>1
    <2> QED
      BY <2>3, <2>4
  <1> QED
    BY <1>1, <1>7, <1>8, <1>9, <1>10, <1>11 DEF States

-----------------------------------------------------------------------------
(* The inductive invariant.                                                *)

\* A byte is on its way on this side.
TBusy == tState # "IDLE" \/ q_tx_done_tick
RBusy == rState # "IDLE" \/ q_done_tick

\* Bytes that have left the buffer; bytes whose frames each side has begun.
Popped == Len(sent) - TxFifo!Count
TFrames == Popped + (IF TBusy THEN 1 ELSE 0)
RFrames == Len(got) + (IF RBusy THEN 1 ELSE 0)

\* Bit i of the frame of a byte in mode m, the parity after the data.
Parity(m, d) == IF m = 1 THEN 1 - Xor(d) ELSE 1 - d[1]
Symbol(m, d, i) == IF i < DataBits THEN d[i + 1] ELSE Parity(m, d)

\* The drift that frames of any bytes stand: half a bit, less the two ticks
\* and the cycles that the start bit is seen and sampled late by.
Tolerable ==
    /\ Skew <= HalfTime
    /\ 3 * Skew + HalfTime + 2 * Div <= BitTime + 2

\* The buffer holds the last bytes sent, and shows the one being sent.
Buffer ==
    /\ TxFifo!Count <= Len(sent)
    /\ \A i \in 1 .. TxFifo!Count : TxFifo!Contents[i] = sent[Popped + i]
    /\ TBusy => ~q_empty

\* What the transmitter has still to send of its byte.
TxByte ==
    /\ tState = "START" => tData = sent[TFrames]
    /\ tState = "DATA" =>
         \A j \in 1 .. DataBits - tIdx : tData[j] = sent[TFrames][j + tIdx]
    /\ tState \in {"START", "DATA", "PARITY"} /\ mode # 0 =>
         tParity = Parity(mode, sent[TFrames])

\* Each bit is on the line for its time, and then the line rests.
LineRight ==
    /\ TBusy => \A i \in 0 .. Held - 1 :
         TPos > i * BitTime /\ TPos <= i * BitTime + BitTime =>
             q_tx = Symbol(mode, sent[TFrames], i)
    /\ TPos > Held * BitTime => q_tx = 1

\* While it receives, the receiver is where the transmitter is, to within what
\* it saw the start bit late by.
Locked == rState # "IDLE" =>
    /\ TPos - RPos - ahead >= HalfTime + 2 - BitTime
    /\ TPos - RPos - ahead <= HalfTime + 2 * Div + 2 * Skew - BitTime

\* An idle receiver sees a start bit soon.
Approach == rState = "IDLE" =>
    /\ tState \in {"START", "STOP", "IDLE"}
    /\ tState # "START" => q_tx = 1 /\ q_rx = 1
    /\ tState = "START" /\ q_tx = 1 => q_rx = 1 /\ TPos < Div - BitTime
    /\ tState = "START" /\ q_tx = 0 =>
         /\ TPos > -BitTime
         /\ TPos < Div - BitTime + ahead + Skew + (1 - q_rx)

\* Both sides are in the same frame, but for the start bit not yet seen.
FrameCount ==
    TFrames = RFrames + IF rState = "IDLE" /\ tState = "START" THEN 1 ELSE 0

\* The receiver takes each bit while it is on the line.
SampleRight ==
    rState # "IDLE" => \A i \in 0 .. Held - 1 :
        RPos = i * BitTime + BitTime - 1 => q_rx = Symbol(mode, sent[RFrames], i)

\* What the receiver has got of its byte.
RxByte ==
    /\ rState = "DATA" =>
         \A j \in 1 .. rIdx : rData[DataBits - rIdx + j] = sent[RFrames][j]
    /\ rState \in {"PARITY", "STOP"} \/ q_done_tick => rData = sent[RFrames]

\* The bytes received are the first ones sent.
Arrived == \A n \in 1 .. Len(got) : got[n] = sent[n]

Line == /\ Buffer /\ TxByte /\ LineRight /\ Locked /\ Approach /\ FrameCount
        /\ SampleRight /\ RxByte /\ Arrived /\ ParityClean

-----------------------------------------------------------------------------
(* Counting frames.                                                        *)

\* The types the counting needs.
LEMMA Counts ==
    ASSUME Typed
    PROVE  /\ TxFifo!Count \in Nat /\ Len(sent) \in Nat /\ Len(got) \in Nat
           /\ Popped \in Int /\ TFrames \in Int /\ RFrames \in Nat
           /\ ~q_empty => TxFifo!Count >= 1
           /\ Buffer => TFrames <= Len(sent) /\ TFrames >= 0 /\ Popped >= 0
  <1>1. FP!DepthAssumption
    BY UartAssumption DEF FP!DepthAssumption
  <1>2. FP!Count = TxFifo!Count
    BY Zenon DEF FP!Count, FP!Minus, TxFifo!Count, TxFifo!Minus
  <1>3. FP!IInv
    BY <1>2, Zenon DEF Typed, Widths, FP!IInv, FP!TypeOK, FP!FlagsSafe, FP!Ptr,
                       TxFifo!TypeOK, TxFifo!FlagsSafe, TxFifo!Ptr
  <1>4. TxFifo!Count \in 0 .. TxDepth
    BY <1>1, <1>2, <1>3, FP!ContentsType
  <1>5. TxFifo!Count \in Nat
    BY <1>4, UartAssumption
  <1>6. Len(sent) \in Nat /\ Len(got) \in Nat
    BY LenProperties DEF Typed, Widths
  <1>7. ~q_empty => TxFifo!Count # 0
    BY DEF Typed, TxFifo!FlagsSafe
  <1>8. Popped \in Int /\ TFrames \in Int /\ RFrames \in Nat
    BY <1>5, <1>6 DEF Popped, TFrames, RFrames
  <1>9. Buffer => TFrames <= Len(sent) /\ TFrames >= 0 /\ Popped >= 0
    BY <1>5, <1>6, <1>7 DEF Buffer, Popped, TFrames
  <1> QED
    BY <1>5, <1>6, <1>7, <1>8, <1>9

\* An edge of the transmitting board begins the frame of the next byte or
\* none, and the bytes sent stay as they are.
LEMMA TxFrames ==
    ASSUME Typed, Buffer, TxEdge
    PROVE  /\ Buffer'
           /\ TFrames' = TFrames + IF tState = "IDLE" /\ tState' # "IDLE" THEN 1 ELSE 0
           /\ Len(sent') \in Nat /\ Len(sent') >= Len(sent)
           /\ \A n \in 1 .. Len(sent) : sent'[n] = sent[n]
           /\ tState = "IDLE" /\ tState' # "IDLE" =>
                /\ tData' = sent'[TFrames']
                /\ mode # 0 => tParity' = Parity(mode, sent'[TFrames'])
  <1> DEFINE k == IF q_tx_done_tick /\ ~q_empty THEN 1 ELSE 0
             c == TxFifo!Count
             l == Len(sent)
             start == ~q_empty /\ ~q_tx_done_tick
  <1>1. PICK w \in BOOLEAN, b \in Byte :
             /\ sent' = IF w THEN Append(sent, b) ELSE sent
             /\ c' = c + (IF w THEN 1 ELSE 0) - k
             /\ \A i \in 1 .. c' :
                   TxFifo!Contents'[i] = IF i <= c - k THEN TxFifo!Contents[i + k] ELSE b
             /\ k = 1 => c > 0
             /\ ~q_empty /\ ~q_tx_done_tick => ~q_empty'
    BY BufferStep, Zenon
  <1>2. /\ c \in Nat /\ l \in Nat /\ c <= l /\ (~q_empty => c >= 1)
        /\ \A i \in 1 .. c : TxFifo!Contents[i] = sent[Popped + i]
        /\ TBusy => ~q_empty
        /\ Popped = l - c /\ Popped \in Nat
    BY Counts DEF Buffer, Popped
  <1>3. /\ sent \in Seq(Byte) /\ q_tx_done_tick \in BOOLEAN /\ q_empty \in BOOLEAN
        /\ tState \in States
        /\ q_tx_done_tick => tState = "IDLE"
    BY DEF Typed, Widths, Counters, Phases, TxFifo!TypeOK
  <1>10. k \in {0, 1} /\ (k = 1 <=> q_tx_done_tick /\ ~q_empty)
    BY <1>3
  <1> HIDE DEF k
  <1>4. /\ Len(sent') = l + (IF w THEN 1 ELSE 0)
        /\ \A n \in 1 .. l : sent'[n] = sent[n]
        /\ w => sent'[l + 1] = b
    <2>1. /\ Len(Append(sent, b)) = l + 1
          /\ \A n \in 1 .. l : Append(sent, b)[n] = sent[n]
          /\ Append(sent, b)[l + 1] = b
      BY <1>3, AppendProperties
    <2> QED
      BY <1>1, <1>2, <2>1
  <1>5. Popped' = Popped + k /\ c' <= Len(sent')
    <2> DEFINE W == IF w THEN 1 ELSE 0
               L == Len(sent')
               C == c'
               P == Popped'
               d == k
    <2>1. P = L - C
      BY DEF Popped
    <2>2. /\ W \in {0, 1} /\ d \in {0, 1} /\ L = l + W /\ C = c + W - d /\ Popped = l - c
          /\ c \in Nat /\ l \in Nat /\ c <= l
      BY <1>1, <1>2, <1>4, <1>10, Zenon
    <2> HIDE DEF W, L, C, P, d, l, c
    <2>3. P = Popped + d /\ C <= L
      BY <2>1, <2>2
    <2> QED
      BY <2>3, Zenon DEF P, d, C, L, c
  <1>6. /\ tState = "IDLE" => /\ ~q_tx_done_tick'
                              /\ tState' = IF start THEN "START" ELSE "IDLE"
        /\ tState # "IDLE" => tState' # "IDLE" \/ q_tx_done_tick'
    <2>1. tState = "STOP" => tState' # "IDLE" \/ q_tx_done_tick'
      BY TxShape, Zenon
    <2>2. tState = "IDLE" => /\ ~q_tx_done_tick'
                             /\ tState' = IF start THEN "START" ELSE "IDLE"
      BY TxShape, Zenon
    <2>3. tState \in {"START", "DATA", "PARITY"} => tState' # "IDLE"
      <3>1. CASE tState = "START"
        <4>1. tState' = "DATA" \/ tState' = "START"
          BY <3>1, TxShape, Zenon
        <4> QED
          BY <4>1
      <3>2. CASE tState = "DATA"
        <4>1. tState' = AfterData \/ tState' = "DATA"
          BY <3>2, TxShape, Zenon
        <4> QED
          BY <4>1 DEF AfterData
      <3>3. CASE tState = "PARITY"
        <4>1. tState' = "STOP" \/ tState' = "PARITY"
          BY <3>3, TxShape, Zenon
        <4> QED
          BY <4>1
      <3> QED
        BY <3>1, <3>2, <3>3
    <2> QED
      BY <1>3, <2>1, <2>2, <2>3 DEF States
  <1>7. TFrames' = TFrames + IF tState = "IDLE" /\ tState' # "IDLE" THEN 1 ELSE 0
    <2> DEFINE P == Popped
               Q == Popped'
    <2>1. P \in Nat /\ Q = P + k
      BY <1>2, <1>5, Zenon
    <2>2. /\ TFrames = P + (IF TBusy THEN 1 ELSE 0)
          /\ TFrames' = Q + (IF TBusy' THEN 1 ELSE 0)
      BY DEF TFrames
    <2> HIDE DEF P, Q
    <2>3. CASE tState # "IDLE"
      <3>1. TBusy /\ TBusy' /\ k = 0
        BY <1>3, <1>6, <1>10, <2>3 DEF TBusy
      <3> QED
        BY <2>1, <2>2, <2>3, <3>1
    <2>4. CASE tState = "IDLE" /\ q_tx_done_tick
      <3>1. TBusy /\ ~TBusy' /\ k = 1 /\ tState' = "IDLE"
        BY <1>2, <1>3, <1>6, <1>10, <2>4 DEF TBusy
      <3> QED
        BY <2>1, <2>2, <2>4, <3>1
    <2>5. CASE tState = "IDLE" /\ ~q_tx_done_tick
      <3>1. ~TBusy /\ (TBusy' <=> tState' # "IDLE") /\ k = 0
        BY <1>3, <1>6, <1>10, <2>5 DEF TBusy
      <3> QED
        BY <2>1, <2>2, <2>5, <3>1
    <2> QED
      BY <2>3, <2>4, <2>5
  <1>8. Buffer'
    <2>1. c' <= Len(sent')
      BY <1>5
    <2>2. ASSUME NEW i \in 1 .. c'
          PROVE  TxFifo!Contents'[i] = sent'[Popped' + i]
      <3>1. CASE i <= c - k
        <4>1. i + k \in 1 .. c /\ Popped + (i + k) \in 1 .. l
          BY <1>1, <1>2, <1>10, <2>2, <3>1
        <4>2. TxFifo!Contents'[i] = sent[Popped + (i + k)]
          BY <1>1, <1>2, <3>1, <4>1, Zenon
        <4>3. Popped + (i + k) = Popped' + i
          <5>1. k \in Nat /\ i \in Nat /\ Popped \in Nat
            BY <1>2, <1>10, <4>1
          <5> QED
            BY <1>5, <5>1
        <4> QED
          BY <1>4, <4>1, <4>2, <4>3, Zenon
      <3>2. CASE ~(i <= c - k)
        <4>1. w /\ Popped' + i = l + 1
          <5> DEFINE W == IF w THEN 1 ELSE 0
                     C == c'
                     P == Popped'
          <5>3. W \in {0, 1} /\ (W = 1 => w)
            OBVIOUS
          <5>1. /\ k \in {0, 1}
                /\ C = c + W - k /\ P = Popped + k /\ Popped = l - c
                /\ c \in Nat /\ l \in Nat /\ i \in 1 .. C /\ ~(i <= c - k)
            BY <1>1, <1>2, <1>5, <1>10, <3>2, Zenon
          <5> HIDE DEF W, C, P, c, l
          <5>2. W = 1 /\ P + i = l + 1
            BY <5>1, <5>3
          <5> QED
            BY <5>2, <5>3, Zenon DEF P, l
        <4>2. TxFifo!Contents'[i] = b
          BY <1>1, <3>2, Zenon
        <4> QED
          BY <1>4, <4>1, <4>2, Zenon
      <3> QED
        BY <3>1, <3>2
    <2>3. TBusy' => ~q_empty'
      BY <1>1, <1>2, <1>3, <1>6 DEF TBusy
    <2> QED
      BY <2>1, <2>2, <2>3 DEF Buffer
  <1>9. ASSUME tState = "IDLE", tState' # "IDLE"
        PROVE  /\ tData' = sent'[TFrames']
               /\ mode # 0 => tParity' = Parity(mode, sent'[TFrames'])
    <2>1. start /\ ~TBusy
      BY <1>3, <1>6, <1>9 DEF TBusy
    <2>2. TFrames' = Popped + 1 /\ Popped + 1 \in 1 .. l /\ c >= 1
      BY <1>2, <1>7, <1>9, <2>1 DEF TFrames
    <2>3. TxFifo!Contents[1] = q_data_array[q_rd_ptr]
      <3>1. q_rd_ptr \in 0 .. TxDepth - 1
        BY DEF Typed, Widths, TxFifo!TypeOK, TxFifo!Ptr
      <3>2. (q_rd_ptr + (1 - 1)) % TxDepth = q_rd_ptr
        BY <3>1, UartAssumption
      <3>3. 1 \in 1 .. c
        BY <1>2, <2>2
      <3>4. TxFifo!Contents[1] = q_data_array[(q_rd_ptr + (1 - 1)) % TxDepth]
        BY <3>3, Zenon DEF TxFifo!Contents
      <3> QED
        BY <3>2, <3>4, Zenon
    <2>4. TxFifo!Contents[1] = sent'[TFrames']
      <3>1. 1 \in 1 .. c
        BY <1>2, <2>2
      <3> QED
        BY <1>2, <1>4, <2>2, <3>1, Zenon
    <2>5. /\ tData' = q_data_array[q_rd_ptr]
          /\ mode # 0 => tParity' = Parity(mode, q_data_array[q_rd_ptr])
      BY <1>9, <2>1, TxShape, Zenon DEF TxParity, Parity
    <2> QED
      BY <2>3, <2>4, <2>5, Zenon
  <1> QED
    BY <1>2, <1>4, <1>7, <1>8, <1>9

\* An edge of the receiving board begins the next frame when it sees a start
\* bit, and a done tick hands the byte over.
LEMMA RxFrames ==
    ASSUME Typed, RxEdge
    PROVE  /\ RFrames' = RFrames + IF rState = "IDLE" /\ q_rx = 0 THEN 1 ELSE 0
           /\ Len(got') = Len(got) + (IF q_done_tick THEN 1 ELSE 0)
           /\ \A n \in 1 .. Len(got) : got'[n] = got[n]
           /\ q_done_tick => got'[Len(got) + 1] = rData
  <1>1. /\ got \in Seq(Bits) /\ rData \in Bits /\ Len(got) \in Nat
        /\ rState \in States /\ q_done_tick \in BOOLEAN
        /\ q_done_tick => rState = "IDLE"
    BY LenProperties DEF Typed, Widths, Bits, Counters, Phases
  <1>2. /\ Len(Append(got, rData)) = Len(got) + 1
        /\ \A n \in 1 .. Len(got) : Append(got, rData)[n] = got[n]
        /\ Append(got, rData)[Len(got) + 1] = rData
    BY <1>1, AppendProperties
  <1>3. got' = IF q_done_tick THEN Append(got, rData) ELSE got
    BY DEF RxEdge
  <1>4. /\ Len(got') = Len(got) + (IF q_done_tick THEN 1 ELSE 0)
        /\ \A n \in 1 .. Len(got) : got'[n] = got[n]
        /\ q_done_tick => got'[Len(got) + 1] = rData
    BY <1>1, <1>2, <1>3
  <1>5. /\ rState = "IDLE" => /\ ~q_done_tick'
                              /\ rState' = IF q_rx = 0 THEN "START" ELSE "IDLE"
        /\ rState # "IDLE" => rState' # "IDLE" \/ q_done_tick'
    BY RxMoves
  <1>6. RFrames' = RFrames + IF rState = "IDLE" /\ q_rx = 0 THEN 1 ELSE 0
    <2> DEFINE l == Len(got)
               L == Len(got')
    <2>1. L = l + (IF q_done_tick THEN 1 ELSE 0) /\ l \in Nat
      BY <1>1, <1>4
    <2>2. /\ RFrames = l + (IF RBusy THEN 1 ELSE 0)
          /\ RFrames' = L + (IF RBusy' THEN 1 ELSE 0)
      BY DEF RFrames
    <2> HIDE DEF l, L
    <2> QED
      BY <1>1, <1>5, <2>1, <2>2 DEF RBusy
  <1> QED
    BY <1>4, <1>6

\* What an edge of one board leaves alone on the other.
LEMMA TxLeaves ==
    ASSUME TxEdge
    PROVE  /\ UNCHANGED <<mode, rClk, rState, rCnt, rData, rIdx, q_rx, q_done_tick,
                          q_parity_err, parity_err, got>>
           /\ RPos' = RPos /\ RFrames' = RFrames /\ Held' = Held /\ FrameTime' = FrameTime
           /\ RBusy' = RBusy
  <1>1. UNCHANGED <<mode, rClk, rState, rCnt, rData, rIdx, q_rx, q_done_tick,
                    q_parity_err, parity_err, got>>
    BY DEF TxEdge, rxVars
  <1> QED
    BY <1>1 DEF RPos, RBit, RFrames, RBusy, Held, FrameTime, Elapsed

LEMMA RxLeaves ==
    ASSUME RxEdge
    PROVE  /\ UNCHANGED <<mode, tClk, tState, tCnt, tData, tIdx, tParity, q_tx,
                          q_tx_done_tick, sent, q_rd_ptr, q_wr_ptr, q_empty, q_full,
                          q_data_array>>
           /\ TPos' = TPos /\ TFrames' = TFrames /\ Held' = Held /\ FrameTime' = FrameTime
           /\ TBusy' = TBusy
           /\ Buffer => Buffer'
  <1>1. UNCHANGED <<mode, tClk, tState, tCnt, tData, tIdx, tParity, q_tx,
                    q_tx_done_tick, sent, q_rd_ptr, q_wr_ptr, q_empty, q_full,
                    q_data_array>>
    BY DEF RxEdge, txVars, fifoVars
  <1>2. TxFifo!Count' = TxFifo!Count /\ TxFifo!Contents' = TxFifo!Contents
    BY <1>1 DEF TxFifo!Count, TxFifo!Contents, TxFifo!Minus
  <1>3. Popped' = Popped /\ TFrames' = TFrames /\ TBusy' = TBusy
    BY <1>1, <1>2 DEF Popped, TFrames, TBusy
  <1>4. TPos' = TPos /\ Held' = Held /\ FrameTime' = FrameTime
    BY <1>1 DEF TPos, TBit, Held, FrameTime, Elapsed
  <1>5. Buffer => Buffer'
    BY <1>1, <1>2, <1>3, Zenon DEF Buffer
  <1> QED
    BY <1>1, <1>3, <1>4, <1>5

-----------------------------------------------------------------------------
(* What the invariant says of the two sides together.                      *)

\* How far the clocks are apart, and the states.
LEMMA Drift ==
    ASSUME Typed
    PROVE  /\ ahead \in Int /\ ahead >= -Skew /\ ahead <= Skew
           /\ tState \in States /\ rState \in States
  BY Sizes DEF Typed, Widths

\* A bit is longer than what the start bit is late by.
LEMMA Room ==
    ASSUME Typed, Tolerable
    PROVE  /\ BitTime > Div + 2 * Skew
           /\ BitTime + 2 >= 3 * Skew + HalfTime + 2 * Div
           /\ HalfTime >= Skew
           /\ BitTime \in Nat /\ HalfTime \in Nat /\ Skew \in Nat /\ Div \in Nat /\ Div >= 1
  BY Times, Sizes DEF Tolerable

\* The receiver is in no frame that the transmitter has not begun.
LEMMA Behind ==
    ASSUME Typed, Buffer, FrameCount
    PROVE  /\ RFrames <= TFrames /\ TFrames <= Len(sent) /\ Len(got) <= RFrames
           /\ RBusy => RFrames \in 1 .. Len(sent)
           /\ TBusy => TFrames \in 1 .. Len(sent)
           /\ Len(got) \in Nat /\ Len(sent) \in Nat
  <1>1. /\ Len(sent) \in Nat /\ Len(got) \in Nat /\ TFrames \in Int /\ RFrames \in Nat
        /\ TFrames <= Len(sent) /\ TFrames >= 0 /\ Popped >= 0 /\ Popped \in Int
    BY Counts
  <1>2. RFrames <= TFrames
    BY <1>1 DEF FrameCount
  <1>3. TBusy => TFrames >= 1
    BY <1>1 DEF TFrames
  <1>4. Len(got) <= RFrames /\ (RBusy => RFrames >= 1)
    BY <1>1 DEF RFrames
  <1> QED
    BY <1>1, <1>2, <1>3, <1>4

\* As long as the transmitting clock may still gain a cycle, its frame is not
\* over while the receiver is in it.
LEMMA NotOver ==
    ASSUME Typed, Tolerable, Locked, rState # "IDLE", ahead < Skew
    PROVE  TBusy
  <1>1. /\ TPos \in Int /\ FrameTime \in Nat /\ ahead \in Int
        /\ tState = "IDLE" /\ ~q_tx_done_tick => TPos = FrameTime + 1
    BY TxWhere, Times, Drift
  <1>2. RPos \in Int /\ RPos < FrameTime
    BY RxWhere
  <1>3. TPos - RPos - ahead <= HalfTime + 2 * Div + 2 * Skew - BitTime
    BY DEF Locked
  <1>4. /\ BitTime + 2 >= 3 * Skew + HalfTime + 2 * Div
        /\ BitTime \in Nat /\ HalfTime \in Nat /\ Skew \in Nat /\ Div \in Nat
    BY Room
  <1>5. ~(TPos = FrameTime + 1)
    BY <1>1, <1>2, <1>3, <1>4
  <1> QED
    BY <1>1, <1>5 DEF TBusy

\* The start bit is seen before it is over.
LEMMA SeenInTime ==
    ASSUME Typed, Tolerable, Approach, rState = "IDLE", tState = "START", ahead < Skew
    PROVE  TPos < -1
  <1>1. TPos \in Int /\ ahead \in Int /\ q_tx \in {0, 1} /\ q_rx \in {0, 1}
    BY TxWhere, Sizes DEF Typed, Widths, Bit
  <1>2. /\ BitTime > Div + 2 * Skew /\ BitTime >= 2 * Div
        /\ BitTime \in Nat /\ Skew \in Nat /\ Div \in Nat /\ Div >= 1
    BY Room, Times
  <1>3. CASE q_tx = 1
    BY <1>1, <1>2, <1>3 DEF Approach
  <1>4. CASE q_tx = 0
    BY <1>1, <1>2, <1>4 DEF Approach
  <1> QED
    BY <1>1, <1>3, <1>4

\* The line rests when the receiver has waited for its stop bits.
LEMMA RestsAtEnd ==
    ASSUME Typed, Tolerable, Locked, LineRight, rState = "STOP", RPos = FrameTime - 1,
           ahead > -Skew
    PROVE  q_tx = 1 /\ tState \in {"STOP", "IDLE"}
  <1>1. /\ TPos \in Int /\ FrameTime \in Nat /\ ahead \in Int /\ tState \in States
        /\ Held * BitTime \in Nat /\ FrameTime >= Held * BitTime + BitTime
    BY TxWhere, Times, Drift
  <1>2. TPos - RPos - ahead >= HalfTime + 2 - BitTime
    BY DEF Locked
  <1>3. TPos > Held * BitTime
    <2> DEFINE h == Held * BitTime
    <2>1. h \in Nat /\ FrameTime >= h + BitTime
      BY <1>1
    <2> HIDE DEF h
    <2>2. TPos > h
      BY <1>1, <1>2, <2>1, Room
    <2> QED
      BY <2>2, Zenon DEF h
  <1>4. tState = "START" => TPos < 0
    BY TxWhere
  <1>5. tState = "DATA" => TPos < Held * BitTime
    <2>1. tState = "DATA" => tIdx < DataBits /\ tIdx \in Nat
      BY DEF Typed, Widths, Counters, Phases
    <2>2. /\ tState = "DATA" => TPos < tIdx * BitTime + BitTime
          /\ Held \in Nat /\ Held >= DataBits /\ BitTime \in Nat
      BY TxWhere, Times
    <2>3. ASSUME tState = "DATA" PROVE TPos < Held * BitTime
      <3>1. tIdx < Held /\ tIdx \in Int /\ Held \in Int
        BY <2>1, <2>2, <2>3, Sizes
      <3>2. tIdx * BitTime + BitTime <= Held * BitTime
        BY <3>1, LaterBit
      <3>3. tIdx * BitTime \in Int
        BY <2>2, <3>1
      <3> QED
        BY <1>1, <2>2, <2>3, <3>2, <3>3
    <2> QED
      BY <2>3
  <1>6. tState = "PARITY" => TPos < Held * BitTime
    <2>1. tState = "PARITY" => mode # 0 /\ Held = DataBits + 1
      BY DEF Typed, Widths, Counters, Phases, Held
    <2>2. /\ tState = "PARITY" => TPos < DataBits * BitTime + BitTime
          /\ Held \in Nat /\ BitTime \in Nat
      BY TxWhere, Times
    <2>3. ASSUME tState = "PARITY" PROVE TPos < Held * BitTime
      <3>1. DataBits < Held /\ DataBits \in Int /\ Held \in Int
        BY <2>1, <2>2, <2>3, Sizes
      <3>2. DataBits * BitTime + BitTime <= Held * BitTime
        BY <3>1, LaterBit
      <3>3. DataBits * BitTime \in Int
        BY <2>2, <3>1
      <3> QED
        BY <1>1, <2>2, <2>3, <3>2, <3>3
    <2> QED
      BY <2>3
  <1>7. tState \notin {"START", "DATA", "PARITY"}
    BY <1>1, <1>3, <1>4, <1>5, <1>6
  <1> QED
    BY <1>1, <1>3, <1>7 DEF LineRight, States

\* The bit the receiver is about to take is on the line.
LEMMA OnTheLine ==
    ASSUME Typed, Tolerable, Locked, LineRight, rState # "IDLE", ahead > -Skew,
           NEW i \in 0 .. Held - 1, RPos = i * BitTime + BitTime - 2
    PROVE  TBusy /\ q_tx = Symbol(mode, sent[TFrames], i)
  <1>1. /\ TPos \in Int /\ FrameTime \in Nat /\ ahead \in Int
        /\ Held \in Nat /\ Held * BitTime \in Nat /\ FrameTime >= Held * BitTime + BitTime
        /\ tState = "IDLE" => TPos >= FrameTime
        /\ ahead <= Skew
    BY TxWhere, Times, Drift
  <1>2. /\ TPos - RPos - ahead >= HalfTime + 2 - BitTime
        /\ TPos - RPos - ahead <= HalfTime + 2 * Div + 2 * Skew - BitTime
    BY DEF Locked
  <1>3. i * BitTime + BitTime <= Held * BitTime
    BY <1>1, LaterBit
  <1> DEFINE b == i * BitTime
             h == Held * BitTime
  <1>4. /\ b \in Int /\ h \in Int
        /\ BitTime + 2 >= 3 * Skew + HalfTime + 2 * Div
        /\ HalfTime >= Skew
        /\ BitTime \in Nat /\ HalfTime \in Nat /\ Skew \in Nat /\ Div \in Nat
    BY <1>1, Room
  <1>5. RPos = b + BitTime - 2 /\ b + BitTime <= h /\ FrameTime >= h + BitTime
    <2>1. RPos = b + BitTime - 2
      OBVIOUS
    <2>2. b + BitTime <= h /\ FrameTime >= h + BitTime
      BY <1>1, <1>3, Zenon
    <2> QED
      BY <2>1, <2>2, Zenon
  <1> HIDE DEF b, h
  <1>6. TPos > b /\ TPos <= b + BitTime /\ TPos < FrameTime
    BY <1>1, <1>2, <1>4, <1>5
  <1>7. TBusy
    BY <1>1, <1>6 DEF TBusy
  <1>8. TPos > i * BitTime /\ TPos <= i * BitTime + BitTime
    BY <1>6, Zenon DEF b
  <1> QED
    BY <1>7, <1>8, Zenon DEF LineRight

-----------------------------------------------------------------------------
(* An edge of the transmitting board.                                      *)

\* Unless the line is silent it gains a cycle.
LEMMA TxGains ==
    ASSUME Typed, TxEdge, ~Silent
    PROVE  ahead < Skew /\ ahead' = ahead + 1
  BY DEF TxEdge

\* The frame being sent stays the frame of the same byte.
LEMMA SameByte ==
    ASSUME Typed, Buffer, TxEdge, tState # "IDLE"
    PROVE  TFrames' = TFrames /\ sent'[TFrames'] = sent[TFrames] /\ sent[TFrames] \in Bits
  <1>1. TFrames \in Int /\ Len(sent) \in Nat /\ TFrames <= Len(sent) /\ Popped >= 0
        /\ Popped \in Int
    BY Counts
  <1>2. TFrames \in 1 .. Len(sent)
    BY <1>1 DEF TFrames, TBusy
  <1>3. /\ TFrames' = TFrames + IF tState = "IDLE" /\ tState' # "IDLE" THEN 1 ELSE 0
        /\ \A n \in 1 .. Len(sent) : sent'[n] = sent[n]
    BY TxFrames, Zenon
  <1>4. TFrames' = TFrames
    BY <1>1, <1>3
  <1>5. sent[TFrames] \in Byte
    BY <1>2, ElementOfSeq DEF Typed, Widths
  <1> QED
    BY <1>2, <1>3, <1>4, <1>5, UartAssumption DEF Bits

LEMMA TxByteStep ==
    ASSUME Typed, Buffer, TxByte, TxEdge
    PROVE  TxByte'
  <1>0. mode' = mode
    BY TxLeaves
  <1>1. CASE tState = "IDLE"
    <2>1. tState' = "IDLE" \/ tState' = "START"
      BY <1>1, TxShape, Zenon
    <2>2. tState' # "IDLE" => /\ tData' = sent'[TFrames']
                              /\ mode # 0 => tParity' = Parity(mode, sent'[TFrames'])
      BY <1>1, TxFrames, Zenon
    <2> QED
      BY <1>0, <2>1, <2>2 DEF TxByte
  <1> DEFINE d == sent[TFrames]
  <1>2. tState # "IDLE" => sent'[TFrames'] = d
    BY SameByte, Zenon
  <1>3. /\ DataBits \in Nat /\ DataBits >= 1 /\ DataBits <= 8 /\ tIdx \in Nat
        /\ tState = "DATA" => tIdx < DataBits
        /\ tData \in Bits /\ 0 \in Bit
        /\ tState \in States
    BY Sizes DEF Typed, Widths, Counters, Phases, Bits, Bit
  <1>4. /\ tState = "START" => tData = d
        /\ tState = "DATA" => \A j \in 1 .. DataBits - tIdx : tData[j] = d[j + tIdx]
        /\ tState \in {"START", "DATA", "PARITY"} /\ mode # 0 => tParity = Parity(mode, d)
    BY DEF TxByte
  <1>5. SUFFICES ASSUME tState # "IDLE"
        PROVE /\ tState' = "START" => tData' = d
              /\ tState' = "DATA" =>
                   \A j \in 1 .. DataBits - tIdx' : tData'[j] = d[j + tIdx']
              /\ tState' \in {"START", "DATA", "PARITY"} /\ mode # 0 =>
                   tParity' = Parity(mode, d)
    BY <1>0, <1>1, <1>2, Zenon DEF TxByte
  <1> HIDE DEF d
  <1>6. CASE tState = "START"
    <2>1. /\ tState' = "DATA" \/ tState' = "START"
          /\ tData' = tData /\ tParity' = tParity
          /\ tState' = "DATA" => tIdx' = 0
      BY <1>6, TxShape, Zenon
    <2> QED
      BY <1>3, <1>4, <1>6, <2>1
  <1>7. CASE tState = "DATA"
    <2> DEFINE over == tClk = Div - 1 /\ tCnt = Rate - 1
    <2>1. /\ tParity' = tParity
          /\ tState' = IF over /\ tIdx = DataBits - 1 THEN AfterData ELSE "DATA"
          /\ tIdx' = IF over THEN (tIdx + 1) % 8 ELSE tIdx
          /\ tData' = IF over THEN Append(Tail(tData), 0) ELSE tData
      BY <1>7, TxShape, Zenon
    <2> HIDE DEF over
    <2>2. tState' # "START"
      BY <2>1 DEF AfterData
    <2>3. ASSUME tState' = "DATA", NEW j \in 1 .. DataBits - tIdx'
          PROVE  tData'[j] = d[j + tIdx']
      <3>1. CASE ~over
        BY <1>4, <1>7, <2>1, <2>3, <3>1
      <3>2. CASE over
        <4>1. tIdx # DataBits - 1
          BY <2>1, <2>3, <3>2 DEF AfterData
        <4>2. tIdx' = tIdx + 1
          BY <1>3, <1>7, <2>1, <3>2, <4>1
        <4>3. /\ j \in 1 .. DataBits - 1 /\ j + 1 \in 1 .. DataBits - tIdx
              /\ j + tIdx' = j + 1 + tIdx
          BY <1>3, <1>7, <2>3, <4>2
        <4>4. tData'[j] = tData[j + 1]
          BY <1>3, <2>1, <3>2, <4>3, ShiftIn, Zenon
        <4> QED
          BY <1>4, <1>7, <4>3, <4>4, Zenon
      <3> QED
        BY <3>1, <3>2
    <2> QED
      BY <1>4, <1>7, <2>1, <2>2, <2>3
  <1>8. CASE tState = "PARITY"
    <2>1. (tState' = "STOP" \/ tState' = "PARITY") /\ tParity' = tParity
      BY <1>8, TxShape, Zenon
    <2> QED
      BY <1>4, <1>8, <2>1
  <1>9. CASE tState = "STOP"
    <2>1. tState' = "STOP" \/ tState' = "IDLE"
      BY <1>9, TxShape, Zenon
    <2> QED
      BY <2>1
  <1> QED
    BY <1>3, <1>5, <1>6, <1>7, <1>8, <1>9 DEF States

LEMMA LineStep ==
    ASSUME Typed, Buffer, TxByte, TxEdge
    PROVE  LineRight'
  <1>0. /\ mode' = mode /\ Held' = Held
        /\ TPos \in Int /\ Held \in Nat /\ Held >= DataBits /\ Held * BitTime \in Nat
        /\ BitTime \in Nat /\ BitTime >= Div /\ Div \in Nat
        /\ tState \in States
    <2>1. tState \in States
      BY DEF Typed, Widths
    <2>2. mode' = mode /\ Held' = Held
      BY TxLeaves
    <2>3. Div \in Nat /\ Div >= 1
      BY Sizes
    <2>4. /\ Held \in Nat /\ Held >= DataBits /\ Held * BitTime \in Nat
          /\ BitTime \in Nat /\ BitTime >= 2 * Div /\ TPos \in Int
      BY Times, TxWhere
    <2> QED
      BY <2>1, <2>2, <2>3, <2>4
  <1>1. ASSUME NEW i \in 0 .. Held - 1
        PROVE  /\ i \in Int /\ i * BitTime \in Nat
               /\ i * BitTime + BitTime <= Held * BitTime
    <2>1. i \in Nat /\ i < Held /\ Held \in Int
      BY <1>0
    <2>2. i * BitTime \in Nat
      BY <1>0, <2>1
    <2> QED
      BY <2>1, <2>2, LaterBit
  <1> DEFINE h == Held * BitTime
             d == sent[TFrames]
             On(i) == TPos' > i * BitTime /\ TPos' <= i * BitTime + BitTime
  <1>2. tState # "IDLE" => sent'[TFrames'] = d /\ TPos' = TPos + 1
    BY SameByte, TxMoves, Zenon
  <1>3. SUFFICES /\ TBusy' => \A i \in 0 .. Held - 1 :
                      On(i) => q_tx' = Symbol(mode, sent'[TFrames'], i)
                 /\ TPos' > h => q_tx' = 1
    BY <1>0, Zenon DEF LineRight, BitTime
  <1>4. CASE tState = "IDLE"
    <2>1. q_tx' = 1 /\ ~q_tx_done_tick'
      BY <1>4, TxShape, Zenon
    <2>2. tState' # "IDLE" => TPos' < Div - BitTime
      BY <1>4, TxMoves, Zenon
    <2>3. ASSUME TBusy', NEW i \in 0 .. Held - 1, On(i)
          PROVE  FALSE
      <3>1. TPos' < Div - BitTime
        BY <2>1, <2>2, <2>3 DEF TBusy
      <3>2. TPos' \in Int
        BY <1>4, <2>1, <2>3, TxMoves DEF TBusy
      <3> QED
        BY <1>0, <1>1, <2>3, <3>1, <3>2
    <2> QED
      BY <2>1, <2>3
  <1>5. CASE tState = "START"
    <2>1. TPos' <= 0 /\ TPos' \in Int
      BY <1>0, <1>2, <1>5, TxWhere
    <2>2. ASSUME NEW i \in 0 .. Held - 1 PROVE ~On(i)
      BY <1>1, <2>1
    <2>3. ~(TPos' > h)
      BY <1>0, <2>1
    <2> QED
      BY <2>2, <2>3, Zenon
  <1>6. ASSUME NEW k \in Int, k >= 0, k < Held, tState \in {"DATA", "PARITY"},
               TPos >= k * BitTime, TPos < k * BitTime + BitTime,
               q_tx' = Symbol(mode, d, k)
        PROVE  /\ \A i \in 0 .. Held - 1 : On(i) => q_tx' = Symbol(mode, d, i)
               /\ ~(TPos' > h)
    <2>1. TPos' = TPos + 1 /\ k * BitTime \in Int
      BY <1>0, <1>2, <1>6
    <2>2. k * BitTime + BitTime <= h
      BY <1>0, <1>6, LaterBit
    <2>3. ~(TPos' > h)
      <3> DEFINE b == k * BitTime
      <3>1. b \in Int /\ TPos < b + BitTime /\ b + BitTime <= h /\ h \in Int
        BY <1>0, <1>6, <2>1, <2>2
      <3> HIDE DEF b, h
      <3> QED
        BY <1>0, <2>1, <3>1
    <2>4. ASSUME NEW i \in 0 .. Held - 1, On(i)
          PROVE  i = k
      <3>1. i \in Int /\ i * BitTime \in Int
        BY <1>1
      <3>2. i * BitTime <= TPos /\ TPos < i * BitTime + BitTime
        BY <1>0, <2>1, <2>4, <3>1
      <3> QED
        BY ONLY <1>0, <1>6, <3>1, <3>2, OneBit
    <2> QED
      BY <1>6, <2>3, <2>4, Zenon
  <1>7. CASE tState = "DATA"
    <2>1. /\ tIdx \in Int /\ tIdx >= 0 /\ tIdx < DataBits
          /\ TPos >= tIdx * BitTime /\ TPos < tIdx * BitTime + BitTime
      BY <1>7, TxWhere DEF Typed, Widths, Counters, Phases
    <2>2. tIdx < Held
      BY <1>0, <2>1, Sizes
    <2>3. q_tx' = tData[1]
      BY <1>7, TxShape, Zenon
    <2>4. 1 \in 1 .. DataBits - tIdx /\ 1 + tIdx = tIdx + 1
      BY <2>1, Sizes
    <2>5. tData[1] = d[tIdx + 1]
      BY <1>7, <2>4, Zenon DEF TxByte
    <2>6. q_tx' = Symbol(mode, d, tIdx)
      BY <2>1, <2>3, <2>5, Zenon DEF Symbol
    <2>7. /\ \A i \in 0 .. Held - 1 : On(i) => q_tx' = Symbol(mode, d, i)
          /\ ~(TPos' > h)
      BY <1>6, <1>7, <2>1, <2>2, <2>6, Zenon
    <2> QED
      BY <1>2, <1>7, <2>7, Zenon
  <1>8. CASE tState = "PARITY"
    <2>1. /\ DataBits \in Int /\ DataBits >= 0 /\ mode # 0
          /\ TPos >= DataBits * BitTime /\ TPos < DataBits * BitTime + BitTime
      BY <1>8, TxWhere, Sizes DEF Typed, Widths, Counters, Phases
    <2>2. DataBits < Held
      BY <2>1, Sizes DEF Held
    <2>3. q_tx' = tParity
      BY <1>8, TxShape, Zenon
    <2>4. tParity = Parity(mode, d)
      BY <1>8, <2>1, Zenon DEF TxByte
    <2>5. ~(DataBits < DataBits)
      BY <2>1
    <2>6. q_tx' = Symbol(mode, d, DataBits)
      BY <2>3, <2>4, <2>5, Zenon DEF Symbol
    <2>7. /\ \A i \in 0 .. Held - 1 : On(i) => q_tx' = Symbol(mode, d, i)
          /\ ~(TPos' > h)
      BY <1>6, <1>8, <2>1, <2>2, <2>6, Zenon
    <2> QED
      BY <1>2, <1>8, <2>7, Zenon
  <1>9. CASE tState = "STOP"
    <2>1. q_tx' = 1
      BY <1>9, TxShape, Zenon
    <2>2. TPos' = TPos + 1 /\ TPos >= h
      BY <1>2, <1>9, TxWhere
    <2>3. ASSUME NEW i \in 0 .. Held - 1 PROVE ~On(i)
      <3>1. i * BitTime \in Nat /\ i * BitTime + BitTime <= h
        BY <1>1
      <3> QED
        BY <1>0, <2>2, <3>1
    <2> QED
      BY <2>1, <2>3, Zenon
  <1> QED
    BY <1>0, <1>4, <1>5, <1>7, <1>8, <1>9 DEF States

LEMMA LockStep ==
    ASSUME Typed, Tolerable, Locked, TxEdge
    PROVE  Locked' /\ (rState # "IDLE" => TBusy)
  <1>1. SUFFICES ASSUME rState # "IDLE"
                 PROVE  TBusy /\ Locked'
    BY TxLeaves DEF Locked
  <1>2. ahead < Skew /\ ahead' = ahead + 1
    BY <1>1, TxGains DEF Silent
  <1>3. TBusy
    BY <1>1, <1>2, NotOver
  <1>4. TPos' = TPos + 1
    <2>1. CASE tState # "IDLE"
      BY <2>1, TxMoves
    <2>2. CASE tState = "IDLE"
      <3>1. q_tx_done_tick
        BY <1>3, <2>2 DEF TBusy
      <3>2. tState' = "IDLE"
        BY <2>2, <3>1, TxShape, Zenon
      <3>3. TPos' = FrameTime + 1
        BY <2>2, <3>2, TxMoves, Zenon
      <3>4. TPos = FrameTime
        BY <2>2, <3>1 DEF TPos
      <3> QED
        BY <3>3, <3>4
    <2> QED
      BY <2>1, <2>2
  <1>5. RPos' = RPos /\ rState' = rState
    BY TxLeaves
  <1>6. TPos \in Int /\ RPos \in Int /\ ahead \in Int
    BY <1>1, TxWhere, RxWhere, Drift
  <1>7. /\ TPos - RPos - ahead >= HalfTime + 2 - BitTime
        /\ TPos - RPos - ahead <= HalfTime + 2 * Div + 2 * Skew - BitTime
    BY <1>1 DEF Locked
  <1>8. TPos' - RPos' - ahead' = TPos - RPos - ahead
    BY <1>2, <1>4, <1>5, <1>6
  <1>9. Locked'
    BY <1>7, <1>8, Zenon DEF Locked, HalfTime, BitTime
  <1> QED
    BY <1>3, <1>9

LEMMA ApproachStep ==
    ASSUME Typed, Tolerable, Approach, TxEdge
    PROVE  /\ Approach'
           /\ rState = "IDLE" => (tState = "START" <=> tState' = "START" /\ tState # "IDLE")
  <1>1. rState' = rState /\ q_rx' = q_rx
    BY TxLeaves
  <1>2. SUFFICES ASSUME rState = "IDLE"
                 PROVE  /\ Approach'
                        /\ tState = "START" <=> tState' = "START" /\ tState # "IDLE"
    BY <1>1 DEF Approach
  <1>3. /\ tState \in {"START", "STOP", "IDLE"}
        /\ tState # "START" => q_tx = 1 /\ q_rx = 1
        /\ tState = "START" /\ q_tx = 1 => q_rx = 1 /\ TPos < Div - BitTime
        /\ tState = "START" /\ q_tx = 0 =>
             /\ TPos > -BitTime
             /\ TPos < Div - BitTime + ahead + Skew + (1 - q_rx)
    BY <1>2 DEF Approach
  <1>4. /\ TPos \in Int /\ ahead \in Int /\ q_tx \in {0, 1} /\ q_rx \in {0, 1}
        /\ ahead >= -Skew /\ Skew \in Nat /\ Div \in Nat /\ BitTime \in Nat
    <2>1. q_tx \in {0, 1} /\ q_rx \in {0, 1}
      BY DEF Typed, Widths, Bit
    <2> QED
      BY <2>1, TxWhere, Times, Sizes, Drift
  <1>5. CASE tState = "IDLE"
    <2>1. /\ q_tx' = 1 /\ (tState' = "START" \/ tState' = "IDLE")
          /\ tState' # "IDLE" => TPos' < Div - BitTime
      BY <1>5, TxShape, TxMoves, Zenon
    <2> QED
      BY <1>1, <1>3, <1>5, <2>1 DEF Approach, BitTime
  <1>6. CASE tState = "STOP"
    <2>1. q_tx' = 1 /\ (tState' = "STOP" \/ tState' = "IDLE")
      BY <1>6, TxShape, Zenon
    <2> QED
      BY <1>1, <1>3, <1>6, <2>1 DEF Approach
  <1>7. CASE tState = "START"
    <2>1. ahead < Skew /\ ahead' = ahead + 1
      BY <1>7, TxGains DEF Silent
    <2>2. TPos < -1
      BY <1>2, <1>7, <2>1, SeenInTime
    <2>3. q_tx' = 0 /\ tState' = "START"
      <3>1. /\ q_tx' = 0
            /\ tState' = IF tClk = Div - 1 /\ tCnt = Rate - 1 THEN "DATA" ELSE "START"
        BY <1>7, TxShape, Zenon
      <3>2. ~(tClk = Div - 1 /\ tCnt = Rate - 1)
        <4>1. tCnt \in Nat /\ tCnt < Rate /\ tClk \in 0 .. Div - 1
          BY <1>7 DEF Typed, Widths, Counters, Phases
        <4>2. TPos = Elapsed(-1, tCnt, tClk)
          BY <1>7 DEF TPos, TBit
        <4> QED
          BY <2>2, <4>1, <4>2, ElapsedBefore
      <3> QED
        BY <3>1, <3>2
    <2>4. TPos' = TPos + 1 /\ TPos >= -BitTime
      BY <1>7, TxMoves, TxWhere
    <2>5. /\ TPos' > -BitTime
          /\ TPos' < Div - BitTime + ahead' + Skew + (1 - q_rx)
      BY <1>3, <1>4, <1>7, <2>1, <2>4
    <2> QED
      BY <1>1, <1>7, <2>3, <2>5 DEF Approach, BitTime
  <1> QED
    BY <1>3, <1>5, <1>6, <1>7

\* An edge of the transmitting board keeps the invariant.
LEMMA TxLine ==
    ASSUME Typed, Line, Tolerable, TxEdge
    PROVE  Line'
  <1>1. /\ Buffer /\ TxByte /\ LineRight /\ Locked /\ Approach /\ FrameCount
        /\ SampleRight /\ RxByte /\ Arrived /\ ParityClean
    BY DEF Line
  <1>2. /\ Buffer' /\ TxByte' /\ LineRight' /\ Locked' /\ Approach'
        /\ rState # "IDLE" => TBusy
        /\ rState = "IDLE" => (tState = "START" <=> tState' = "START" /\ tState # "IDLE")
    BY <1>1, TxFrames, TxByteStep, LineStep, LockStep, ApproachStep, Zenon
  <1>3. /\ UNCHANGED <<mode, rClk, rState, rCnt, rData, rIdx, q_rx, q_done_tick,
                       q_parity_err, parity_err, got>>
        /\ RPos' = RPos /\ RFrames' = RFrames /\ Held' = Held
    BY TxLeaves, Zenon
  <1>4. \A n \in 1 .. Len(sent) : sent'[n] = sent[n]
    BY <1>1, TxFrames, Zenon
  <1>5. /\ RBusy => RFrames \in 1 .. Len(sent)
        /\ Len(got) <= Len(sent) /\ Len(got) \in Nat /\ Len(sent) \in Nat
        /\ TFrames \in Int /\ RFrames \in Int
    BY <1>1, Behind, Counts
  <1>6. FrameCount'
    <2>1. TFrames' = TFrames + IF tState = "IDLE" /\ tState' # "IDLE" THEN 1 ELSE 0
      BY <1>1, TxFrames, Zenon
    <2>2. tState = "IDLE" => tState' = "IDLE" \/ (tState' = "START" /\ ~TBusy)
      <3>1. tState = "IDLE" =>
              tState' = IF ~q_empty /\ ~q_tx_done_tick THEN "START" ELSE "IDLE"
        BY TxShape, Zenon
      <3> QED
        BY <3>1 DEF TBusy
    <2>3. TFrames = RFrames + IF rState = "IDLE" /\ tState = "START" THEN 1 ELSE 0
      BY <1>1 DEF FrameCount
    <2>4. TFrames' = RFrames + IF rState = "IDLE" /\ tState' = "START" THEN 1 ELSE 0
      <3>1. CASE rState = "IDLE"
        BY <1>2, <1>5, <2>1, <2>2, <2>3, <3>1
      <3>2. CASE rState # "IDLE"
        BY <1>2, <1>5, <2>1, <2>2, <2>3, <3>2
      <3> QED
        BY <3>1, <3>2
    <2> QED
      BY <1>3, <2>4 DEF FrameCount
  <1>7. rState # "IDLE" \/ q_done_tick => sent'[RFrames'] = sent[RFrames]
    BY <1>3, <1>4, <1>5 DEF RBusy
  <1>8. SampleRight'
    BY <1>1, <1>3, <1>7, Zenon DEF SampleRight, BitTime
  <1>9. RxByte'
    <2>1. ASSUME rState \notin {"PARITY", "STOP"}, ~q_done_tick, rState # "DATA"
          PROVE  RxByte'
      BY <1>3, <2>1 DEF RxByte
    <2>2. ASSUME sent'[RFrames'] = sent[RFrames]
          PROVE  RxByte'
      BY <1>1, <1>3, <2>2, Zenon DEF RxByte
    <2> QED
      BY <1>7, <2>1, <2>2
  <1>10. Arrived'
    <2>1. \A n \in 1 .. Len(got) : n \in 1 .. Len(sent)
      BY <1>5
    <2> QED
      BY <1>1, <1>3, <1>4, <2>1, Zenon DEF Arrived
  <1>11. ParityClean'
    BY <1>1, <1>3, Zenon DEF ParityClean
  <1> QED
    BY <1>2, <1>6, <1>8, <1>9, <1>10, <1>11, Zenon DEF Line

-----------------------------------------------------------------------------
(* An edge of the receiving board.                                         *)

\* Unless the line is silent or a start bit is seen it gains a cycle.
LEMMA RxGains ==
    ASSUME Typed, RxEdge
    PROVE  /\ rState = "IDLE" /\ q_rx = 0 => ahead' = 0
           /\ ~Silent /\ ~(rState = "IDLE" /\ q_rx = 0) =>
                ahead > -Skew /\ ahead' = ahead - 1
  BY DEF RxEdge

\* The start bit it sees is that of the frame the transmitter has begun.
LEMMA StartSeen ==
    ASSUME Typed, Approach, rState = "IDLE", q_rx = 0
    PROVE  /\ tState = "START" /\ q_tx = 0 /\ TPos > -BitTime
           /\ TPos < Div - BitTime + ahead + Skew + 1
  BY DEF Approach, Typed, Widths, Bit

LEMMA RxLockStep ==
    ASSUME Typed, Locked, Approach, RxEdge
    PROVE  Locked'
  <1>1. SUFFICES ASSUME rState' # "IDLE" PROVE Locked'
    BY DEF Locked
  <1>2. TPos' = TPos /\ TPos \in Int
    BY RxLeaves, TxWhere
  <1>3. /\ ahead \in Int /\ ahead <= Skew /\ Skew \in Nat /\ Div \in Nat
    BY Sizes DEF Typed, Widths
  <1>4. BitTime \in Nat /\ HalfTime \in Nat
    BY Times
  <1>5. /\ TPos' - RPos' - ahead' >= HalfTime + 2 - BitTime
        /\ TPos' - RPos' - ahead' <= HalfTime + 2 * Div + 2 * Skew - BitTime
    <2>1. CASE rState = "IDLE"
      <3>1. q_rx = 0
        BY <1>1, <2>1, RxMoves
      <3>2. /\ RPos' \in Int /\ RPos' >= -HalfTime - Div /\ RPos' < -HalfTime
            /\ ahead' = 0
        BY <2>1, <3>1, RxMoves, RxGains
      <3>3. TPos > -BitTime /\ TPos < Div - BitTime + ahead + Skew + 1
        BY <2>1, <3>1, StartSeen
      <3> DEFINE t == TPos
                 r == RPos'
                 h == HalfTime
                 b == BitTime
      <3>4. /\ t \in Int /\ r \in Int /\ h \in Nat /\ b \in Nat
            /\ r >= -h - Div /\ r < -h
            /\ t > -b /\ t < Div - b + ahead + Skew + 1
        BY <1>2, <1>4, <3>2, <3>3, Zenon
      <3> HIDE DEF t, r, h, b
      <3>5. /\ t - r - 0 >= h + 2 - b
            /\ t - r - 0 <= h + 2 * Div + 2 * Skew - b
        BY <1>3, <3>4
      <3> QED
        BY <1>2, <3>2, <3>5, Zenon DEF t, r, h, b
    <2>2. CASE rState # "IDLE"
      <3>1. ahead' = ahead - 1
        BY <2>2, RxGains DEF Silent
      <3>2. RPos' = RPos + 1 /\ RPos \in Int
        BY <1>1, <2>2, RxMoves, RxWhere
      <3>3. TPos' - RPos' - ahead' = TPos - RPos - ahead
        BY <1>2, <1>3, <3>1, <3>2
      <3> QED
        BY <2>2, <3>3, Zenon DEF Locked
    <2> QED
      BY <2>1, <2>2
  <1> QED
    BY <1>5, Zenon DEF Locked, HalfTime, BitTime

LEMMA RxApproachStep ==
    ASSUME Typed, Tolerable, LineRight, Locked, Approach, RxEdge
    PROVE  /\ Approach'
           /\ rState # "IDLE" /\ rState' = "IDLE" => tState # "START"
  <1>1. /\ tState' = tState /\ q_tx' = q_tx /\ TPos' = TPos
    BY RxLeaves
  <1>2. q_rx' = q_tx
    BY DEF RxEdge
  <1>3. ASSUME rState # "IDLE", rState' = "IDLE"
        PROVE  Approach' /\ tState # "START"
    <2>1. rState = "STOP" /\ RPos = FrameTime - 1
      BY <1>3, RxMoves
    <2>2. ahead > -Skew
      BY <1>3, RxGains DEF Silent
    <2>3. q_tx = 1 /\ tState \in {"STOP", "IDLE"}
      BY <2>1, <2>2, RestsAtEnd
    <2> QED
      BY <1>1, <1>2, <2>3 DEF Approach
  <1>4. ASSUME rState = "IDLE", rState' = "IDLE"
        PROVE  Approach'
    <2>1. q_rx = 1
      <3>1. q_rx # 0
        BY <1>4, RxMoves
      <3> QED
        BY <3>1 DEF Typed, Widths, Bit
    <2>2. /\ tState \in {"START", "STOP", "IDLE"}
          /\ tState # "START" => q_tx = 1
          /\ tState = "START" /\ q_tx = 1 => TPos < Div - BitTime
          /\ tState = "START" /\ q_tx = 0 =>
               /\ TPos > -BitTime
               /\ TPos < Div - BitTime + ahead + Skew + (1 - q_rx)
      BY <1>4 DEF Approach
    <2>3. ASSUME tState = "START", q_tx = 0
          PROVE  TPos < Div - BitTime + ahead' + Skew + (1 - 0)
      <3>1. ahead' = ahead - 1
        BY <2>1, <2>3, RxGains DEF Silent
      <3>2. /\ TPos \in Int /\ ahead \in Int /\ Skew \in Nat /\ Div \in Nat
            /\ BitTime \in Nat
        BY TxWhere, Times, Sizes, Drift
      <3> QED
        BY <2>1, <2>2, <2>3, <3>1, <3>2
    <2> QED
      BY <1>1, <1>2, <2>2, <2>3, Zenon DEF Approach, BitTime
  <1>5. rState' # "IDLE" => Approach'
    BY DEF Approach
  <1> QED
    BY <1>3, <1>4, <1>5

\* A bit that is taken is the bit of the frame.
LEMMA RxSampleStep ==
    ASSUME Typed, Tolerable, Buffer, LineRight, Locked, FrameCount, RxEdge
    PROVE  SampleRight'
  <1>1. /\ mode' = mode /\ sent' = sent /\ Held' = Held
    BY RxLeaves
  <1>2. q_rx' = q_tx
    BY DEF RxEdge
  <1>3. BitTime \in Nat /\ HalfTime \in Nat /\ BitTime >= 1 /\ Held \in Nat
    BY Times, Sizes
  <1>4. SUFFICES ASSUME rState' # "IDLE", NEW i \in 0 .. Held - 1,
                        RPos' = i * BitTime + BitTime - 1
                 PROVE  q_tx = Symbol(mode, sent[RFrames'], i)
    BY <1>1, <1>2, Zenon DEF SampleRight, BitTime
  <1>5. i * BitTime \in Nat
    BY <1>3
  <1>6. rState # "IDLE"
    <2>1. SUFFICES ASSUME rState = "IDLE" PROVE FALSE
      OBVIOUS
    <2>2. q_rx = 0
      BY <1>4, <2>1, RxMoves
    <2>3. RPos' < -HalfTime
      BY <2>1, <2>2, RxMoves
    <2> QED
      BY <1>3, <1>4, <1>5, <2>3
  <1>7. RPos' = RPos + 1 /\ RPos \in Int
    BY <1>4, <1>6, RxMoves, RxWhere
  <1>8. RPos = i * BitTime + BitTime - 2
    BY <1>3, <1>4, <1>5, <1>7
  <1>9. ahead > -Skew
    BY <1>6, RxGains DEF Silent
  <1>10. q_tx = Symbol(mode, sent[TFrames], i)
    BY <1>6, <1>8, <1>9, OnTheLine
  <1>11. RFrames' = RFrames /\ TFrames = RFrames
    BY <1>6, RxFrames, Counts DEF FrameCount
  <1> QED
    BY <1>10, <1>11

\* Two bytes are equal when their bits are.
LEMMA SameBits ==
    ASSUME NEW d \in Bits, NEW e \in Bits, \A j \in 1 .. DataBits : d[j] = e[j]
    PROVE  d = e
  <1>1. /\ d \in Seq(Bit) /\ Len(d) = DataBits
        /\ e \in Seq(Bit) /\ Len(e) = DataBits
    BY BitsAreSeq
  <1> QED
    BY <1>1, SeqEqual

\* The bit taken at the end of a bit's time.
LEMMA Taken ==
    ASSUME Typed, SampleRight
    PROVE  LET over == rClk = Div - 1 /\ rCnt = Rate - 1
           IN  /\ rState = "DATA" /\ over => q_rx = sent[RFrames][rIdx + 1]
               /\ rState = "PARITY" /\ over => q_rx = Parity(mode, sent[RFrames])
  <1> DEFINE over == rClk = Div - 1 /\ rCnt = Rate - 1
  <1>1. ASSUME rState = "DATA", over
        PROVE  q_rx = sent[RFrames][rIdx + 1]
    <2>1. RPos = rIdx * BitTime + BitTime - 1
      BY <1>1, RxEnds, Zenon
    <2>2. rIdx \in Nat /\ rIdx < DataBits
      BY <1>1 DEF Typed, Widths, Counters, Phases
    <2>3. rIdx \in 0 .. Held - 1
      BY <2>2, Times, Sizes
    <2>4. q_rx = Symbol(mode, sent[RFrames], rIdx)
      BY <1>1, <2>1, <2>3, Zenon DEF SampleRight
    <2> QED
      BY <2>2, <2>4, Zenon DEF Symbol
  <1>2. ASSUME rState = "PARITY", over
        PROVE  q_rx = Parity(mode, sent[RFrames])
    <2>1. RPos = DataBits * BitTime + BitTime - 1
      BY <1>2, RxEnds, Zenon
    <2>2. DataBits \in 0 .. Held - 1
      BY <1>2, Sizes DEF Typed, Widths, Counters, Phases, Held
    <2>3. q_rx = Symbol(mode, sent[RFrames], DataBits)
      BY <1>2, <2>1, <2>2, Zenon DEF SampleRight
    <2>4. ~(DataBits < DataBits)
      BY Sizes
    <2> QED
      BY <2>3, <2>4, Zenon DEF Symbol
  <1> QED
    BY <1>1, <1>2

LEMMA RxByteStep ==
    ASSUME Typed, Buffer, FrameCount, SampleRight, RxByte, RxEdge
    PROVE  RxByte'
  <1>0. sent' = sent
    BY RxLeaves
  <1>1. CASE rState = "IDLE"
    <2>1. rState' \in {"START", "IDLE"} /\ ~q_done_tick'
      BY <1>1, RxMoves
    <2> QED
      BY <2>1 DEF RxByte
  <1> DEFINE d == sent[RFrames]
  <1>2. rState # "IDLE" => sent'[RFrames'] = d /\ d \in Bits
    <2>1. SUFFICES ASSUME rState # "IDLE" PROVE RFrames' = RFrames /\ d \in Bits
      BY <1>0
    <2>2. RFrames' = RFrames
      BY <2>1, RxFrames, Counts
    <2>3. RFrames \in 1 .. Len(sent)
      BY <2>1, Behind DEF RBusy
    <2>4. d \in Byte
      BY <2>3, ElementOfSeq DEF Typed, Widths
    <2> QED
      BY <2>2, <2>4, UartAssumption DEF Bits
  <1>3. /\ DataBits \in Nat /\ DataBits >= 1 /\ DataBits <= 8 /\ rIdx \in Nat
        /\ rState = "DATA" => rIdx < DataBits
        /\ rData \in Bits /\ q_rx \in Bit
        /\ rState \in States
    BY Sizes DEF Typed, Widths, Counters, Phases, Bits
  <1>4. /\ rState = "DATA" => \A j \in 1 .. rIdx : rData[DataBits - rIdx + j] = d[j]
        /\ rState \in {"PARITY", "STOP"} => rData = d
    BY DEF RxByte
  <1>5. rState = "DATA" /\ rClk = Div - 1 /\ rCnt = Rate - 1 => q_rx = d[rIdx + 1]
    BY Taken, Zenon
  <1>6. SUFFICES ASSUME rState # "IDLE", d \in Bits
        PROVE /\ rState' = "DATA" =>
                   \A j \in 1 .. rIdx' : rData'[DataBits - rIdx' + j] = d[j]
              /\ rState' \in {"PARITY", "STOP"} \/ q_done_tick' => rData' = d
    BY <1>1, <1>2, Zenon DEF RxByte
  <1> HIDE DEF d
  <1>7. CASE rState = "START"
    <2>1. /\ rState' = "DATA" \/ rState' = "START"
          /\ rState' = "DATA" => rIdx' = 0
          /\ ~q_done_tick'
      BY <1>7, RxShape, Zenon
    <2> QED
      BY <2>1
  <1>8. CASE rState = "DATA"
    <2> DEFINE over == rClk = Div - 1 /\ rCnt = Rate - 1
    <2>1. /\ ~q_done_tick'
          /\ rState' = IF over /\ rIdx = DataBits - 1 THEN AfterData ELSE "DATA"
          /\ rIdx' = IF over /\ rIdx # DataBits - 1 THEN (rIdx + 1) % 8 ELSE rIdx
          /\ rData' = IF over THEN Append(Tail(rData), q_rx) ELSE rData
      BY <1>8, RxShape, Zenon
    <2>2. CASE ~over
      BY <1>4, <1>8, <2>1, <2>2, Zenon
    <2>3. CASE over
      <3>1. /\ rData' \in Bits
            /\ \A j \in 1 .. DataBits - 1 : rData'[j] = rData[j + 1]
            /\ rData'[DataBits] = d[rIdx + 1]
        BY <1>3, <1>5, <1>8, <2>1, <2>3, ShiftIn, Zenon
      <3>2. ASSUME NEW j \in 1 .. rIdx + 1
            PROVE  rData'[DataBits - (rIdx + 1) + j] = d[j]
        <4> DEFINE p == DataBits - (rIdx + 1) + j
        <4>1. CASE j = rIdx + 1
          <5>1. p = DataBits
            BY <1>3, <4>1
          <5> QED
            BY <3>1, <4>1, <5>1, Zenon
        <4>2. CASE j # rIdx + 1
          <5>1. p \in 1 .. DataBits - 1 /\ p + 1 = DataBits - rIdx + j /\ j \in 1 .. rIdx
            BY <1>3, <1>8, <4>2
          <5> QED
            BY <1>4, <1>8, <3>1, <5>1, Zenon
        <4> QED
          BY <4>1, <4>2
      <3>3. CASE rIdx = DataBits - 1
        <4>1. DataBits = rIdx + 1
          BY <1>3, <3>3
        <4>2. \A j \in 1 .. DataBits : DataBits - (rIdx + 1) + j = j
          BY <1>3, <4>1
        <4>3. \A j \in 1 .. DataBits : rData'[j] = d[j]
          BY <3>2, <4>1, <4>2, Zenon
        <4>4. rData' = d
          BY <1>6, <3>1, <4>3, SameBits, Zenon
        <4>5. rState' # "DATA"
          BY <2>1, <2>3, <3>3 DEF AfterData
        <4> QED
          BY <4>4, <4>5, Zenon
      <3>4. CASE rIdx # DataBits - 1
        <4>1. rIdx' = rIdx + 1 /\ rState' = "DATA"
          BY <1>3, <1>8, <2>1, <2>3, <3>4
        <4> QED
          BY <2>1, <3>2, <4>1
      <3> QED
        BY <3>3, <3>4
    <2> QED
      BY <2>2, <2>3
  <1>9. CASE rState \in {"PARITY", "STOP"}
    <2>1. CASE rState = "PARITY"
      <3>1. rData' = rData /\ (rState' = "STOP" \/ rState' = "PARITY")
        BY <2>1, RxShape, Zenon
      <3> QED
        BY <1>4, <2>1, <3>1
    <2>2. CASE rState = "STOP"
      <3>1. rData' = rData /\ (rState' = "STOP" \/ rState' = "IDLE")
        BY <2>2, RxShape, Zenon
      <3> QED
        BY <1>4, <2>2, <3>1
    <2> QED
      BY <1>9, <2>1, <2>2
  <1> QED
    BY <1>3, <1>6, <1>7, <1>8, <1>9 DEF States

\* The parity bit of odd parity is the one the receiver expects.
LEMMA RxParityStep ==
    ASSUME Typed, SampleRight, RxByte, ParityClean, RxEdge
    PROVE  ParityClean'
  <1>1. mode' = mode
    BY RxLeaves
  <1>2. SUFFICES ASSUME mode \in {0, 1} PROVE ~parity_err' /\ ~q_parity_err'
    BY <1>1, Zenon DEF ParityClean
  <1>3. ~parity_err /\ ~q_parity_err
    BY <1>2 DEF ParityClean
  <1>4. ~parity_err'
    BY <1>3 DEF RxEdge
  <1>5. CASE rState # "PARITY"
    <2>1. rState \in States
      BY DEF Typed, Widths
    <2>2. rState = "IDLE" \/ rState = "START" \/ rState = "DATA" \/ rState = "STOP"
      BY <1>5, <2>1 DEF States
    <2>3. ~q_parity_err'
      BY <2>2, RxShape, Zenon
    <2> QED
      BY <1>4, <2>3
  <1>6. CASE rState = "PARITY"
    <2> DEFINE over == rClk = Div - 1 /\ rCnt = Rate - 1
    <2>1. q_parity_err' <=> over /\ q_rx # RxParity(rData)
      BY <1>6, RxShape, Zenon
    <2>2. mode = 1
      BY <1>2, <1>6 DEF Typed, Counters, Phases
    <2>3. rData = sent[RFrames]
      BY <1>6 DEF RxByte
    <2>4. over => q_rx = Parity(mode, sent[RFrames])
      BY <1>6, Taken, Zenon
    <2>5. Parity(mode, sent[RFrames]) = RxParity(rData)
      BY <2>2, <2>3, Zenon DEF Parity, RxParity
    <2> QED
      BY <1>4, <2>1, <2>4, <2>5, Zenon
  <1> QED
    BY <1>5, <1>6

\* An edge of the receiving board keeps the invariant.
LEMMA RxLine ==
    ASSUME Typed, Line, Tolerable, RxEdge
    PROVE  Line'
  <1>1. /\ Buffer /\ TxByte /\ LineRight /\ Locked /\ Approach /\ FrameCount
        /\ SampleRight /\ RxByte /\ Arrived /\ ParityClean
    BY DEF Line
  <1>2. /\ UNCHANGED <<mode, tClk, tState, tCnt, tData, tIdx, tParity, q_tx,
                       q_tx_done_tick, sent>>
        /\ TPos' = TPos /\ TFrames' = TFrames /\ Held' = Held /\ TBusy' = TBusy
        /\ Buffer'
    BY <1>1, RxLeaves
  <1>3. TxByte'
    BY <1>1, <1>2, Zenon DEF TxByte
  <1>4. LineRight'
    BY <1>1, <1>2, Zenon DEF LineRight, BitTime
  <1>5. /\ Locked' /\ Approach' /\ SampleRight' /\ RxByte' /\ ParityClean'
        /\ rState # "IDLE" /\ rState' = "IDLE" => tState # "START"
    BY <1>1, RxLockStep, RxApproachStep, RxSampleStep, RxByteStep, RxParityStep, Zenon
  <1>6. /\ TFrames \in Int /\ RFrames \in Nat /\ Len(got) \in Nat
        /\ q_done_tick \in BOOLEAN
    BY Counts DEF Typed, Widths
  <1>7. FrameCount'
    <2>1. /\ RFrames' = RFrames + IF rState = "IDLE" /\ q_rx = 0 THEN 1 ELSE 0
          /\ rState = "IDLE" => rState' = IF q_rx = 0 THEN "START" ELSE "IDLE"
          /\ rState = "IDLE" /\ q_rx = 0 => tState = "START"
      BY <1>1, RxFrames, RxMoves, StartSeen, Zenon
    <2>2. TFrames = RFrames + IF rState = "IDLE" /\ tState = "START" THEN 1 ELSE 0
      BY <1>1 DEF FrameCount
    <2>3. TFrames = RFrames' + IF rState' = "IDLE" /\ tState = "START" THEN 1 ELSE 0
      <3>1. CASE rState = "IDLE"
        BY <1>6, <2>1, <2>2, <3>1
      <3>2. CASE rState # "IDLE"
        BY <1>5, <1>6, <2>1, <2>2, <3>2
      <3> QED
        BY <3>1, <3>2
    <2> QED
      BY <1>2, <2>3 DEF FrameCount
  <1>8. Arrived'
    <2>1. /\ Len(got') = Len(got) + (IF q_done_tick THEN 1 ELSE 0)
          /\ \A n \in 1 .. Len(got) : got'[n] = got[n]
          /\ q_done_tick => got'[Len(got) + 1] = rData
      BY RxFrames, Zenon
    <2>2. q_done_tick => rData = sent[Len(got) + 1]
      BY <1>1 DEF RxByte, RFrames, RBusy
    <2>3. \A n \in 1 .. Len(got) : got[n] = sent[n]
      BY <1>1 DEF Arrived
    <2>4. ASSUME NEW n \in 1 .. Len(got') PROVE got'[n] = sent[n]
      <3>1. n \in 1 .. Len(got) \/ (q_done_tick /\ n = Len(got) + 1)
        BY <1>6, <2>1
      <3> QED
        BY <2>1, <2>2, <2>3, <3>1, Zenon
    <2> QED
      BY <1>2, <2>4 DEF Arrived
  <1> QED
    BY <1>2, <1>3, <1>4, <1>5, <1>7, <1>8, Zenon DEF Line

-----------------------------------------------------------------------------
(* The theorem.                                                            *)

\* Nothing is sent and the line rests.
LEMMA InitLine ==
    ASSUME Init, Typed
    PROVE  Line
  <1>1. /\ tState = "IDLE" /\ rState = "IDLE" /\ q_tx = 1 /\ q_rx = 1
        /\ ~q_tx_done_tick /\ ~q_done_tick /\ ~parity_err /\ ~q_parity_err
        /\ sent = <<>> /\ got = <<>> /\ TxFifo!Init
    BY DEF Init
  <1>2. Len(sent) = 0 /\ Len(got) = 0
    BY <1>1
  <1>3. TxFifo!Count = 0
    BY <1>1 DEF TxFifo!Init, TxFifo!Count
  <1>4. ~TBusy /\ ~RBusy /\ TFrames = 0 /\ RFrames = 0
    BY <1>1, <1>2, <1>3 DEF TBusy, RBusy, TFrames, RFrames, Popped
  <1>5. Buffer
    BY <1>2, <1>3, <1>4 DEF Buffer
  <1>6. TxByte /\ LineRight /\ Locked /\ Approach /\ SampleRight /\ RxByte /\ ParityClean
    BY <1>1, <1>4 DEF TxByte, LineRight, Locked, Approach, SampleRight, RxByte, ParityClean
  <1>7. FrameCount /\ Arrived
    BY <1>1, <1>2, <1>4 DEF FrameCount, Arrived
  <1> QED
    BY <1>5, <1>6, <1>7 DEF Line

LEMMA LineStays ==
    ASSUME Typed, Line, UNCHANGED vars
    PROVE  Line'
  <1>1. UNCHANGED <<mode, ahead, tClk, q_rd_ptr, q_wr_ptr, q_empty, q_full, q_data_array,
                    tState, tCnt, tData, tIdx, tParity, q_tx, q_tx_done_tick, sent>>
    BY DEF vars, txVars, fifoVars
  <1>2. UNCHANGED <<rClk, rState, rCnt, rData, rIdx, q_rx, q_done_tick, q_parity_err,
                    parity_err, got>>
    BY DEF vars, rxVars
  <1>3. TxFifo!Count' = TxFifo!Count /\ TxFifo!Contents' = TxFifo!Contents
    BY <1>1 DEF TxFifo!Count, TxFifo!Contents, TxFifo!Minus
  <1>4. /\ Popped' = Popped /\ TFrames' = TFrames /\ TBusy' = TBusy
        /\ RFrames' = RFrames /\ RBusy' = RBusy /\ Held' = Held
    BY <1>1, <1>2, <1>3 DEF Popped, TFrames, TBusy, RFrames, RBusy, Held
  <1>5. TPos' = TPos /\ RPos' = RPos
    BY <1>1, <1>2, <1>4 DEF TPos, RPos, TBit, RBit, Elapsed, FrameTime
  <1>6. Buffer' /\ TxByte' /\ LineRight'
    BY <1>1, <1>3, <1>4, <1>5, Zenon DEF Line, Buffer, TxByte, LineRight, BitTime
  <1>7. Locked' /\ Approach' /\ FrameCount'
    BY <1>1, <1>2, <1>4, <1>5, Zenon DEF Line, Locked, Approach, FrameCount, BitTime, HalfTime
  <1>8. SampleRight' /\ RxByte' /\ Arrived' /\ ParityClean'
    BY <1>1, <1>2, <1>4, <1>5, Zenon DEF Line, SampleRight, RxByte, Arrived, ParityClean,
                                         BitTime
  <1> QED
    BY <1>6, <1>7, <1>8, Zenon DEF Line

\* What the invariant is for.
LEMMA LineImplies ==
    ASSUME Typed, Line
    PROVE  FramesIntact
  <1>1. /\ Buffer /\ Approach /\ FrameCount /\ Arrived /\ ParityClean
    BY DEF Line
  <1>2. /\ Len(got) <= Len(sent) /\ Len(got) \in Nat /\ Len(sent) \in Nat
        /\ TFrames \in Int /\ RFrames \in Nat /\ TxFifo!Count \in Nat
    BY <1>1, Behind, Counts
  <1>3. got = SubSeq(sent, 1, Len(got))
    <2> DEFINE s == SubSeq(sent, 1, Len(got))
    <2>1. /\ got \in Seq(Bits) /\ sent \in Seq(Bits)
      <3>1. Byte \subseteq Bits
        BY UartAssumption DEF Bits
      <3>2. sent \in Seq(Byte)
        BY DEF Typed, Widths
      <3>3. \A n \in 1 .. Len(sent) : sent[n] \in Bits
        BY <3>1, <3>2, ElementOfSeq
      <3>4. sent \in [1 .. Len(sent) -> Bits]
        <4>1. sent \in [1 .. Len(sent) -> Byte]
          BY <3>2, LenProperties
        <4> QED
          BY <3>1, <4>1
      <3> QED
        BY <1>2, <3>4, SeqDef DEF Typed, Widths, Bits
    <2>2. /\ s \in Seq(Bits) /\ Len(s) = Len(got)
          /\ \A i \in 1 .. Len(got) : s[i] = sent[i]
      <3>1. /\ 1 \in 1 .. Len(sent) + 1 /\ Len(got) \in 0 .. Len(sent)
            /\ Len(got) - 1 + 1 = Len(got)
            /\ \A i \in 1 .. Len(got) : 1 + i - 1 = i
        BY <1>2
      <3> QED
        BY <1>2, <2>1, <3>1, SubSeqProperties
    <2>3. \A i \in 1 .. Len(got) : got[i] = s[i]
      BY <1>1, <2>2 DEF Arrived
    <2> HIDE DEF s
    <2>4. got = s
      BY <2>1, <2>2, <2>3, SeqEqual
    <2> QED
      BY <2>4, Zenon DEF s
  <1>4. /\ UnderWay = TFrames - RFrames + (IF RBusy THEN 1 ELSE 0) - (IF TBusy THEN 1 ELSE 0)
        /\ TFrames = RFrames + IF rState = "IDLE" /\ tState = "START" THEN 1 ELSE 0
    <2> DEFINE l == Len(sent)
               g == Len(got)
               c == TxFifo!Count
               T == IF TBusy THEN 1 ELSE 0
               R == IF RBusy THEN 1 ELSE 0
    <2>1. /\ UnderWay = l - g - c /\ TFrames = l - c + T /\ RFrames = g + R
          /\ l \in Nat /\ g \in Nat /\ c \in Nat /\ T \in {0, 1} /\ R \in {0, 1}
      BY <1>2 DEF UnderWay, TFrames, RFrames, Popped
    <2> HIDE DEF l, g, c, T, R
    <2>2. UnderWay = TFrames - RFrames + R - T
      BY <2>1
    <2> QED
      BY <1>1, <2>2, Zenon DEF R, T, FrameCount
  <1>5. UnderWay \in {-1, 0, 1}
    <2>1. CASE rState = "IDLE" /\ tState = "START"
      BY <1>2, <1>4, <2>1 DEF TBusy
    <2>2. CASE ~(rState = "IDLE" /\ tState = "START")
      BY <1>2, <1>4, <2>2
    <2> QED
      BY <2>1, <2>2
  <1>6. Silent /\ ~q_tx_done_tick /\ ~q_done_tick => UnderWay = 0
    BY <1>2, <1>4 DEF Silent, TBusy, RBusy
  <1> QED
    BY <1>1, <1>2, <1>3, <1>5, <1>6 DEF FramesIntact, BytesInOrder

\* Every byte the transmit buffer takes is received once, in order and bit for
\* bit, and without a parity error unless parity is even, for every frame,
\* rate, divisor and depth of the buffer, as long as the clocks drift apart by
\* no more from one start bit to the next than Tolerable allows (uart_tx.v,
\* uart_rx.v, fifo.v).
THEOREM FramesAreIntact ==
    ASSUME Tolerable
    PROVE  Spec => []FramesIntact
  <1>1. Init => Typed /\ Line
    BY InitTyped, InitLine
  <1>2. Typed /\ Line /\ [Next]_vars => (Typed /\ Line)'
    <2> SUFFICES ASSUME Typed, Line, [Next]_vars PROVE Typed' /\ Line'
      OBVIOUS
    <2>1. Typed'
      BY TypedStep
    <2>2. Line'
      <3>1. CASE TxEdge
        BY <3>1, TxLine
      <3>2. CASE RxEdge
        BY <3>2, RxLine
      <3>3. CASE UNCHANGED vars
        BY <3>3, LineStays
      <3> QED
        BY <3>1, <3>2, <3>3 DEF Next
    <2> QED
      BY <2>1, <2>2
  <1>3. Typed /\ Line => FramesIntact
    BY LineImplies
  <1> QED
    BY <1>1, <1>2, <1>3, PTL DEF Spec
=============================================================================

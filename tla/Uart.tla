-------------------------------- MODULE Uart --------------------------------
(***************************************************************************)
(* A serial line between two boards: the transmitting half of one uart.v   *)
(* (uart_tx.v, uart_baud_clk.v, the transmit buffer) and the receiving     *)
(* half of the other (uart_rx.v, uart_baud_clk.v).  Each board has a clock *)
(* of its own; one action is one edge of one of them.                      *)
(*                                                                         *)
(* A byte is the sequence of its bits, low bit first.                      *)
(***************************************************************************)
EXTENDS Integers, Sequences, FiniteSets

CONSTANTS
    Byte,       \* what is sent, of DataBits bits each
    DataBits, StopBits,
    ParityMode, \* the modes a build may choose: 0 none, 1 odd, 2 even
    Rate,       \* BAUD_CLK_OVERSAMPLE_RATE
    Div,        \* CLKS_PER_OVERSAMPLE_TICK
    TxDepth,    \* entries of uart_tx_fifo
    Skew,       \* cycles one clock may gain on the other from one start bit,
                \* as the receiver sees it, to the next
    MaxSent     \* bound: bytes that are ever sent

Bit == {0, 1}

ASSUME UartAssumption ==
    /\ DataBits \in 1 .. 8 /\ StopBits \in Nat \ {0}
    /\ Byte # {} /\ Byte \subseteq [1 .. DataBits -> Bit]
    /\ ParityMode \subseteq 0 .. 2
    /\ Rate \in 2 .. 16 /\ Div \in Nat \ {0} /\ StopBits * Rate <= 16
    /\ TxDepth \in Nat /\ TxDepth >= 3
    /\ Skew \in Nat /\ MaxSent \in Nat

VARIABLES
    mode,           \* PARITY_MODE
    tClk, rClk,     \* q_cnt of the two baud clocks
    q_rd_ptr, q_wr_ptr, q_empty, q_full, q_data_array, \* uart_tx_fifo
    tState, tCnt, tData, tIdx, tParity, q_tx, q_tx_done_tick, \* uart_tx
    rState, rCnt, rData, rIdx, q_rx, q_done_tick, q_parity_err, \* uart_rx
    parity_err,     \* q_rx_parity_err of the receiving board
    ahead,          \* cycles the transmitting clock is ahead
    sent, got       \* bytes the transmit buffer took, bytes received

fifoVars == <<q_rd_ptr, q_wr_ptr, q_empty, q_full, q_data_array>>
txVars == <<tClk, fifoVars, tState, tCnt, tData, tIdx, tParity, q_tx, q_tx_done_tick, sent>>
rxVars == <<rClk, rState, rCnt, rData, rIdx, q_rx, q_done_tick, q_parity_err, parity_err, got>>
vars == <<mode, ahead, txVars, rxVars>>

TxFifo == INSTANCE Fifo WITH Data <- Byte, Depth <- TxDepth

States == {"IDLE", "START", "DATA", "PARITY", "STOP"}

\* Reduction by exclusive or, and the bit each side takes for the parity.
Xor(d) == Cardinality({i \in 1 .. DataBits : d[i] = 1}) % 2

\* For even parity the transmitter assigns ~tx_data to a single bit: it sends
\* the complement of the lowest bit.
TxParity(d) == IF mode = 1 THEN 1 - Xor(d) ELSE 1 - d[1]
RxParity(d) == IF mode = 1 THEN 1 - Xor(d) ELSE Xor(d)

\* Mutant: the counter of ticks does not wrap.
MutTicks(n, tick) == IF tick THEN n + 1 ELSE n

\* Counters of ticks and of bits are four and three bits wide.
Ticks(n, tick) == IF tick THEN (n + 1) % 16 ELSE n

StopTicks == StopBits * Rate

NextClk(n) == IF n = Div - 1 THEN 0 ELSE n + 1

AfterData == IF mode = 0 THEN "STOP" ELSE "PARITY"
-----------------------------------------------------------------------------
Init ==
    /\ mode \in ParityMode
    /\ tClk \in 0 .. Div - 1 /\ rClk = 0
    /\ TxFifo!Init /\ q_data_array = [p \in 0 .. TxDepth - 1 |-> CHOOSE b \in Byte : TRUE]
    /\ tState = "IDLE" /\ tCnt = 0 /\ tData = [i \in 1 .. DataBits |-> 0]
    /\ tIdx = 0 /\ tParity = 0 /\ q_tx = 1 /\ q_tx_done_tick = FALSE
    /\ rState = "IDLE" /\ rCnt = 0 /\ rData = [i \in 1 .. DataBits |-> 0]
    /\ rIdx = 0 /\ q_rx = 1 /\ q_done_tick = FALSE
    /\ q_parity_err = FALSE /\ parity_err = FALSE
    /\ ahead = 0 /\ sent = <<>> /\ got = <<>>
-----------------------------------------------------------------------------
(* uart_tx.  In each state the bit is a register: the line shows it in the *)
(* next cycle.                                                             *)

\* Mutant: the wrong flag of the buffer starts the transmitter.
mut_tx_start == q_full

tx_start == ~q_empty

\* A bit has been on the line for n ticks.
BitOver(n, tick) == tick /\ tCnt = n - 1

\* Mutant: the byte is latched again while its done tick pops it.
MutTxIdle(tick) ==
    /\ tState = "IDLE"
    /\ q_tx' = 1
    /\ IF tx_start
       THEN /\ tState' = "START" /\ tCnt' = 0
            /\ tData' = q_data_array[q_rd_ptr]
            /\ tParity' = IF mode = 0 THEN tParity ELSE TxParity(tData')
       ELSE /\ tCnt' = Ticks(tCnt, tick)
            /\ UNCHANGED <<tState, tData, tParity>>
    /\ q_tx_done_tick' = FALSE
    /\ UNCHANGED tIdx

TxIdle(tick) ==
    /\ tState = "IDLE"
    /\ q_tx' = 1
    /\ IF tx_start /\ ~q_tx_done_tick
       THEN /\ tState' = "START" /\ tCnt' = 0
            /\ tData' = q_data_array[q_rd_ptr]
            /\ tParity' = IF mode = 0 THEN tParity ELSE TxParity(tData')
       ELSE /\ tCnt' = Ticks(tCnt, tick)
            /\ UNCHANGED <<tState, tData, tParity>>
    /\ q_tx_done_tick' = FALSE
    /\ UNCHANGED tIdx

TxStart(tick) ==
    /\ tState = "START"
    /\ q_tx' = 0
    /\ IF BitOver(Rate, tick)
       THEN tState' = "DATA" /\ tCnt' = 0 /\ tIdx' = 0
       ELSE tCnt' = Ticks(tCnt, tick) /\ UNCHANGED <<tState, tIdx>>
    /\ q_tx_done_tick' = FALSE
    /\ UNCHANGED <<tData, tParity>>

TxData(tick) ==
    /\ tState = "DATA"
    /\ q_tx' = tData[1]
    /\ IF BitOver(Rate, tick)
       THEN /\ tData' = Append(Tail(tData), 0)
            /\ tIdx' = (tIdx + 1) % 8 /\ tCnt' = 0
            /\ tState' = IF tIdx = DataBits - 1 THEN AfterData ELSE "DATA"
       ELSE tCnt' = Ticks(tCnt, tick) /\ UNCHANGED <<tState, tData, tIdx>>
    /\ q_tx_done_tick' = FALSE
    /\ UNCHANGED tParity

TxParityBit(tick) ==
    /\ tState = "PARITY"
    /\ q_tx' = tParity
    /\ IF BitOver(Rate, tick)
       THEN tState' = "STOP" /\ tCnt' = 0
       ELSE tCnt' = Ticks(tCnt, tick) /\ UNCHANGED tState
    /\ q_tx_done_tick' = FALSE
    /\ UNCHANGED <<tData, tIdx, tParity>>

TxStop(tick) ==
    /\ tState = "STOP"
    /\ q_tx' = 1
    /\ tCnt' = Ticks(tCnt, tick)
    /\ q_tx_done_tick' = BitOver(StopTicks, tick)
    /\ tState' = IF q_tx_done_tick' THEN "IDLE" ELSE "STOP"
    /\ UNCHANGED <<tData, tIdx, tParity>>
-----------------------------------------------------------------------------
(* uart_rx.  It looks at the line as it was at the last edge.              *)

RxIdle(tick) ==
    /\ rState = "IDLE"
    /\ IF q_rx = 0
       THEN rState' = "START" /\ rCnt' = 0
       ELSE rCnt' = Ticks(rCnt, tick) /\ UNCHANGED rState
    /\ q_done_tick' = FALSE /\ q_parity_err' = FALSE
    /\ UNCHANGED <<rData, rIdx>>

\* Half a bit, to get to the middle of the start bit, whose value is not
\* looked at again.
Half == (Rate - 1) \div 2

RxStart(tick) ==
    /\ rState = "START"
    /\ IF tick /\ rCnt = Half
       THEN rState' = "DATA" /\ rCnt' = 0 /\ rIdx' = 0
       ELSE rCnt' = Ticks(rCnt, tick) /\ UNCHANGED <<rState, rIdx>>
    /\ q_done_tick' = FALSE /\ q_parity_err' = FALSE
    /\ UNCHANGED rData

RxData(tick) ==
    /\ rState = "DATA"
    /\ IF tick /\ rCnt = Rate - 1
       THEN /\ rData' = Append(Tail(rData), q_rx)
            /\ rCnt' = 0
            /\ IF rIdx = DataBits - 1
               THEN rState' = AfterData /\ UNCHANGED rIdx
               ELSE rIdx' = (rIdx + 1) % 8 /\ UNCHANGED rState
       ELSE rCnt' = Ticks(rCnt, tick) /\ UNCHANGED <<rState, rData, rIdx>>
    /\ q_done_tick' = FALSE /\ q_parity_err' = FALSE

RxParityBit(tick) ==
    /\ rState = "PARITY"
    /\ IF tick /\ rCnt = Rate - 1
       THEN /\ q_parity_err' = (q_rx # RxParity(rData))
            /\ rState' = "STOP" /\ rCnt' = 0
       ELSE /\ rCnt' = Ticks(rCnt, tick)
            /\ q_parity_err' = FALSE
            /\ UNCHANGED rState
    /\ q_done_tick' = FALSE
    /\ UNCHANGED <<rData, rIdx>>

\* The stop bit is waited for, not checked.
RxStop(tick) ==
    /\ rState = "STOP"
    /\ rCnt' = Ticks(rCnt, tick)
    /\ q_done_tick' = (tick /\ rCnt = StopTicks - 1)
    /\ rState' = IF q_done_tick' THEN "IDLE" ELSE "STOP"
    /\ q_parity_err' = FALSE
    /\ UNCHANGED <<rData, rIdx>>
-----------------------------------------------------------------------------
(* One edge of each board.                                                 *)

\* Nothing is on the line or about to be: how far the clocks drift then does
\* not matter.
Silent == tState = "IDLE" /\ q_tx = 1 /\ rState = "IDLE" /\ q_rx = 1

\* The transmitting board: the client may write a byte (wr_en), the done tick
\* pops the one that was sent.
TxEdge ==
    /\ Silent \/ ahead < Skew
    /\ ahead' = IF Silent THEN 0 ELSE ahead + 1
    /\ tClk' = NextClk(tClk)
    /\ LET tick == tClk = Div - 1
       IN  \/ TxIdle(tick) \/ TxStart(tick) \/ TxData(tick) \/ TxParityBit(tick)
           \/ TxStop(tick)
    /\ \/ /\ TxFifo!Clock(q_tx_done_tick, FALSE, tData)
          /\ UNCHANGED sent
       \/ \E b \in Byte :
             /\ Len(sent) < MaxSent
             /\ TxFifo!Clock(q_tx_done_tick, TRUE, b)
             /\ sent' = IF q_full THEN sent ELSE Append(sent, b)
    /\ UNCHANGED <<mode, rxVars>>

\* The receiving board: a done tick hands the byte to its receive buffer.
RxEdge ==
    /\ Silent \/ ahead > -Skew
    /\ ahead' = IF Silent \/ (rState = "IDLE" /\ q_rx = 0) THEN 0 ELSE ahead - 1
    /\ rClk' = NextClk(rClk)
    /\ q_rx' = q_tx
    /\ LET tick == rClk = Div - 1
       IN  \/ RxIdle(tick) \/ RxStart(tick) \/ RxData(tick) \/ RxParityBit(tick)
           \/ RxStop(tick)
    /\ parity_err' = (parity_err \/ q_parity_err)
    /\ got' = IF q_done_tick THEN Append(got, rData) ELSE got
    /\ UNCHANGED <<mode, txVars>>

Next == TxEdge \/ RxEdge

Spec == Init /\ [][Next]_vars

\* Both oscillators keep ticking.
FairSpec == Spec /\ WF_vars(TxEdge) /\ WF_vars(RxEdge)
-----------------------------------------------------------------------------
(* Properties.                                                             *)

\* The registers keep their widths.
Widths ==
    /\ mode \in 0 .. 2
    /\ tClk \in 0 .. Div - 1 /\ rClk \in 0 .. Div - 1
    /\ TxFifo!TypeOK
    /\ tState \in States /\ rState \in States
    /\ tCnt \in 0 .. 15 /\ rCnt \in 0 .. 15
    /\ tIdx \in 0 .. 7 /\ rIdx \in 0 .. 7
    /\ tData \in [1 .. DataBits -> Bit] /\ rData \in [1 .. DataBits -> Bit]
    /\ tParity \in Bit /\ q_tx \in Bit /\ q_rx \in Bit
    /\ q_tx_done_tick \in BOOLEAN /\ q_done_tick \in BOOLEAN
    /\ q_parity_err \in BOOLEAN /\ parity_err \in BOOLEAN
    /\ ahead \in -Skew .. Skew
    /\ sent \in Seq(Byte) /\ got \in Seq([1 .. DataBits -> Bit])

\* In a frame the counters of ticks and bits stay below what they count to.
\* They are compared for equality only: a state entered with a counter past
\* its limit would take a turn of the whole counter, or never be left.
Counters ==
    /\ tState \in {"START", "DATA", "PARITY"} => tCnt < Rate
    /\ tState = "STOP" => tCnt < StopTicks
    /\ tState = "DATA" => tIdx < DataBits
    /\ rState = "START" => rCnt <= Half
    /\ rState \in {"DATA", "PARITY"} => rCnt < Rate
    /\ rState = "STOP" => rCnt < StopTicks
    /\ rState = "DATA" => rIdx < DataBits

\* Type invariant.
TypeOK == Widths /\ Counters

\* The frame of the byte at the front of the buffer has been received, is on
\* its way, or has left the buffer and is still to be handed over.
UnderWay == Len(sent) - Len(got) - TxFifo!Count

\* Every byte the transmit buffer took is received once, in order and with its
\* bits, however the two clocks drift within Skew; with the line silent
\* exactly the bytes still in the buffer are missing.
BytesInOrder ==
    /\ Len(got) <= Len(sent) /\ got = SubSeq(sent, 1, Len(got))
    /\ UnderWay \in {-1, 0, 1}
    /\ Silent /\ ~q_tx_done_tick /\ ~q_done_tick => UnderWay = 0

\* A byte sent with no parity or with odd parity raises no parity error.  (With
\* even parity one byte in two does: see TxParity.)
ParityClean == mode \in {0, 1} => ~parity_err /\ ~q_parity_err

\* A frame sent is the byte received (uart_tx.v, uart_rx.v).
FramesIntact == BytesInOrder /\ ParityClean

\* The last byte is in the buffer and empty says there is none: it was written
\* in the cycle that popped the one before it.
Hidden == q_empty /\ TxFifo!Count = 1

\* A byte that was taken is received, unless the flag of the buffer hides it.
ReceivedUnlessHidden ==
    \A n \in 1 .. MaxSent : Len(sent) >= n ~> (Len(got) >= n \/ Hidden)

\* "wr_en: Write tx_data over serial connection" (uart.v): a byte that was
\* taken is received.
Received == \A n \in 1 .. MaxSent : Len(sent) >= n ~> Len(got) >= n
=============================================================================

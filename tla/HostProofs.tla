----------------------------- MODULE HostProofs -----------------------------
(***************************************************************************)
(* The board and the controller for any buffers, programs, inputs and      *)
(* packets of the tool.                                                    *)
(***************************************************************************)
EXTENDS Host, SequenceTheorems, TLAPS
-----------------------------------------------------------------------------
(* The board.                                                              *)

ByteValue == 0 .. 255
Sources == {"query", "echo", "err", "reg", "mem", "out", "ret"}
Sent == [src : Sources, byte : ByteValue]

\* States that count what is left of a command.
Counting == {"ECHO_1", "IO_IN_1", "REG_RD_1", "MEM_RD_1", "MEM_WR_1"}

BufferTyped ==
    /\ tx \in Seq(ByteValue) /\ Len(tx) <= TxCap
    /\ flag \in {"exact", "empty", "full"} /\ fresh \in BOOLEAN

InputTyped == inbuf \in Seq(ByteValue) /\ Len(inbuf) <= InCap

LineTyped == rx \in Seq(ByteValue) /\ Len(rx) <= RxCap

RegsTyped ==
    /\ wr \in Seq(Sent) /\ Len(wr) <= 1
    /\ inwr \in Seq(ByteValue) /\ Len(inwr) <= 1
    /\ q_io_en \in BOOLEAN

RamTyped == ram \in [0 .. RamSize - 1 -> ByteValue]

\* The registers of the state machine, and that no counter runs below zero.
FsmTyped ==
    /\ q_state \in States /\ q_decode_cnt \in 0 .. 7
    /\ q_execute_cnt \in 0 .. Count - 1 /\ q_addr \in 0 .. RamSize - 1
    /\ q_err_code \in BOOLEAN
    /\ q_state \in Counting => q_execute_cnt # 0
    /\ q_state = "REG_RD_1" => q_execute_cnt + q_addr = 4

BoardInv ==
    BufferTyped /\ InputTyped /\ LineTyped /\ RegsTyped /\ RamTyped /\ FsmTyped

LEMMA BoardTyped == BoardInv => HciTypeOK
  BY DEF BoardInv, BufferTyped, InputTyped, LineTyped, RegsTyped, RamTyped, FsmTyped,
         HciTypeOK, ByteValue

LEMMA Sizes ==
    /\ RxCap \in Nat \ {0} /\ TxCap \in Nat /\ TxCap >= 3 /\ InCap \in Nat \ {0}
    /\ RamSize \in Nat /\ RamSize >= 8 /\ Count \in Nat /\ Count >= 8
    /\ 0 \in 0 .. RamSize - 1 /\ 0 \in 0 .. Count - 1 /\ 4 \in 0 .. Count - 1
  BY HciAssumption

LEMMA DbgRegType == ASSUME NEW i \in 1 .. 4 PROVE DbgReg[i] \in ByteValue
  BY HciAssumption DEF ByteValue

\* An empty sequence or one of length one.
LEMMA ShortSeq ==
    ASSUME NEW S, NEW s \in Seq(S), Len(s) <= 1
    PROVE  s = <<>> \/ (Len(s) = 1 /\ s[1] \in S)
<1> DEFINE n == Len(s)
<1>1. s # <<>> => n \in Nat \ {0}
  BY EmptySeq
<1>2. CASE s # <<>>
  <2>1. n = 1
    <3>1. n <= 1 /\ n \in Nat \ {0}
      BY <1>1, <1>2
    <3> HIDE DEF n
    <3> QED BY <3>1
  <2>2. s[1] \in S
    BY <2>1, ElementOfSeq
  <2> QED BY <2>1, <2>2
<1> QED BY <1>2

LEMMA Single ==
    ASSUME NEW S, NEW x \in S
    PROVE  <<x>> \in Seq(S) /\ Len(<<x>>) = 1 /\ <<x>>[1] = x /\ <<x>> # <<>>
  OBVIOUS

LEMMA TransmitType ==
    ASSUME BoardInv, NEW d, Transmit(d)
    PROVE  BufferTyped'
<1> DEFINE b == wr[1].byte
<1>1. tx \in Seq(ByteValue) /\ Len(tx) <= TxCap /\ Len(tx) \in Nat /\ TxCap \in Nat /\ TxCap >= 3
  BY Sizes, LenProperties DEF BoardInv, BufferTyped
<1>2. ASSUME wr # <<>> PROVE b \in ByteValue
  <2>1. wr \in Seq(Sent) /\ Len(wr) <= 1
    BY DEF BoardInv, RegsTyped
  <2>2. wr[1] \in Sent
    BY <1>2, <2>1, ShortSeq
  <2> QED BY <2>2 DEF Sent
<1>3. Push(wr # <<>> /\ ~tx_full)
  BY DEF Transmit
<1>4. flag' \in {"exact", "empty", "full"} /\ fresh' \in BOOLEAN
  BY <1>3 DEF Push, BoardInv, BufferTyped
<1>5. ASSUME tx' = tx PROVE BufferTyped'
  BY <1>1, <1>4, <1>5 DEF BufferTyped
<1>6. ASSUME wr # <<>>, ~tx_full, tx' = Append(tx, b) PROVE BufferTyped'
  <2>1. b \in ByteValue
    BY <1>2, <1>6
  <2>2. tx' \in Seq(ByteValue) /\ Len(tx') = Len(tx) + 1
    BY <1>1, <1>6, <2>1, AppendProperties
  <2> QED BY <1>1, <1>4, <1>6, <2>2 DEF BufferTyped, tx_full
<1>7. ASSUME wr # <<>>, Len(tx) \in {1, TxCap - 1}, tx' = Append(Tail(tx), b) PROVE BufferTyped'
  <2>1. b \in ByteValue
    BY <1>2, <1>7
  <2>2. tx # <<>>
    BY <1>1, <1>7, EmptySeq
  <2>3. Tail(tx) \in Seq(ByteValue) /\ Len(Tail(tx)) = Len(tx) - 1
    BY <1>1, <2>2, HeadTailProperties
  <2> HIDE DEF b
  <2>4. tx' \in Seq(ByteValue) /\ Len(tx') = Len(Tail(tx)) + 1
    BY <1>7, <2>1, <2>3, AppendProperties
  <2> QED BY <1>1, <1>4, <2>3, <2>4 DEF BufferTyped
<1> QED
  BY <1>3, <1>5, <1>6, <1>7 DEF Push

LEMMA StoreInputType ==
    ASSUME BoardInv, NEW pop \in BOOLEAN, pop => inbuf # <<>>, StoreInput(pop)
    PROVE  InputTyped'
<1> DEFINE s == IF pop THEN Tail(inbuf) ELSE inbuf
           t == IF io_in_full THEN <<>> ELSE inwr
<1>1. inbuf \in Seq(ByteValue) /\ Len(inbuf) <= InCap /\ inwr \in Seq(ByteValue) /\ Len(inwr) <= 1
      /\ InCap \in Nat /\ Len(inbuf) \in Nat /\ Len(inwr) \in Nat
  BY Sizes, LenProperties DEF BoardInv, InputTyped, RegsTyped
<1>2. s \in Seq(ByteValue) /\ Len(s) <= Len(inbuf) /\ Len(s) \in Nat
  <2>1. ASSUME pop PROVE Tail(inbuf) \in Seq(ByteValue) /\ Len(Tail(inbuf)) = Len(inbuf) - 1
    BY <1>1, <2>1, HeadTailProperties
  <2>2. inbuf # <<>> => Len(inbuf) # 0
    BY <1>1, EmptySeq
  <2> QED BY <1>1, <2>1, <2>2
<1>3. t \in Seq(ByteValue) /\ Len(t) <= 1 /\ (Len(inbuf) = InCap => Len(t) = 0) /\ Len(t) \in Nat
  BY <1>1, EmptySeq DEF io_in_full
<1>4. inbuf' = s \o t
  BY DEF StoreInput
<1> HIDE DEF s, t
<1>5. inbuf' \in Seq(ByteValue) /\ Len(inbuf') = Len(s) + Len(t)
  BY <1>2, <1>3, <1>4, ConcatProperties
<1> QED
  BY <1>1, <1>2, <1>3, <1>5 DEF InputTyped

LEMMA QuietType ==
    ASSUME BoardInv, Quietly
    PROVE  BufferTyped' /\ InputTyped' /\ q_io_en' = FALSE
  BY TransmitType, StoreInputType DEF Quietly

\* The byte at the front of the line.
LEMMA TakeType ==
    ASSUME BoardInv, Take
    PROVE  Byte \in ByteValue /\ LineTyped'
<1>1. rx \in Seq(ByteValue) /\ Len(rx) <= RxCap
  BY DEF BoardInv, LineTyped
<1>2. rx # <<>> /\ rx' = Tail(rx)
  BY DEF Take
<1>3. Head(rx) \in ByteValue /\ Tail(rx) \in Seq(ByteValue) /\ Len(Tail(rx)) = Len(rx) - 1
  BY <1>1, <1>2, HeadTailProperties
<1>4. Len(rx) \in Nat /\ RxCap \in Nat
  BY <1>1, Sizes, LenProperties
<1> QED
  BY <1>1, <1>2, <1>3, <1>4 DEF Byte, LineTyped

\* What a cycle leaves in the two registers.
LEMMA SendType ==
    ASSUME NEW s \in Sources, NEW b \in ByteValue, Send(s, b)
    PROVE  wr' \in Seq(Sent) /\ Len(wr') <= 1 /\ wr' # <<>> /\ wr'[1] = [src |-> s, byte |-> b]
<1> DEFINE e == [src |-> s, byte |-> b]
<1>1. e \in Sent
  BY DEF Sent
<1>2. wr' = <<e>>
  BY DEF Send
<1> HIDE DEF e
<1>3. wr' \in Seq(Sent) /\ Len(wr') <= 1 /\ wr' # <<>> /\ wr'[1] = e
  BY <1>1, <1>2, Single
<1> QED BY <1>3 DEF e

LEMMA NothingSent ==
    ASSUME NEW S
    PROVE  <<>> \in Seq(S) /\ Len(<<>>) = 0
  BY EmptySeq

LEMMA DisabledType ==
    ASSUME BoardInv, S_DISABLED PROVE BoardInv'
<1>1. BufferTyped' /\ InputTyped' /\ LineTyped' /\ q_io_en' = FALSE
  BY QuietType, TakeType DEF S_DISABLED
<1>2. wr' \in Seq(Sent) /\ Len(wr') <= 1
  <2>1. CASE wr' = <<>>
    BY <2>1, NothingSent
  <2>2. CASE Send("query", 0)
    <3>1. "query" \in Sources /\ 0 \in ByteValue
      BY DEF Sources, ByteValue
    <3> QED BY ONLY <2>2, <3>1, SendType
  <2> QED BY <2>1, <2>2 DEF S_DISABLED
<1>3. inwr' \in Seq(ByteValue) /\ Len(inwr') <= 1
  BY NothingSent DEF S_DISABLED
<1>4. RamTyped'
  BY DEF S_DISABLED, BoardInv, RamTyped
<1>5. FsmTyped'
  BY DEF S_DISABLED, BoardInv, FsmTyped, Running, States, Counting
<1> QED BY <1>1, <1>2, <1>3, <1>4, <1>5 DEF BoardInv, RegsTyped

LEMMA DecodeType ==
    ASSUME BoardInv, S_DECODE PROVE BoardInv'
<1>1. BufferTyped' /\ InputTyped' /\ LineTyped' /\ q_io_en' = FALSE
  BY QuietType, TakeType DEF S_DECODE
<1>2. wr' \in Seq(Sent) /\ Len(wr') <= 1
  <2>1. CASE wr' = <<>>
    BY <2>1, NothingSent
  <2>2. CASE Send("query", 1)
    <3>1. "query" \in Sources /\ 1 \in ByteValue
      BY DEF Sources, ByteValue
    <3> QED BY ONLY <2>2, <3>1, SendType
  <2> QED BY <2>1, <2>2 DEF S_DECODE
<1>3. inwr' \in Seq(ByteValue) /\ Len(inwr') <= 1
  BY NothingSent DEF S_DECODE
<1>4. RamTyped'
  BY DEF S_DECODE, BoardInv, RamTyped
<1>5. q_state' \in States \ Counting
  BY DEF S_DECODE, Command, States, Counting
<1>6. FsmTyped'
  <2>1. q_err_code' \in BOOLEAN
    BY DEF S_DECODE
  <2> QED BY <1>5, <2>1 DEF S_DECODE, BoardInv, FsmTyped, Counting
<1> QED BY <1>1, <1>2, <1>3, <1>4, <1>6 DEF BoardInv, RegsTyped

\* The two bytes of a length.
LEMMA LengthType ==
    ASSUME FsmTyped, NEW lo \in BOOLEAN, NEW hi \in Counting \ {"REG_RD_1"},
           q_state \notin Counting, Byte \in ByteValue, Length(lo, hi)
    PROVE  /\ q_execute_cnt' \in 0 .. Count - 1 /\ q_state' \in States
           /\ q_state' \in Counting => q_execute_cnt' # 0
           /\ q_state' # "REG_RD_1"
<1>1. Count \in Nat /\ Count >= 8
  BY Sizes
<1> DEFINE n == IF lo THEN Byte
                ELSE (IF q_state = "MEM_RD_0" THEN 2 ELSE 1) * (256 * Byte + (q_execute_cnt % 256))
<1>2. n \in Nat
  <2>1. Byte \in Nat /\ q_execute_cnt \in Nat
    BY <1>1 DEF ByteValue, FsmTyped
  <2>2. q_execute_cnt % 256 \in Nat
    BY <2>1
  <2> DEFINE m == 256 * Byte + (q_execute_cnt % 256)
  <2>3. m \in Nat
    BY <2>1, <2>2
  <2> HIDE DEF m
  <2>4. 2 * m \in Nat /\ 1 * m \in Nat
    BY <2>3
  <2> QED BY <2>1, <2>4 DEF m
<1>3. q_execute_cnt' = n % Count
  BY DEF Length
<1> HIDE DEF n
<1>4. q_execute_cnt' \in 0 .. Count - 1
  BY <1>1, <1>2, <1>3
<1>5. q_state' = q_state \/ q_state' = "DECODE" \/ (q_state' = hi /\ q_execute_cnt' # 0)
  BY DEF Length
<1> QED
  BY <1>4, <1>5 DEF FsmTyped, States, Counting

LEMMA HeaderType ==
    ASSUME BoardInv, Header
    PROVE  /\ BufferTyped' /\ InputTyped' /\ LineTyped' /\ RegsTyped' /\ RamTyped'
           /\ q_decode_cnt' \in 0 .. 7 /\ q_err_code' \in BOOLEAN
           /\ Byte \in ByteValue
<1>1. BufferTyped' /\ InputTyped' /\ LineTyped' /\ q_io_en' = FALSE /\ Byte \in ByteValue
  BY QuietType, TakeType DEF Header
<1>2. RegsTyped'
  <2>1. wr' = <<>> /\ inwr' = <<>>
    BY DEF Header
  <2>2. wr' \in Seq(Sent) /\ Len(wr') <= 1
    BY <2>1, NothingSent
  <2>3. inwr' \in Seq(ByteValue) /\ Len(inwr') <= 1
    BY <2>1, NothingSent
  <2> QED BY <1>1, <2>2, <2>3 DEF RegsTyped
<1>3. RamTyped' /\ q_err_code' \in BOOLEAN
  BY DEF Header, BoardInv, RamTyped, FsmTyped
<1>4. q_decode_cnt' \in 0 .. 7
  BY DEF Header, BoardInv, FsmTyped
<1> QED BY <1>1, <1>2, <1>3, <1>4

LEMMA LengthStageType ==
    ASSUME BoardInv, S_ECHO_STG_0 \/ S_IO_IN_STG_0 PROVE BoardInv'
<1>1. Header
  BY DEF S_ECHO_STG_0, S_IO_IN_STG_0
<1>2. /\ BufferTyped' /\ InputTyped' /\ LineTyped' /\ RegsTyped' /\ RamTyped'
      /\ q_decode_cnt' \in 0 .. 7 /\ q_err_code' \in BOOLEAN
      /\ Byte \in ByteValue
  BY <1>1, HeaderType
<1>3. PICK hi \in Counting \ {"REG_RD_1"} : Length(q_decode_cnt = 0, hi)
  BY DEF S_ECHO_STG_0, S_IO_IN_STG_0, Counting
<1>4. q_state \notin Counting /\ q_addr' = q_addr /\ FsmTyped
  BY DEF S_ECHO_STG_0, S_IO_IN_STG_0, Counting, BoardInv
<1>5. /\ q_execute_cnt' \in 0 .. Count - 1 /\ q_state' \in States
      /\ q_state' \in Counting => q_execute_cnt' # 0
      /\ q_state' # "REG_RD_1"
  <2>1. (q_decode_cnt = 0) \in BOOLEAN
    OBVIOUS
  <2> QED BY <1>2, <1>3, <1>4, <2>1, LengthType
<1>6. FsmTyped'
  BY <1>2, <1>4, <1>5 DEF FsmTyped
<1> QED BY <1>2, <1>6 DEF BoardInv

LEMMA MemStageType ==
    ASSUME BoardInv, S_MEM_STG_0 PROVE BoardInv'
<1>1. Header
  BY DEF S_MEM_STG_0
<1>2. /\ BufferTyped' /\ InputTyped' /\ LineTyped' /\ RegsTyped' /\ RamTyped'
      /\ q_decode_cnt' \in 0 .. 7 /\ q_err_code' \in BOOLEAN
      /\ Byte \in ByteValue
  BY <1>1, HeaderType
<1>3. q_state \notin Counting /\ FsmTyped
  BY DEF S_MEM_STG_0, Counting, BoardInv
<1>4. CASE q_decode_cnt < 3
  <2>1. q_decode_cnt \in {0, 1, 2} /\ RamSize \in Nat \ {0} /\ q_addr \in Nat
    BY <1>3, <1>4, Sizes DEF FsmTyped
  <2>2. AddressWith(Byte) \in Nat
    <3>1. Byte \in Nat
      BY <1>2 DEF ByteValue
    <3>2. 256 * Byte + (q_addr % 256) \in Nat /\ 65536 * Byte + (q_addr % 65536) \in Nat
      BY <2>1, <3>1
    <3> QED BY <2>1, <3>1, <3>2 DEF AddressWith
  <2>3. q_addr' = AddressWith(Byte) % RamSize /\ q_state' = q_state /\ q_execute_cnt' = q_execute_cnt
    BY <1>4 DEF S_MEM_STG_0
  <2>4. q_addr' \in 0 .. RamSize - 1
    BY <2>1, <2>2, <2>3
  <2>5. FsmTyped'
    BY <1>2, <1>3, <2>3, <2>4 DEF FsmTyped, Counting
  <2> QED BY <1>2, <2>5 DEF BoardInv
<1>5. CASE ~(q_decode_cnt < 3)
  <2>1. PICK hi \in Counting \ {"REG_RD_1"} : Length(q_decode_cnt = 3, hi)
    BY <1>5 DEF S_MEM_STG_0, Counting
  <2>2. q_addr' = q_addr
    BY <1>5 DEF S_MEM_STG_0
  <2>3. /\ q_execute_cnt' \in 0 .. Count - 1 /\ q_state' \in States
        /\ q_state' \in Counting => q_execute_cnt' # 0
        /\ q_state' # "REG_RD_1"
    <3>1. (q_decode_cnt = 3) \in BOOLEAN
      OBVIOUS
    <3> QED BY <1>2, <1>3, <2>1, <3>1, LengthType
  <2>4. FsmTyped'
    BY <1>2, <1>3, <2>2, <2>3 DEF FsmTyped
  <2> QED BY <1>2, <2>4 DEF BoardInv
<1> QED BY <1>4, <1>5

\* One byte of a command less to do.
LEMMA AdvanceType ==
    ASSUME FsmTyped, q_state \in Counting, Advance
    PROVE  /\ q_execute_cnt' = q_execute_cnt - 1 /\ q_execute_cnt' \in 0 .. Count - 1
           /\ q_state' = IF q_execute_cnt' = 0 THEN "DECODE" ELSE q_state
           /\ q_state' \in States /\ q_decode_cnt' \in 0 .. 7 /\ q_err_code' \in BOOLEAN
           /\ q_state' \in Counting => q_execute_cnt' # 0
<1>1. q_execute_cnt \in 1 .. Count - 1 /\ Count \in Nat
  BY Sizes DEF FsmTyped
<1>2. q_execute_cnt' = q_execute_cnt - 1
  BY <1>1 DEF Advance
<1>3. q_state' = IF q_execute_cnt' = 0 THEN "DECODE" ELSE q_state
  BY DEF Advance
<1> QED
  BY <1>1, <1>2, <1>3 DEF Advance, FsmTyped, States, Counting

\* A cycle that takes no byte and one that has none to put into the buffers.
LEMMA NoInput ==
    ASSUME inwr' = <<>>
    PROVE  inwr' \in Seq(ByteValue) /\ Len(inwr') <= 1
  BY NothingSent

LEMMA NoReply ==
    ASSUME wr' = <<>>
    PROVE  wr' \in Seq(Sent) /\ Len(wr') <= 1
  BY NothingSent

LEMMA LineStays ==
    ASSUME BoardInv, UNCHANGED rx PROVE LineTyped'
  BY DEF BoardInv, LineTyped

LEMMA RamStays ==
    ASSUME BoardInv, UNCHANGED ram PROVE RamTyped'
  BY DEF BoardInv, RamTyped

LEMMA EchoType ==
    ASSUME BoardInv, S_ECHO_STG_1 PROVE BoardInv'
<1>1. BufferTyped' /\ InputTyped' /\ LineTyped' /\ q_io_en' = FALSE /\ Byte \in ByteValue
  BY QuietType, TakeType DEF S_ECHO_STG_1
<1>2. wr' \in Seq(Sent) /\ Len(wr') <= 1
  <2>1. Send("echo", Byte) /\ "echo" \in Sources
    BY DEF S_ECHO_STG_1, Sources
  <2> QED BY ONLY <1>1, <2>1, SendType
<1>3. RamTyped'
  BY RamStays DEF S_ECHO_STG_1
<1>4. inwr' \in Seq(ByteValue) /\ Len(inwr') <= 1
  BY NoInput DEF S_ECHO_STG_1
<1>5. FsmTyped'
  <2>1. FsmTyped /\ q_state = "ECHO_1" /\ q_state \in Counting /\ Advance /\ q_addr' = q_addr
    BY DEF S_ECHO_STG_1, BoardInv, Counting
  <2> QED BY <2>1, AdvanceType DEF FsmTyped
<1> QED BY <1>1, <1>2, <1>3, <1>4, <1>5 DEF BoardInv, RegsTyped

LEMMA InputByteType ==
    ASSUME BoardInv, S_IO_IN_STG_1 PROVE BoardInv'
<1>1. BufferTyped' /\ InputTyped' /\ LineTyped' /\ q_io_en' = FALSE /\ Byte \in ByteValue
  BY QuietType, TakeType DEF S_IO_IN_STG_1
<1>2. wr' \in Seq(Sent) /\ Len(wr') <= 1
  BY NoReply DEF S_IO_IN_STG_1
<1>3. RamTyped'
  BY RamStays DEF S_IO_IN_STG_1
<1>4. inwr' \in Seq(ByteValue) /\ Len(inwr') <= 1
  <2>1. <<Byte>> \in Seq(ByteValue) /\ Len(<<Byte>>) = 1
    BY <1>1, Single
  <2> QED BY <2>1, NothingSent DEF S_IO_IN_STG_1
<1>5. FsmTyped'
  <2>1. FsmTyped /\ q_state = "IO_IN_1" /\ q_state \in Counting /\ Advance /\ q_addr' = q_addr
    BY DEF S_IO_IN_STG_1, BoardInv, Counting
  <2> QED BY <2>1, AdvanceType DEF FsmTyped
<1> QED BY <1>1, <1>2, <1>3, <1>4, <1>5 DEF BoardInv, RegsTyped

LEMMA MemWriteType ==
    ASSUME BoardInv, S_MEM_WR_STG_1 PROVE BoardInv'
<1>1. BufferTyped' /\ InputTyped' /\ LineTyped' /\ q_io_en' = FALSE /\ Byte \in ByteValue
  BY QuietType, TakeType DEF S_MEM_WR_STG_1
<1>2. wr' \in Seq(Sent) /\ Len(wr') <= 1
  BY NoReply DEF S_MEM_WR_STG_1
<1>3. RamTyped'
  BY <1>1 DEF S_MEM_WR_STG_1, BoardInv, RamTyped
<1>4. inwr' \in Seq(ByteValue) /\ Len(inwr') <= 1
  BY NoInput DEF S_MEM_WR_STG_1
<1>5. FsmTyped'
  <2>1. FsmTyped /\ q_state = "MEM_WR_1" /\ q_state \in Counting /\ Advance
    BY DEF S_MEM_WR_STG_1, BoardInv, Counting
  <2>2. q_addr' \in 0 .. RamSize - 1
    BY Sizes DEF S_MEM_WR_STG_1, BoardInv, FsmTyped
  <2> QED BY <2>1, <2>2, AdvanceType DEF FsmTyped
<1> QED BY <1>1, <1>2, <1>3, <1>4, <1>5 DEF BoardInv, RegsTyped

LEMMA QueryType ==
    ASSUME BoardInv, S_QUERY_ERR_CODE PROVE BoardInv'
<1>1. BufferTyped' /\ InputTyped' /\ q_io_en' = FALSE /\ LineTyped' /\ RamTyped'
  BY QuietType, LineStays, RamStays DEF S_QUERY_ERR_CODE
<1>2. wr' \in Seq(Sent) /\ Len(wr') <= 1
  <2> DEFINE b == IF q_err_code THEN 2 ELSE 0
  <2>1. Send("err", b) /\ "err" \in Sources /\ b \in ByteValue
    BY DEF S_QUERY_ERR_CODE, Sources, ByteValue
  <2> QED BY ONLY <2>1, SendType
<1>3. inwr' \in Seq(ByteValue) /\ Len(inwr') <= 1
  BY NoInput DEF S_QUERY_ERR_CODE
<1>4. FsmTyped'
  BY DEF S_QUERY_ERR_CODE, BoardInv, FsmTyped, States, Counting
<1> QED BY <1>1, <1>2, <1>3, <1>4 DEF BoardInv, RegsTyped

LEMMA RegStartType ==
    ASSUME BoardInv, S_CPU_REG_RD_STG0 PROVE BoardInv'
<1>1. BufferTyped' /\ InputTyped' /\ q_io_en' = FALSE /\ LineTyped' /\ RamTyped'
  BY QuietType, LineStays, RamStays DEF S_CPU_REG_RD_STG0
<1>2. wr' \in Seq(Sent) /\ Len(wr') <= 1 /\ inwr' \in Seq(ByteValue) /\ Len(inwr') <= 1
  BY NoReply, NoInput DEF S_CPU_REG_RD_STG0
<1>3. FsmTyped'
  BY Sizes DEF S_CPU_REG_RD_STG0, BoardInv, FsmTyped, States, Counting
<1> QED BY <1>1, <1>2, <1>3 DEF BoardInv, RegsTyped

LEMMA RegByteType ==
    ASSUME BoardInv, S_CPU_REG_RD_STG1 PROVE BoardInv'
<1>1. BufferTyped' /\ InputTyped' /\ q_io_en' = FALSE /\ LineTyped' /\ RamTyped'
  BY QuietType, LineStays, RamStays DEF S_CPU_REG_RD_STG1
<1>2. FsmTyped /\ q_state = "REG_RD_1" /\ q_state \in Counting /\ Advance /\ q_addr' = q_addr + 1
  BY DEF S_CPU_REG_RD_STG1, BoardInv, Counting
<1>3. q_addr \in 0 .. 3 /\ q_execute_cnt + q_addr = 4
  BY <1>2, Sizes DEF FsmTyped
<1>4. wr' \in Seq(Sent) /\ Len(wr') <= 1
  <2> DEFINE b == DbgReg[q_addr + 1]
  <2>1. Send("reg", b) /\ "reg" \in Sources
    BY DEF S_CPU_REG_RD_STG1, Sources
  <2>2. b \in ByteValue
    <3>1. q_addr + 1 \in 1 .. 4
      BY <1>3
    <3> QED BY <3>1, DbgRegType
  <2> QED BY ONLY <2>1, <2>2, SendType
<1>5. inwr' \in Seq(ByteValue) /\ Len(inwr') <= 1
  BY NoInput DEF S_CPU_REG_RD_STG1
<1>6. FsmTyped'
  <2>1. q_addr' \in 0 .. RamSize - 1
    BY <1>2, <1>3, Sizes
  <2>2. /\ q_execute_cnt' = q_execute_cnt - 1 /\ q_execute_cnt' \in 0 .. Count - 1
        /\ q_state' \in States /\ q_decode_cnt' \in 0 .. 7 /\ q_err_code' \in BOOLEAN
        /\ q_state' \in Counting => q_execute_cnt' # 0
    BY <1>2, AdvanceType
  <2>3. q_execute_cnt' + q_addr' = 4
    <3>1. q_execute_cnt \in Nat /\ q_addr \in Nat
      BY <1>2, <1>3, Sizes DEF FsmTyped
    <3> QED BY <1>2, <1>3, <2>2, <3>1
  <2> QED BY <2>1, <2>2, <2>3 DEF FsmTyped
<1> QED BY <1>1, <1>4, <1>5, <1>6 DEF BoardInv, RegsTyped

LEMMA MemReadType ==
    ASSUME BoardInv, S_MEM_RD_STG_1 PROVE BoardInv'
<1>1. BufferTyped' /\ InputTyped' /\ q_io_en' = FALSE /\ LineTyped' /\ RamTyped'
  BY QuietType, LineStays, RamStays DEF S_MEM_RD_STG_1
<1>2. inwr' \in Seq(ByteValue) /\ Len(inwr') <= 1
  BY NoInput DEF S_MEM_RD_STG_1
<1>3. FsmTyped /\ q_state = "MEM_RD_1" /\ q_state \in Counting
  BY DEF S_MEM_RD_STG_1, BoardInv, Counting
<1>4. CASE q_execute_cnt % 2 = 0
  <2>1. wr' \in Seq(Sent) /\ Len(wr') <= 1
    BY <1>4, NoReply DEF S_MEM_RD_STG_1
  <2>2. q_execute_cnt \in 2 .. Count - 1 /\ q_execute_cnt' = q_execute_cnt - 1
        /\ UNCHANGED <<q_state, q_decode_cnt, q_err_code, q_addr>>
    <3>1. q_execute_cnt \in 1 .. Count - 1 /\ Count \in Nat
      BY <1>3, Sizes DEF FsmTyped
    <3>2. q_execute_cnt # 1
      BY <1>4
    <3>3. q_execute_cnt \in 2 .. Count - 1
      BY <3>1, <3>2
    <3> QED BY <1>4, <3>3 DEF S_MEM_RD_STG_1
  <2>3. FsmTyped'
    BY <1>3, <2>2, Sizes DEF FsmTyped
  <2> QED BY <1>1, <1>2, <2>1, <2>3 DEF BoardInv, RegsTyped
<1>5. CASE q_execute_cnt % 2 # 0
  <2>1. Advance /\ q_addr' = (q_addr + 1) % RamSize
    BY <1>5 DEF S_MEM_RD_STG_1
  <2>2. wr' \in Seq(Sent) /\ Len(wr') <= 1
    <3> DEFINE b == ram[q_addr]
    <3>1. Send("mem", b) /\ "mem" \in Sources
      BY <1>5 DEF S_MEM_RD_STG_1, Sources
    <3>2. b \in ByteValue
      BY DEF BoardInv, RamTyped, FsmTyped
    <3> QED BY ONLY <3>1, <3>2, SendType
  <2>3. q_addr' \in 0 .. RamSize - 1
    BY <1>3, <2>1, Sizes DEF FsmTyped
  <2>4. FsmTyped'
    BY <1>3, <2>1, <2>3, AdvanceType DEF FsmTyped
  <2> QED BY <1>1, <1>2, <2>2, <2>4 DEF BoardInv, RegsTyped
<1> QED BY <1>4, <1>5

LEMMA WaitType ==
    ASSUME BoardInv, S_WAIT PROVE BoardInv'
<1>1. BufferTyped' /\ InputTyped' /\ q_io_en' = FALSE /\ LineTyped' /\ RamTyped'
  BY QuietType, LineStays, RamStays DEF S_WAIT
<1>2. wr' \in Seq(Sent) /\ Len(wr') <= 1 /\ inwr' \in Seq(ByteValue) /\ Len(inwr') <= 1
  BY NoReply, NoInput DEF S_WAIT
<1>3. FsmTyped'
  BY DEF S_WAIT, fsmVars, BoardInv, FsmTyped
<1> QED BY <1>1, <1>2, <1>3 DEF BoardInv, RegsTyped

LEMMA CycleType ==
    ASSUME BoardInv, Cycle PROVE BoardInv'
  BY DisabledType, DecodeType, LengthStageType, MemStageType, EchoType, InputByteType,
     MemWriteType, QueryType, RegStartType, RegByteType, MemReadType, WaitType DEF Cycle

LEMMA IoWriteType ==
    ASSUME BoardInv, NEW s \in {"out", "ret"}, NEW b \in ByteValue, IoWrite(s, b)
    PROVE  BoardInv'
<1>1. BufferTyped' /\ InputTyped' /\ LineTyped' /\ RamTyped' /\ q_io_en' = TRUE
  BY TransmitType, StoreInputType, LineStays, RamStays DEF IoWrite, Access
<1>2. wr' \in Seq(Sent) /\ Len(wr') <= 1
  <2>1. CASE wr' = <<>>
    BY <2>1, NoReply
  <2>2. CASE Send(s, b)
    <3>1. s \in Sources
      BY DEF Sources
    <3> QED BY ONLY <2>2, <3>1, b \in ByteValue, SendType
  <2> QED BY <2>1, <2>2 DEF IoWrite
<1>3. inwr' \in Seq(ByteValue) /\ Len(inwr') <= 1
  BY NoInput DEF IoWrite
<1>4. FsmTyped'
  BY DEF IoWrite, Access, fsmVars, BoardInv, FsmTyped
<1> QED BY <1>1, <1>2, <1>3, <1>4 DEF BoardInv, RegsTyped

LEMMA IoReadType ==
    ASSUME BoardInv, IoRead PROVE BoardInv'
<1>1. BufferTyped' /\ InputTyped' /\ RamTyped' /\ q_io_en' = TRUE
  BY TransmitType, StoreInputType, RamStays DEF IoRead, Access
<1>2. wr' \in Seq(Sent) /\ Len(wr') <= 1
  BY NoReply DEF IoRead
<1>3. LineTyped' /\ inwr' \in Seq(ByteValue) /\ Len(inwr') <= 1
  <2>1. CASE UNCHANGED rx /\ inwr' = <<>>
    BY <2>1, LineStays, NoInput
  <2>2. CASE Take /\ inwr' = <<Byte>>
    BY <2>2, TakeType, Single
  <2> QED BY <2>1, <2>2 DEF IoRead, Take
<1>4. FsmTyped'
  BY DEF IoRead, Access, fsmVars, BoardInv, FsmTyped
<1> QED BY <1>1, <1>2, <1>3, <1>4 DEF BoardInv, RegsTyped

LEMMA ResetType ==
    ASSUME BoardInv, ResetHci PROVE BoardInv'
<1>1. FsmTyped'
  <2>1. q_state' = "DECODE" /\ q_decode_cnt' = 0 /\ q_execute_cnt' = 0 /\ q_addr' = 0
        /\ q_err_code' = FALSE
    BY DEF ResetHci
  <2>2. q_state' \in States \ Counting /\ q_decode_cnt' \in 0 .. 7
        /\ q_execute_cnt' \in 0 .. Count - 1 /\ q_addr' \in 0 .. RamSize - 1
    BY <2>1, Sizes DEF States, Counting
  <2> QED BY <2>1, <2>2 DEF FsmTyped, Counting
<1>2. RegsTyped'
  BY NoInput, NoReply DEF ResetHci, RegsTyped
<1>3. BufferTyped' /\ InputTyped' /\ LineTyped'
  <2>1. tx' = <<>> /\ flag' = "exact" /\ fresh' = FALSE /\ inbuf' = <<>> /\ rx' = <<>>
    BY DEF ResetHci
  <2>2. <<>> \in Seq(ByteValue) /\ Len(<<>>) = 0
    BY NothingSent
  <2>3. BufferTyped'
    <3>1. tx' \in Seq(ByteValue) /\ Len(tx') = 0 /\ TxCap >= 0
      BY <2>1, <2>2, Sizes
    <3> QED BY <2>1, <3>1 DEF BufferTyped
  <2>4. InputTyped' /\ LineTyped'
    BY <2>1, <2>2, Sizes DEF InputTyped, LineTyped
  <2> QED BY <2>3, <2>4
<1>4. RamTyped'
  BY RamStays DEF ResetHci
<1> QED BY <1>1, <1>2, <1>3, <1>4 DEF BoardInv

LEMMA InitType ==
    ASSUME InitHci PROVE BoardInv
<1>1. FsmTyped
  <2>1. q_state = "DECODE" /\ q_decode_cnt = 0 /\ q_execute_cnt = 0 /\ q_addr = 0
        /\ q_err_code = FALSE
    BY DEF InitHci
  <2>2. q_state \in States \ Counting /\ q_decode_cnt \in 0 .. 7
        /\ q_execute_cnt \in 0 .. Count - 1 /\ q_addr \in 0 .. RamSize - 1
    BY <2>1, Sizes DEF States, Counting
  <2> QED BY <2>1, <2>2 DEF FsmTyped, Counting
<1>2. RegsTyped
  <2>1. wr = <<>> /\ inwr = <<>> /\ q_io_en = FALSE
    BY DEF InitHci
  <2>2. wr \in Seq(Sent) /\ Len(wr) <= 1
    BY <2>1, NothingSent
  <2>3. inwr \in Seq(ByteValue) /\ Len(inwr) <= 1
    BY <2>1, NothingSent
  <2> QED BY <2>1, <2>2, <2>3 DEF RegsTyped
<1>3. BufferTyped /\ InputTyped /\ LineTyped
  <2>1. tx = <<>> /\ flag = "exact" /\ fresh = FALSE /\ inbuf = <<>> /\ rx = <<>>
    BY DEF InitHci
  <2>2. <<>> \in Seq(ByteValue) /\ Len(<<>>) = 0
    BY NothingSent
  <2>3. BufferTyped
    <3>1. tx \in Seq(ByteValue) /\ Len(tx) = 0 /\ TxCap >= 0
      BY <2>1, <2>2, Sizes
    <3> QED BY <2>1, <3>1 DEF BufferTyped
  <2>4. InputTyped /\ LineTyped
    BY <2>1, <2>2, Sizes DEF InputTyped, LineTyped
  <2> QED BY <2>3, <2>4
<1>4. RamTyped
  BY DEF InitHci, RamTyped, ByteValue
<1> QED BY <1>1, <1>2, <1>3, <1>4 DEF BoardInv
-----------------------------------------------------------------------------
(* The controller and the line.                                            *)

HostTyped ==
    /\ hpc \in {"off", "junk", "sleep", "hello", "ram", "preface", "input",
                "ready", "pc", "askmem", "mem", "collect"}
    /\ blk \in Nat /\ pc \in ByteValue /\ peeks \in 0 .. MaxPeek /\ late \in BOOLEAN

LinkTyped == down \in Seq(ByteValue) /\ up \in Seq(ByteValue)

ProgramTyped == ip \in 1 .. Len(Program) + 1

Typed == BoardInv /\ HostTyped /\ LinkTyped /\ ProgramTyped

\* A reply of MEM_RD that is on its way to the transmit buffer finds room:
\* the state machine has looked, and let the cycle pass that the register
\* before the buffer takes.
MemRoom ==
    /\ "mem" \notin lost
    /\ wr # <<>> /\ wr[1].src = "mem" => ~tx_full
    /\ q_state = "MEM_RD_1" /\ q_execute_cnt % 2 = 1 => wr = <<>>

LEMMA TypedImplies == Typed => TypeOK
  BY BoardTyped DEF Typed, HostTyped, LinkTyped, ProgramTyped, TypeOK, ByteValue

(* Sequences of bytes.                                                     *)

LEMMA SliceType ==
    ASSUME NEW S, NEW s \in Seq(S), NEW m \in Nat \ {0}, NEW n \in Int, n <= Len(s)
    PROVE  SubSeq(s, m, n) \in Seq(S) /\ Len(SubSeq(s, m, n)) = IF m <= n THEN n - m + 1 ELSE 0
<1>1. \A i \in m .. n : i \in 1 .. Len(s)
  BY LenProperties
<1>2. \A i \in m .. n : s[i] \in S
  BY <1>1, ElementOfSeq
<1> QED BY <1>2, SubSeqProperties

LEMMA FrontType ==
    ASSUME NEW S, NEW s \in Seq(S), NEW n \in Nat
    PROVE  Front(s, n) \in Seq(S)
<1> DEFINE m == Min2(n, Len(s))
<1>1. Len(s) \in Nat
  BY LenProperties
<1>2. m \in Int /\ m <= Len(s)
  BY <1>1 DEF Min2
<1> HIDE DEF m
<1>3. SubSeq(s, 1, m) \in Seq(S)
  BY <1>2, SliceType
<1> QED BY <1>3 DEF Front, m

LEMMA RestType ==
    ASSUME NEW S, NEW s \in Seq(S), NEW n \in Nat
    PROVE  Rest(s, n) \in Seq(S)
<1>1. Len(s) \in Nat
  BY LenProperties
<1>2. SubSeq(s, n + 1, Len(s)) \in Seq(S)
  <2>1. n + 1 \in Nat \ {0} /\ Len(s) <= Len(s) /\ Len(s) \in Int
    BY <1>1
  <2> QED BY <2>1, SliceType
<1> QED BY <1>2 DEF Rest

LEMMA WordType ==
    ASSUME NEW n \in Nat, n < 65536
    PROVE  Word16(n) \in Seq(ByteValue) /\ Len(Word16(n)) = 2
<1>1. n % 256 \in ByteValue /\ n \div 256 \in ByteValue
  <2> DEFINE q == n \div 256
             r == n % 256
  <2>1. q \in Int /\ r \in Nat /\ r < 256 /\ n = 256 * q + r
    OBVIOUS
  <2> HIDE DEF q, r
  <2>2. q \in 0 .. 255 /\ r \in 0 .. 255
    BY <2>1
  <2> QED BY <2>2 DEF q, r, ByteValue
<1> QED BY <1>1 DEF Word16

LEMMA AddressType ==
    ASSUME NEW n \in Nat, n <= 131072
    PROVE  Address(n) \in Seq(ByteValue)
<1>1. n % 65536 \in Nat /\ n % 65536 < 65536 /\ n \div 65536 \in ByteValue
  <2> DEFINE q == n \div 65536
             r == n % 65536
  <2>1. q \in Int /\ r \in Nat /\ r < 65536 /\ n = 65536 * q + r
    OBVIOUS
  <2> HIDE DEF q, r
  <2>2. q \in 0 .. 2
    BY <2>1
  <2> QED BY <2>1, <2>2 DEF q, r, ByteValue
<1>2. Word16(n % 65536) \in Seq(ByteValue)
  BY <1>1, WordType
<1>3. <<n \div 65536>> \in Seq(ByteValue)
  BY <1>1, Single
<1> HIDE DEF ByteValue
<1> QED BY <1>2, <1>3, ConcatProperties DEF Address

LEMMA WriteType ==
    ASSUME LinkTyped, NEW p \in Seq(ByteValue), Write(p)
    PROVE  down' \in Seq(ByteValue)
  BY ConcatProperties DEF LinkTyped, Write

LEMMA CommandType ==
    ASSUME NEW c \in ByteValue, NEW s \in Seq(ByteValue), NEW t \in Seq(ByteValue)
    PROVE  <<c>> \o s \o t \in Seq(ByteValue)
<1>1. <<c>> \in Seq(ByteValue)
  BY Single
<1>2. <<c>> \o s \in Seq(ByteValue)
  BY <1>1, ConcatProperties
<1> QED BY <1>2, ConcatProperties

LEMMA ReplyType ==
    ASSUME LinkTyped, NEW n \in Nat, Reply(n)
    PROVE  up' \in Seq(ByteValue)
  BY RestType DEF LinkTyped, Reply

LEMMA Sources8 ==
    /\ {RamBlk, InBlk, PeekSize} \subseteq Nat \ {0}
    /\ RamBlk <= 65535 /\ InBlk <= 65535 /\ PeekSize <= 65535
    /\ RamData \in Seq(ByteValue) /\ Input \in Seq(ByteValue)
    /\ Len(RamData) \in Nat /\ Len(Input) \in Nat /\ Len(RamData) <= 131072
    /\ Len(RamData) % RamBlk = 0
    /\ MaxPeek \in Nat
<1>1. RamData \in Seq(ByteValue) /\ Input \in Seq(ByteValue)
  BY HostAssumption DEF ByteValue
<1>2. Len(RamData) \in Nat /\ Len(Input) \in Nat
  BY <1>1, LenProperties
<1>3. RamSize \in Nat /\ RamSize <= 131072
  BY HciAssumption
<1>4. Len(RamData) <= RamSize /\ Len(RamData) % RamBlk = 0
  BY HostAssumption
<1>5. /\ {RamBlk, InBlk, PeekSize} \subseteq Nat \ {0} /\ MaxPeek \in Nat
      /\ RamBlk <= 65535 /\ InBlk <= 65535 /\ PeekSize <= 65535
  BY HostAssumption
<1>6. Len(RamData) <= 131072
  BY <1>2, <1>3, <1>4
<1> QED BY <1>1, <1>2, <1>4, <1>5, <1>6

LEMMA ProgramType ==
    ASSUME NEW i \in 1 .. Len(Program)
    PROVE  /\ Program[i].op \in {"out", "in", "ret"} /\ Program[i].byte \in ByteValue
<1>1. Program \in Seq([op : {"out", "in", "ret"}, byte : 0 .. 255])
  BY HostAssumption
<1>2. Program[i] \in [op : {"out", "in", "ret"}, byte : 0 .. 255]
  BY <1>1, ElementOfSeq
<1> QED BY <1>2 DEF ByteValue

LEMMA ProgramLength == Len(Program) \in Nat
<1>1. Program \in Seq([op : {"out", "in", "ret"}, byte : 0 .. 255])
  BY HostAssumption
<1> QED BY <1>1, LenProperties

\* A block of the image lies in it, and its bytes follow its address.
LEMMA BlockType ==
    ASSUME blk \in Nat, blk * RamBlk < Len(RamData)
    PROVE  /\ blk * RamBlk \in Nat /\ blk * RamBlk <= 131072
           /\ (blk + 1) * RamBlk <= Len(RamData) /\ (blk + 1) * RamBlk = blk * RamBlk + RamBlk
           /\ SubSeq(RamData, blk * RamBlk + 1, (blk + 1) * RamBlk) \in Seq(ByteValue)
<1> DEFINE n == Len(RamData)
           k == n \div RamBlk
           from == blk * RamBlk
           to == (blk + 1) * RamBlk
<1>1. RamBlk \in Nat \ {0} /\ n \in Nat /\ n % RamBlk = 0 /\ n <= 131072 /\ RamData \in Seq(ByteValue)
  BY Sources8
<1> HIDE DEF n
<1>2. k \in Nat /\ n = k * RamBlk
  BY <1>1
<1> HIDE DEF k
<1>3. from \in Nat /\ to = from + RamBlk /\ from < n
  BY <1>1 DEF n
<1>4. blk < k
  <2>1. CASE k <= blk
    <3>1. k * RamBlk <= blk * RamBlk
      BY <1>1, <1>2, <2>1
    <3> QED BY <1>2, <1>3, <3>1
  <2> QED BY <1>2, <2>1
<1>5. to <= n
  <2>1. blk + 1 <= k
    BY <1>2, <1>4
  <2>2. (blk + 1) * RamBlk <= k * RamBlk
    BY <1>1, <1>2, <2>1
  <2> QED BY <1>2, <2>2
<1> HIDE DEF from, to
<1>6. SubSeq(RamData, from + 1, to) \in Seq(ByteValue)
  <2>1. from + 1 \in Nat \ {0} /\ to \in Int /\ to <= Len(RamData)
    BY <1>1, <1>3, <1>5 DEF n
  <2> QED BY <1>1, <2>1, SliceType
<1>7. from \in Nat /\ from <= 131072
  BY <1>1, <1>3
<1> QED BY <1>3, <1>5, <1>6, <1>7 DEF from, to, n

LEMMA InputBlockType ==
    ASSUME blk \in Nat, blk * InBlk < Len(Input),
           NEW dat, dat = SubSeq(Input, blk * InBlk + 1, Min2((blk + 1) * InBlk, Len(Input)))
    PROVE  dat \in Seq(ByteValue) /\ Len(dat) \in 1 .. InBlk
<1> DEFINE n == Len(Input)
           from == blk * InBlk
           to == (blk + 1) * InBlk
           end == Min2(to, n)
<1>1. InBlk \in Nat \ {0} /\ n \in Nat /\ Input \in Seq(ByteValue)
  BY Sources8
<1>2. from \in Nat /\ to = from + InBlk /\ from < n
  BY <1>1
<1> HIDE DEF n, from, to
<1>3. end \in Int /\ end <= n /\ from + 1 <= end /\ end <= from + InBlk
  BY <1>1, <1>2 DEF Min2
<1> HIDE DEF end
<1>4. dat = SubSeq(Input, from + 1, end)
  BY DEF end, from, to, n
<1>5. dat \in Seq(ByteValue) /\ Len(dat) = IF from + 1 <= end THEN end - (from + 1) + 1 ELSE 0
  <2>1. from + 1 \in Nat \ {0} /\ end <= Len(Input)
    BY <1>2, <1>3 DEF n
  <2>2. /\ SubSeq(Input, from + 1, end) \in Seq(ByteValue)
        /\ Len(SubSeq(Input, from + 1, end)) = IF from + 1 <= end THEN end - (from + 1) + 1 ELSE 0
    BY <1>1, <1>3, <2>1, SliceType, Zenon
  <2> QED BY <1>4, <2>2
<1> QED BY <1>1, <1>2, <1>3, <1>5

(* Every step keeps the types.                                             *)

LEMMA BoardStays == ASSUME BoardInv, UNCHANGED hciVars PROVE BoardInv'
<1>1. BufferTyped' /\ InputTyped' /\ LineTyped' /\ RamTyped'
  BY DEF BoardInv, BufferTyped, InputTyped, LineTyped, RamTyped, hciVars, txVars
<1>2. RegsTyped' /\ FsmTyped'
  BY DEF BoardInv, RegsTyped, FsmTyped, hciVars, fsmVars
<1> QED BY <1>1, <1>2 DEF BoardInv

\* A byte that was sent aside came from the front of the transmit buffer.
LEMMA SentAsideFront ==
    ASSUME BoardInv, NEW d, Transmit(d), SentAside
    PROVE  tx # <<>> /\ Head(tx) \in ByteValue
<1>1. tx \in Seq(ByteValue)
  BY DEF BoardInv, BufferTyped
<1>2. Len(tx) \in {1, TxCap - 1}
  BY DEF Transmit, Push, SentAside
<1>3. tx # <<>>
  BY <1>2, Sizes, EmptySeq
<1> QED BY <1>1, <1>3, HeadTailProperties

LEMMA AsideType ==
    ASSUME BoardInv, LinkTyped, NEW d, Transmit(d), Aside, UNCHANGED down
    PROVE  LinkTyped'
<1>1. CASE SentAside
  BY <1>1, SentAsideFront, AppendProperties DEF LinkTyped, Aside
<1>2. CASE ~SentAside
  BY <1>2 DEF LinkTyped, Aside
<1> QED BY <1>1, <1>2

\* Every cycle, with or without an access, moves the transmit buffer.
LEMMA CycleTransmits == ASSUME Cycle PROVE Transmit({})
  BY DEF Cycle, S_DISABLED, S_DECODE, S_ECHO_STG_0, S_ECHO_STG_1, S_IO_IN_STG_0, S_IO_IN_STG_1,
         S_MEM_STG_0, S_MEM_RD_STG_1, S_MEM_WR_STG_1, S_QUERY_ERR_CODE, S_CPU_REG_RD_STG0,
         S_CPU_REG_RD_STG1, S_WAIT, Header, Quietly

LEMMA BoardCycleTyped == ASSUME Typed, BoardCycle PROVE Typed'
<1>1. BoardInv'
  BY CycleType DEF Typed, BoardCycle
<1>2. HostTyped'
  BY DEF Typed, HostTyped, BoardCycle, hostVars
<1>3. LinkTyped'
  BY AsideType, CycleTransmits DEF Typed, BoardCycle
<1>4. ProgramTyped'
  BY ProgramLength DEF Typed, ProgramTyped, BoardCycle, HoldCpu, cpuVars
<1> QED BY <1>1, <1>2, <1>3, <1>4 DEF Typed

LEMMA DeliverTyped == ASSUME Typed, Deliver PROVE Typed'
<1>1. down \in Seq(ByteValue) /\ down # <<>>
  BY DEF Typed, LinkTyped, Deliver
<1>2. Head(down) \in ByteValue /\ Tail(down) \in Seq(ByteValue)
  BY <1>1, HeadTailProperties
<1>3. LinkTyped'
  BY <1>2 DEF Typed, LinkTyped, Deliver
<1>4. LineTyped'
  <2>1. rx \in Seq(ByteValue) /\ Len(rx) <= RxCap /\ Len(rx) \in Nat /\ RxCap \in Nat
    BY LenProperties, Sizes DEF Typed, BoardInv, LineTyped
  <2>2. CASE Len(rx) < RxCap
    <3>1. rx' = Append(rx, Head(down))
      BY <2>2 DEF Deliver
    <3>2. rx' \in Seq(ByteValue) /\ Len(rx') = Len(rx) + 1
      BY <1>2, <2>1, <3>1, AppendProperties
    <3> QED BY <2>1, <2>2, <3>2 DEF LineTyped
  <2>3. CASE ~(Len(rx) < RxCap)
    <3>1. rx' = rx
      BY <2>3 DEF Deliver
    <3> QED BY <2>1, <3>1 DEF LineTyped
  <2> QED BY <2>2, <2>3
<1>5. BufferTyped' /\ InputTyped' /\ RamTyped'
  BY DEF Typed, BoardInv, BufferTyped, InputTyped, RamTyped, Deliver
<1>6. RegsTyped' /\ FsmTyped'
  BY DEF Typed, BoardInv, RegsTyped, FsmTyped, Deliver, fsmVars
<1>7. HostTyped' /\ ProgramTyped'
  BY DEF Typed, HostTyped, ProgramTyped, Deliver, hostVars, cpuVars
<1> QED BY <1>3, <1>4, <1>5, <1>6, <1>7 DEF Typed, BoardInv

LEMMA ReturnTyped == ASSUME Typed, Return PROVE Typed'
<1>1. tx \in Seq(ByteValue) /\ Len(tx) <= TxCap /\ tx # <<>> /\ Len(tx) \in Nat /\ TxCap \in Nat
  BY LenProperties, Sizes DEF Typed, BoardInv, BufferTyped, Return, SilentTx
<1>2. Head(tx) \in ByteValue /\ Tail(tx) \in Seq(ByteValue) /\ Len(Tail(tx)) = Len(tx) - 1
  BY <1>1, HeadTailProperties
<1>3. BufferTyped'
  BY <1>1, <1>2 DEF Return, BufferTyped
<1>4. LinkTyped'
  BY <1>2, AppendProperties DEF Typed, LinkTyped, Return
<1>5. InputTyped' /\ LineTyped' /\ RamTyped'
  BY DEF Typed, BoardInv, LineTyped, InputTyped, RamTyped, Return
<1>6. RegsTyped' /\ FsmTyped'
  BY DEF Typed, BoardInv, RegsTyped, FsmTyped, Return, fsmVars
<1>7. HostTyped' /\ ProgramTyped'
  BY DEF Typed, HostTyped, ProgramTyped, Return, hostVars, cpuVars
<1> QED BY <1>3, <1>4, <1>5, <1>6, <1>7 DEF Typed, BoardInv

LEMMA ProgramStepTyped == ASSUME Typed, ProgramStep PROVE Typed'
<1> DEFINE a == Program[ip]
<1>1. ip \in 1 .. Len(Program)
  BY ProgramLength DEF Typed, ProgramTyped, ProgramStep
<1>2. a.op \in {"out", "in", "ret"} /\ a.byte \in ByteValue
  BY <1>1, ProgramType
<1>3. BoardInv'
  <2>1. IF a.op = "in" THEN IoRead ELSE IoWrite(a.op, a.byte)
    BY DEF ProgramStep
  <2>2. CASE a.op = "in"
    BY <2>1, <2>2, IoReadType DEF Typed
  <2>3. CASE a.op # "in"
    <3> DEFINE s == a.op
               b == a.byte
    <3>1. s \in {"out", "ret"} /\ b \in ByteValue /\ IoWrite(s, b) /\ BoardInv
      BY <1>2, <2>1, <2>3 DEF Typed
    <3> HIDE DEF s, b
    <3> QED BY <3>1, IoWriteType
  <2> QED BY <2>2, <2>3
<1>4. LinkTyped'
  <2>1. PICK d : Transmit(d)
    BY DEF ProgramStep, IoRead, IoWrite
  <2> QED BY <2>1, AsideType DEF Typed, ProgramStep
<1>5. HostTyped'
  BY DEF Typed, HostTyped, ProgramStep, hostVars
<1>6. ProgramTyped'
  BY <1>1, ProgramLength DEF ProgramTyped, ProgramStep
<1> QED BY <1>3, <1>4, <1>5, <1>6 DEF Typed

LEMMA ResetTyped == ASSUME Typed, Reset PROVE Typed'
<1>1. BoardInv'
  BY ResetType DEF Typed, Reset
<1>2. HostTyped' /\ LinkTyped'
  BY DEF Typed, HostTyped, LinkTyped, Reset, hostVars
<1>3. ProgramTyped'
  BY ProgramLength DEF ProgramTyped, Reset
<1> QED BY <1>1, <1>2, <1>3 DEF Typed

LEMMA ToolTyped == ASSUME Typed, Tool PROVE Typed'
<1>1. BoardInv'
  BY BoardStays DEF Typed, Tool
<1>2. HostTyped' /\ ProgramTyped'
  BY DEF Typed, HostTyped, ProgramTyped, Tool, hostVars, cpuVars
<1>3. LinkTyped'
  BY HostAssumption DEF Typed, LinkTyped, Tool, ByteValue
<1> QED BY <1>1, <1>2, <1>3 DEF Typed

\* What a step of the controller leaves alone.
LEMMA OnBoardTyped == ASSUME Typed, OnBoard PROVE BoardInv' /\ ProgramTyped'
<1>1. UNCHANGED hciVars /\ UNCHANGED cpuVars
  BY DEF OnBoard
<1> QED BY <1>1, BoardStays DEF Typed, ProgramTyped, cpuVars

\* A controller that writes: the packet is one of bytes.
LEMMA WriterTyped ==
    ASSUME Typed, Echo \/ UploadRam \/ Preface \/ UploadInput \/ AskPc \/ AskMem \/ Run
    PROVE  Typed'
<1>1. BoardInv' /\ ProgramTyped'
  BY OnBoardTyped DEF Echo, UploadRam, Preface, UploadInput, AskPc, AskMem, Run
<1>2. HostTyped'
  <2>1. MaxPeek \in Nat
    BY Sources8
  <2> QED BY <2>1 DEF Typed, HostTyped, Echo, UploadRam, Preface, UploadInput, AskPc, AskMem, Run
<1>3. up' = up
  BY DEF Echo, UploadRam, Preface, UploadInput, AskPc, AskMem, Run
<1>4. PICK p \in Seq(ByteValue) : Write(p)
  <2>1. CASE Echo
    <3>1. OP_ECHO \in ByteValue /\ Hello \in Seq(ByteValue) /\ Word16(4) \in Seq(ByteValue)
      BY WordType DEF OP_ECHO, Hello, ByteValue
    <3>2. <<OP_ECHO>> \o Word16(4) \o Hello \in Seq(ByteValue)
      BY <3>1, CommandType
    <3> QED BY <2>1, <3>2 DEF Echo
  <2>2. CASE UploadRam
    <3> DEFINE s == Address(blk * RamBlk)
               w == Word16(RamBlk)
               t == SubSeq(RamData, blk * RamBlk + 1, (blk + 1) * RamBlk)
    <3>1. blk \in Nat /\ blk * RamBlk < Len(RamData)
      BY <2>2 DEF Typed, HostTyped, UploadRam
    <3>2. t \in Seq(ByteValue) /\ s \in Seq(ByteValue)
      BY <3>1, BlockType, AddressType
    <3>3. w \in Seq(ByteValue)
      <4>1. RamBlk \in Nat /\ RamBlk < 65536
        BY Sources8
      <4> QED BY <4>1, WordType
    <3>4. OP_MEM_WR \in ByteValue
      BY DEF OP_MEM_WR, ByteValue
    <3> HIDE DEF s, w, t
    <3>5. <<OP_MEM_WR>> \o s \o w \o t \in Seq(ByteValue)
      <4>1. <<OP_MEM_WR>> \o s \o w \in Seq(ByteValue)
        BY <3>2, <3>3, <3>4, CommandType
      <4> QED BY <3>2, <4>1, ConcatProperties
    <3> QED BY <2>2, <3>5 DEF UploadRam, s, w, t
  <2>3. CASE Preface
    <3>1. OP_IO_IN \in ByteValue /\ <<32, 32>> \in Seq(ByteValue) /\ Word16(2) \in Seq(ByteValue)
      BY WordType DEF OP_IO_IN, ByteValue
    <3>2. <<OP_IO_IN>> \o Word16(2) \o <<32, 32>> \in Seq(ByteValue)
      BY <3>1, CommandType
    <3> QED BY <2>3, <3>2 DEF Preface
  <2>4. CASE UploadInput
    <3> DEFINE t == SubSeq(Input, blk * InBlk + 1, Min2((blk + 1) * InBlk, Len(Input)))
               w == Word16(Len(t))
    <3>1. blk \in Nat /\ blk * InBlk < Len(Input)
      BY <2>4 DEF Typed, HostTyped, UploadInput
    <3>2. Write(<<OP_IO_IN>> \o w \o t)
      BY <2>4 DEF UploadInput
    <3>3. t \in Seq(ByteValue) /\ Len(t) \in 1 .. InBlk
      BY <3>1, InputBlockType
    <3> HIDE DEF t
    <3>4. w \in Seq(ByteValue)
      <4> DEFINE n == Len(t)
      <4>1. n \in 1 .. InBlk /\ InBlk \in Nat /\ InBlk <= 65535
        BY <3>3, Sources8
      <4> HIDE DEF n
      <4>2. n \in Nat /\ n < 65536
        BY <4>1
      <4> QED BY <4>2, WordType DEF n
    <3>5. OP_IO_IN \in ByteValue
      BY DEF OP_IO_IN, ByteValue
    <3> HIDE DEF w
    <3>6. <<OP_IO_IN>> \o w \o t \in Seq(ByteValue)
      BY <3>3, <3>4, <3>5, CommandType
    <3> QED BY <3>2, <3>6
  <2>5. CASE AskPc
    <3>1. OP_CPU_REG_RD \in ByteValue
      BY DEF OP_CPU_REG_RD, ByteValue
    <3>2. <<OP_CPU_REG_RD>> \in Seq(ByteValue)
      BY <3>1, Single
    <3> QED BY <2>5, <3>2 DEF AskPc
  <2>6. CASE AskMem
    <3> DEFINE s == Address(pc)
               w == Word16(PeekSize)
    <3>1. pc \in Nat /\ pc <= 131072 /\ PeekSize \in Nat /\ PeekSize < 65536
      BY Sources8 DEF Typed, HostTyped, ByteValue
    <3>2. s \in Seq(ByteValue) /\ w \in Seq(ByteValue) /\ OP_MEM_RD \in ByteValue
      BY <3>1, AddressType, WordType DEF OP_MEM_RD, ByteValue
    <3> HIDE DEF s, w
    <3>3. <<OP_MEM_RD>> \o s \o w \in Seq(ByteValue)
      BY <3>2, CommandType
    <3> QED BY <2>6, <3>3 DEF AskMem, s, w
  <2>7. CASE Run
    <3>1. OP_DBG_RUN \in ByteValue
      BY DEF OP_DBG_RUN, ByteValue
    <3>2. <<OP_DBG_RUN>> \in Seq(ByteValue)
      BY <3>1, Single
    <3> QED BY <2>7, <3>2 DEF Run
  <2> QED BY <2>1, <2>2, <2>3, <2>4, <2>5, <2>6, <2>7
<1>5. LinkTyped'
  BY <1>3, <1>4, WriteType DEF Typed, LinkTyped
<1> QED BY <1>1, <1>2, <1>5 DEF Typed

\* A controller that reads, or only goes on.
LEMMA ReaderTyped ==
    ASSUME Typed, \/ Junk \/ HelloReply \/ RamUploaded \/ InputUploaded
                  \/ PcReply \/ MemReply \/ OnRecv
    PROVE  Typed'
<1>1. BoardInv' /\ ProgramTyped'
  BY OnBoardTyped DEF Junk, HelloReply, RamUploaded, InputUploaded, PcReply, MemReply, OnRecv
<1>2. LinkTyped'
  <2>1. down' = down
    BY DEF Junk, HelloReply, RamUploaded, InputUploaded, PcReply, MemReply, OnRecv
  <2>2. up' \in Seq(ByteValue)
    <3>1. CASE Junk \/ HelloReply \/ PcReply \/ MemReply
      <4>1. Reply(8) \/ Reply(4) \/ Reply(PeekSize)
        BY <3>1 DEF Junk, HelloReply, PcReply, MemReply
      <4>2. 8 \in Nat /\ 4 \in Nat /\ PeekSize \in Nat /\ LinkTyped
        BY Sources8 DEF Typed
      <4> QED BY <4>1, <4>2, ReplyType, Zenon
    <3>2. CASE OnRecv
      <4>1. up \in Seq(ByteValue) /\ up # <<>> /\ up' = Tail(up)
        BY <3>2 DEF Typed, LinkTyped, OnRecv
      <4> QED BY <4>1, HeadTailProperties
    <3>3. CASE RamUploaded \/ InputUploaded
      BY <3>3 DEF Typed, LinkTyped, RamUploaded, InputUploaded
    <3> QED BY <3>1, <3>2, <3>3
  <2> QED BY <2>1, <2>2 DEF Typed, LinkTyped
<1>3. HostTyped'
  <2>1. CASE PcReply
    <3>1. up # <<>> => Head(up) \in ByteValue
      BY HeadTailProperties DEF Typed, LinkTyped
    <3>2. pc' \in ByteValue
      BY <2>1, <3>1 DEF PcReply, ByteValue
    <3> QED BY <2>1, <3>2 DEF Typed, HostTyped, PcReply
  <2>2. CASE ~PcReply
    <3>1. pc' = pc /\ peeks' = peeks /\ (blk' = blk \/ blk' = 0) /\ late' \in BOOLEAN
      BY <2>2 DEF Typed, HostTyped, Junk, HelloReply, RamUploaded, InputUploaded, MemReply, OnRecv
    <3>2. hpc' \in {"sleep", "ram", "off", "ready", "preface", "collect"}
      BY <2>2 DEF Junk, HelloReply, RamUploaded, InputUploaded, MemReply, OnRecv
    <3> QED BY <3>1, <3>2 DEF Typed, HostTyped
  <2> QED BY <2>1, <2>2
<1> QED BY <1>1, <1>2, <1>3 DEF Typed

LEMMA SessionTyped == ASSUME Typed, InitPort \/ Kill PROVE Typed'
<1>1. BoardInv' /\ ProgramTyped'
  BY OnBoardTyped DEF InitPort, Kill
<1>2. HostTyped'
  <2>1. 0 \in ByteValue /\ 0 \in 0 .. MaxPeek
    BY Sources8 DEF ByteValue
  <2>2. CASE InitPort
    BY <2>1, <2>2 DEF Typed, HostTyped, InitPort
  <2>3. CASE Kill
    BY <2>3 DEF Typed, HostTyped, Kill
  <2> QED BY <2>2, <2>3
<1>3. LinkTyped'
  <2>1. CASE InitPort
    BY <2>1, EmptySeq DEF Typed, LinkTyped, InitPort
  <2>2. CASE Kill
    <3>1. Len(down) \in Nat
      BY LenProperties DEF Typed, LinkTyped
    <3>2. PICK n \in 0 .. Len(down) : down' = Front(down, n)
      BY <2>2 DEF Kill
    <3>3. n \in Nat
      BY <3>1
    <3>4. down' \in Seq(ByteValue)
      BY <3>2, <3>3, FrontType DEF Typed, LinkTyped
    <3> QED BY <2>2, <3>4, EmptySeq DEF LinkTyped, Kill
  <2> QED BY <2>1, <2>2
<1> QED BY <1>1, <1>2, <1>3 DEF Typed

LEMMA TypedInit == Init => Typed
<1> SUFFICES ASSUME Init PROVE Typed
  OBVIOUS
<1>1. BoardInv
  BY InitType DEF Init
<1>2. HostTyped
  <2>1. 0 \in ByteValue /\ 0 \in 0 .. MaxPeek
    BY Sources8 DEF ByteValue
  <2> QED BY <2>1 DEF Init, HostTyped
<1>3. LinkTyped
  BY EmptySeq DEF Init, LinkTyped
<1>4. ProgramTyped
  BY ProgramLength DEF Init, ProgramTyped
<1> QED BY <1>1, <1>2, <1>3, <1>4 DEF Typed

LEMMA TypedStep == Typed /\ [Next]_vars => Typed'
<1> SUFFICES ASSUME Typed, [Next]_vars PROVE Typed'
  OBVIOUS
<1>1. CASE Controller
  <2>1. CASE Echo \/ UploadRam \/ Preface \/ UploadInput \/ AskPc \/ AskMem \/ Run
    BY <2>1, WriterTyped
  <2>2. CASE \/ Junk \/ HelloReply \/ RamUploaded \/ InputUploaded
             \/ PcReply \/ MemReply \/ OnRecv
    BY <2>2, ReaderTyped
  <2> QED BY <1>1, <2>1, <2>2 DEF Controller
<1>2. CASE UNCHANGED vars
  <2>1. UNCHANGED hciVars /\ UNCHANGED hostVars /\ UNCHANGED cpuVars /\ UNCHANGED <<down, up>>
    BY <1>2 DEF vars
  <2>2. BoardInv'
    BY <2>1, BoardStays DEF Typed
  <2> QED BY <2>1, <2>2 DEF Typed, HostTyped, LinkTyped, ProgramTyped, hostVars, cpuVars
<1> QED
  BY <1>1, <1>2, BoardCycleTyped, DeliverTyped, ReturnTyped, ProgramStepTyped, ResetTyped,
     ToolTyped, SessionTyped DEF Next

\* The types of the board, of the line and of the controller, for buffers,
\* programs, inputs and packets of any size: no counter of the state machine
\* runs below zero and no byte is out of range.
THEOREM HostTypeCorrect == Spec => []TypeOK
<1>1. Spec => []Typed
  BY TypedInit, TypedStep, PTL DEF Spec
<1> QED BY <1>1, TypedImplies, PTL
-----------------------------------------------------------------------------
(* The bytes of a MEM_RD reply find room.                                  *)

LEMMA NoneLost ==
    ASSUME MemRoom, NEW d, Transmit(d), "mem" \notin d
    PROVE  "mem" \notin lost'
<1>1. tx_full /\ wr # <<>> => wr[1].src # "mem"
  BY DEF MemRoom
<1> QED BY <1>1 DEF MemRoom, Transmit

\* A cycle that sends nothing, or a byte of another kind.
LEMMA OtherSend ==
    ASSUME MemRoom, NEW d, Transmit(d), "mem" \notin d,
           \/ wr' = <<>>
           \/ wr'[1].src # "mem" /\ q_state' # "MEM_RD_1"
    PROVE  MemRoom'
<1>1. "mem" \notin lost'
  BY NoneLost
<1> QED BY <1>1 DEF MemRoom

LEMMA SentSource ==
    ASSUME NEW s, NEW b, Send(s, b)
    PROVE  wr'[1].src = s
  BY DEF Send

\* The state machine looks for room in a cycle in which the register is
\* empty, so that no byte is under way that could take the last place.
LEMMA MemReadRoom == ASSUME BoardInv, MemRoom, S_MEM_RD_STG_1 PROVE MemRoom'
<1>1. Transmit({})
  BY DEF S_MEM_RD_STG_1, Quietly
<1>2. CASE q_execute_cnt % 2 = 0
  BY <1>1, <1>2, OtherSend DEF S_MEM_RD_STG_1
<1>3. q_execute_cnt \in Nat
  BY Sizes DEF BoardInv, FsmTyped
<1>4. CASE q_execute_cnt % 2 # 0
  <2>1. ~tx_full /\ q_state = "MEM_RD_1" /\ Advance
    BY <1>4 DEF S_MEM_RD_STG_1
  <2>2. wr = <<>>
    <3>1. q_execute_cnt % 2 = 1
      BY <1>4, <1>3
    <3> QED BY <2>1, <3>1 DEF MemRoom
  <2>3. tx' = tx /\ flag' = flag
    BY <1>1, <2>2 DEF Transmit, Push
  <2>4. ~tx_full'
    BY <2>1, <2>3 DEF tx_full
  <2>5. q_execute_cnt' % 2 = 0
    <3>1. q_execute_cnt' = q_execute_cnt - 1
      BY <2>1, AdvanceType DEF BoardInv, Counting
    <3> QED BY <1>4, <1>3, <3>1
  <2> QED BY <1>1, <2>4, <2>5, NoneLost DEF MemRoom
<1> QED BY <1>2, <1>4

LEMMA CycleRoom == ASSUME BoardInv, MemRoom, Cycle PROVE MemRoom'
<1>1. Transmit({})
  BY CycleTransmits
<1>2. CASE S_MEM_RD_STG_1
  BY <1>2, MemReadRoom
<1>3. CASE S_DISABLED
  <2>1. q_state' # "MEM_RD_1" /\ (wr' = <<>> \/ Send("query", 0))
    BY <1>3 DEF S_DISABLED
  <2> QED BY <1>1, <2>1, OtherSend, SentSource
<1>4. CASE S_DECODE
  <2>1. q_state' # "MEM_RD_1"
    BY <1>4 DEF S_DECODE, Command
  <2>2. wr' = <<>> \/ Send("query", 1)
    BY <1>4 DEF S_DECODE
  <2> QED BY <1>1, <2>1, <2>2, OtherSend, SentSource
<1>5. CASE S_ECHO_STG_1
  <2>1. q_state' # "MEM_RD_1" /\ Send("echo", Byte)
    BY <1>5 DEF S_ECHO_STG_1, Advance
  <2> QED BY <1>1, <2>1, OtherSend, SentSource
<1>6. CASE S_QUERY_ERR_CODE
  <2> DEFINE b == IF q_err_code THEN 2 ELSE 0
  <2>1. q_state' # "MEM_RD_1" /\ Send("err", b)
    BY <1>6 DEF S_QUERY_ERR_CODE
  <2> QED BY <1>1, <2>1, OtherSend, SentSource
<1>7. CASE S_CPU_REG_RD_STG1
  <2> DEFINE b == DbgReg[q_addr + 1]
  <2>1. q_state' # "MEM_RD_1" /\ Send("reg", b)
    BY <1>7 DEF S_CPU_REG_RD_STG1, Advance
  <2> QED BY <1>1, <2>1, OtherSend, SentSource
<1>8. CASE \/ S_ECHO_STG_0 \/ S_IO_IN_STG_0 \/ S_IO_IN_STG_1 \/ S_MEM_STG_0
           \/ S_MEM_WR_STG_1 \/ S_CPU_REG_RD_STG0 \/ S_WAIT
  <2>1. wr' = <<>>
    BY <1>8 DEF S_ECHO_STG_0, S_IO_IN_STG_0, S_IO_IN_STG_1, S_MEM_STG_0, Header,
                S_MEM_WR_STG_1, S_CPU_REG_RD_STG0, S_WAIT
  <2> QED BY <1>1, <2>1, OtherSend
<1> QED BY <1>2, <1>3, <1>4, <1>5, <1>6, <1>7, <1>8 DEF Cycle

LEMMA ProgramStepRoom == ASSUME Typed, MemRoom, ProgramStep PROVE MemRoom'
<1> DEFINE a == Program[ip]
<1>1. ip \in 1 .. Len(Program)
  BY ProgramLength DEF Typed, ProgramTyped, ProgramStep
<1>2. a.op \in {"out", "in", "ret"}
  BY <1>1, ProgramType
<1>3. CASE a.op = "in"
  BY <1>3, OtherSend DEF ProgramStep, IoRead
<1>4. CASE a.op # "in"
  <2> DEFINE s == a.op
             b == a.byte
  <2>1. s \in {"out", "ret"} /\ IoWrite(s, b)
    BY <1>2, <1>4 DEF ProgramStep
  <2> HIDE DEF s, b
  <2>2. q_state' # "MEM_RD_1"
    BY <2>1 DEF IoWrite, Access, Running, fsmVars
  <2>3. wr' = <<>> \/ wr'[1].src # "mem"
    BY <2>1, SentSource DEF IoWrite
  <2>4. PICK d : Transmit(d) /\ "mem" \notin d
    BY <2>1 DEF IoWrite
  <2> QED BY <2>2, <2>3, <2>4, OtherSend
<1> QED BY <1>3, <1>4

\* The other steps leave the register empty, or nothing that matters changes.
LEMMA OtherRoom ==
    ASSUME MemRoom, \/ Deliver \/ Return \/ Reset \/ UNCHANGED hciVars
    PROVE  MemRoom'
<1>1. CASE Deliver \/ Return
  <2>1. wr' = <<>> /\ lost' = lost
    BY <1>1 DEF Deliver, Return, Settled
  <2> QED BY <2>1 DEF MemRoom
<1>2. CASE Reset
  <2>1. wr' = <<>> /\ lost' = lost
    BY <1>2 DEF Reset, ResetHci
  <2> QED BY <2>1 DEF MemRoom
<1>3. CASE UNCHANGED hciVars
  BY <1>3 DEF MemRoom, tx_full, hciVars, fsmVars, txVars
<1> QED BY <1>1, <1>2, <1>3

LEMMA RoomStep == Typed /\ MemRoom /\ [Next]_vars => MemRoom'
<1> SUFFICES ASSUME Typed, MemRoom, [Next]_vars PROVE MemRoom'
  OBVIOUS
<1>1. CASE BoardCycle
  BY <1>1, CycleRoom DEF BoardCycle, Typed
<1>2. CASE ProgramStep
  BY <1>2, ProgramStepRoom
<1>3. CASE Deliver \/ Return \/ Reset
  BY <1>3, OtherRoom
<1>4. CASE Controller \/ InitPort \/ Kill \/ Tool \/ UNCHANGED vars
  <2>1. UNCHANGED hciVars
    BY <1>4 DEF Controller, InitPort, Kill, Tool, OnBoard, vars, Junk, Echo, HelloReply,
                UploadRam, RamUploaded, Preface, UploadInput, InputUploaded, AskPc, PcReply,
                AskMem, MemReply, Run, OnRecv
  <2> QED BY <2>1, OtherRoom
<1> QED BY <1>1, <1>2, <1>3, <1>4 DEF Next

\* Every byte of a reply of MEM_RD reaches the transmit buffer, however many
\* replies, resets and controllers came before and whatever the buffer holds.
THEOREM MemRepliesWhole == Spec => []MemReplyWhole
<1>1. Init => MemRoom
  BY DEF Init, InitHci, MemRoom
<1>2. MemRoom => MemReplyWhole
  BY DEF MemRoom, MemReplyWhole
<1>3. Spec => [](Typed /\ MemRoom)
  BY <1>1, TypedInit, TypedStep, RoomStep, PTL DEF Spec
<1> QED BY <1>2, <1>3, PTL
-----------------------------------------------------------------------------
(* The greeting of a controller that finds the board in any state.         *)

U == 85
Packet == <<OP_ECHO>> \o Word16(4) \o Hello

\* The first of the bytes on their way to the controller.
Leads(b) ==
    \/ up # <<>> /\ up[1] = b
    \/ up = <<>> /\ tx # <<>> /\ tx[1] = b
    \/ up = <<>> /\ tx = <<>> /\ wr # <<>> /\ wr[1].byte = b

NothingBack == up = <<>> /\ tx = <<>> /\ wr = <<>>

\* What the greeting takes on trust: that the board has not already begun to
\* send what it is going to be asked for, and that what sends its first byte
\* while the controller waits is the echo, not a program that prints it, a
\* reply to an older command, or RAM that holds it.
OnlyEchoesU ==
    /\ hpc = "sleep" => ~Leads(U)
    /\ hpc = "hello" /\ wr # <<>> /\ wr[1].byte = U => wr[1].src = "echo"

\* Bytes of the packet the state machine has taken; the others are still on
\* the line.
Taken == 7 - Len(rx) - Len(down)

PacketLeft ==
    /\ Taken \in 0 .. 7
    /\ \A i \in 1 .. Len(rx) : rx[i] = Packet[Taken + i]
    /\ \A i \in 1 .. Len(down) : down[i] = Packet[Taken + Len(rx) + i]

\* The reply begins with another byte ...
Spoilt == ~NothingBack /\ ~Leads(U)

\* ... or nothing has come back, and if the state machine is about to echo the
\* first letter then it is about to echo the three others ...
Silent ==
    /\ NothingBack
    /\ \/ q_state = "DISABLE"
       \/ /\ PacketLeft
          /\ q_state = "ECHO_0" /\ q_decode_cnt = 1 /\ Taken = 2 => q_execute_cnt = 4
          /\ q_state = "ECHO_1" /\ Taken = 3 => q_execute_cnt = 4

\* ... or it is echoing, and has sent no byte but of the greeting.
Answering ==
    /\ PacketLeft /\ Taken >= 4
    /\ IF Taken = 7 THEN q_state = "DECODE" ELSE q_state = "ECHO_1" /\ q_execute_cnt = 7 - Taken
    /\ Len(up) + Len(tx) + Len(wr) <= Taken - 3

FlagInv == flag = "exact" \/ tx # <<>>

GreetingInv ==
    /\ FlagInv
    /\ q_state = "ECHO_0" => q_decode_cnt \in {0, 1}
    /\ hpc \in {"junk", "sleep"} => down = <<>>
    /\ hpc = "hello" => Spoilt \/ Silent \/ Answering

LEMMA PacketBytes ==
    /\ Packet \in Seq(ByteValue) /\ Len(Packet) = 7
    /\ Packet[1] = 0 /\ Packet[2] = 4 /\ Packet[3] = 0
    /\ Packet[4] = U /\ Packet[5] = 65 /\ Packet[6] = 82 /\ Packet[7] = 84
<1>1. Word16(4) = <<4, 0>>
  BY DEF Word16
<1> DEFINE a == <<OP_ECHO>>
           b == <<4, 0>>
           c == Hello
<1>2. a \in Seq(ByteValue) /\ Len(a) = 1 /\ a[1] = 0
  BY DEF OP_ECHO, ByteValue
<1>3. b \in Seq(ByteValue) /\ Len(b) = 2 /\ b[1] = 4 /\ b[2] = 0
  BY DEF ByteValue
<1>4. /\ c \in Seq(ByteValue) /\ Len(c) = 4
      /\ c[1] = U /\ c[2] = 65 /\ c[3] = 82 /\ c[4] = 84
  BY DEF Hello, U, ByteValue
<1>5. Packet = a \o b \o c
  BY <1>1 DEF Packet
<1> HIDE DEF a, b, c
<1> DEFINE ab == a \o b
<1>6. /\ ab \in Seq(ByteValue) /\ Len(ab) = 3
      /\ ab[1] = 0 /\ ab[2] = 4 /\ ab[3] = 0
  <2>1. ab \in Seq(ByteValue) /\ Len(ab) = Len(a) + Len(b)
    BY <1>2, <1>3, ConcatProperties
  <2>2. \A i \in 1 .. Len(a) + Len(b) : ab[i] = IF i <= Len(a) THEN a[i] ELSE b[i - Len(a)]
    BY <1>2, <1>3, ConcatProperties
  <2> HIDE DEF ab
  <2>3. \A i \in 1 .. 3 : ab[i] = IF i <= 1 THEN a[i] ELSE b[i - 1]
    BY <1>2, <1>3, <2>2
  <2>4. ab[1] = a[1] /\ ab[2] = b[1] /\ ab[3] = b[2]
    BY <2>3
  <2> QED BY <1>2, <1>3, <2>1, <2>4
<1> HIDE DEF ab
<1>7. Packet = ab \o c
  BY <1>5 DEF ab
<1> DEFINE abc == ab \o c
<1>7a. ab \in Seq(ByteValue) /\ c \in Seq(ByteValue)
  BY <1>4, <1>6
<1>8. abc \in Seq(ByteValue) /\ Len(abc) = Len(ab) + Len(c)
  BY <1>7a, ConcatProperties, Zenon
<1>9. \A i \in 1 .. Len(ab) + Len(c) : abc[i] = IF i <= Len(ab) THEN ab[i] ELSE c[i - Len(ab)]
  BY <1>7a, ConcatProperties, Zenon
<1> HIDE DEF abc
<1>10. \A i \in 1 .. 7 : abc[i] = IF i <= 3 THEN ab[i] ELSE c[i - 3]
  BY <1>4, <1>6, <1>9
<1>11. /\ abc[1] = ab[1] /\ abc[2] = ab[2] /\ abc[3] = ab[3]
       /\ abc[4] = c[1] /\ abc[5] = c[2] /\ abc[6] = c[3] /\ abc[7] = c[4]
  BY <1>10
<1>12. Packet = abc
  BY <1>7 DEF abc
<1> QED BY <1>4, <1>6, <1>8, <1>11, <1>12

(* The bytes on their way back.                                            *)

LEMMA AppendFirst ==
    ASSUME NEW S, NEW s \in Seq(S), NEW e \in S
    PROVE  Append(s, e) # <<>> /\ Append(s, e)[1] = IF s = <<>> THEN e ELSE s[1]
<1>1. Append(s, e) # <<>> /\ Append(s, e)[Len(s) + 1] = e
      /\ \A i \in 1 .. Len(s) : Append(s, e)[i] = s[i]
  BY AppendProperties
<1>2. s # <<>> => Len(s) \in Nat \ {0}
  BY EmptySeq
<1>3. s = <<>> => Len(s) = 0
  BY EmptySeq
<1>4. CASE s = <<>>
  BY <1>1, <1>3, <1>4
<1>5. CASE s # <<>>
  <2>1. 1 \in 1 .. Len(s)
    BY <1>2, <1>5
  <2> QED BY <1>1, <1>5, <2>1
<1> QED BY <1>4, <1>5

LEMMA HeadIsFirst ==
    ASSUME NEW S, NEW s \in Seq(S), s # <<>> PROVE Head(s) = s[1]
  OBVIOUS

\* One cycle of the transmit buffer: what it holds, and what it gives up.
LEMMA TransmitCases ==
    ASSUME Typed, FlagInv, NEW d, Transmit(d), Aside, hpc # "off"
    PROVE  \/ tx' = tx /\ flag' = flag /\ up' = up /\ (wr = <<>> \/ tx # <<>>)
           \/ /\ wr # <<>> /\ wr[1].byte \in ByteValue
              /\ tx' = Append(tx, wr[1].byte) /\ up' = up
           \/ /\ wr # <<>> /\ wr[1].byte \in ByteValue
              /\ tx # <<>> /\ Head(tx) \in ByteValue /\ Head(tx) = tx[1]
              /\ tx' = Append(Tail(tx), wr[1].byte) /\ up' = Append(up, Head(tx))
<1>1. /\ tx \in Seq(ByteValue) /\ TxCap >= 3 /\ TxCap \in Nat
      /\ flag \in {"exact", "empty", "full"}
  BY Sizes DEF Typed, BoardInv, BufferTyped
<1>2. ASSUME wr # <<>> PROVE wr[1].byte \in ByteValue
  <2>1. wr \in Seq(Sent) /\ Len(wr) <= 1
    BY DEF Typed, BoardInv, RegsTyped
  <2>2. wr[1] \in Sent
    BY <1>2, <2>1, ShortSeq
  <2> QED BY <2>2 DEF Sent
<1>3. Push(wr # <<>> /\ ~tx_full)
  BY DEF Transmit
<1>4. tx_full => tx # <<>>
  BY <1>1, EmptySeq DEF tx_full, FlagInv
<1>5. CASE SentAside
  <2>1. wr # <<>> /\ tx' = Append(Tail(tx), wr[1].byte)
    BY <1>3, <1>5 DEF Push, SentAside
  <2>2. up' = Append(up, Head(tx))
    BY <1>5 DEF Aside
  <2>3. tx # <<>> /\ Head(tx) \in ByteValue
    BY <1>5, SentAsideFront DEF Typed
  <2>4. Head(tx) = tx[1]
    BY <1>1, <2>3, HeadIsFirst
  <2> QED BY <1>2, <2>1, <2>2, <2>3, <2>4
<1>6. CASE ~SentAside
  <2>1. up' = up
    BY <1>6 DEF Aside
  <2>2. \/ ~(wr # <<>> /\ ~tx_full) /\ tx' = tx /\ flag' = flag
        \/ wr # <<>> /\ tx' = Append(tx, wr[1].byte)
    BY <1>3, <1>6 DEF Push, SentAside
  <2> QED BY <1>2, <1>4, <2>1, <2>2
<1> QED BY <1>5, <1>6

LEMMA FlagTransmits ==
    ASSUME Typed, FlagInv, NEW d, Transmit(d)
    PROVE  FlagInv'
<1>1. tx \in Seq(ByteValue) /\ TxCap \in Nat /\ TxCap >= 3
  BY Sizes DEF Typed, BoardInv, BufferTyped
<1>2. Push(wr # <<>> /\ ~tx_full)
  BY DEF Transmit
<1>3. CASE tx' = tx
  BY <1>2, <1>3 DEF Push, FlagInv
<1>4. CASE wr # <<>> /\ tx' = Append(tx, wr[1].byte)
  BY <1>1, <1>4 DEF FlagInv
<1>5. CASE wr # <<>> /\ Len(tx) \in {1, TxCap - 1} /\ tx' = Append(Tail(tx), wr[1].byte)
  BY <1>1, <1>5 DEF FlagInv
<1> QED BY <1>2, <1>3, <1>4, <1>5 DEF Push

\* The first byte back stays the first.
LEMMA SpoiltStays ==
    ASSUME Typed, FlagInv, Spoilt, NEW d, Transmit(d), Aside, hpc # "off"
    PROVE  Spoilt'
<1>1. tx \in Seq(ByteValue) /\ up \in Seq(ByteValue)
  BY DEF Typed, BoardInv, BufferTyped, LinkTyped
<1>2. CASE tx' = tx /\ up' = up /\ (wr = <<>> \/ tx # <<>>)
  BY <1>2 DEF Spoilt, NothingBack, Leads
<1>3. CASE /\ wr # <<>> /\ wr[1].byte \in ByteValue
           /\ tx' = Append(tx, wr[1].byte) /\ up' = up
  <2>1. tx' # <<>> /\ tx'[1] = IF tx = <<>> THEN wr[1].byte ELSE tx[1]
    BY <1>1, <1>3, AppendFirst
  <2> QED BY <1>3, <2>1 DEF Spoilt, NothingBack, Leads
<1>4. CASE tx # <<>> /\ Head(tx) \in ByteValue /\ Head(tx) = tx[1] /\ up' = Append(up, Head(tx))
  <2>1. up' # <<>> /\ up'[1] = IF up = <<>> THEN Head(tx) ELSE up[1]
    BY <1>1, <1>4, AppendFirst
  <2> QED BY <1>4, <2>1 DEF Spoilt, NothingBack, Leads
<1> QED BY <1>2, <1>3, <1>4, TransmitCases

\* With nothing on its way a cycle only fills the register.
LEMMA SilentTransmits ==
    ASSUME Typed, FlagInv, NothingBack, NEW d, Transmit(d), Aside, hpc # "off"
    PROVE  tx' = <<>> /\ up' = <<>>
  BY TransmitCases DEF NothingBack

LEMMA AnswerTransmits ==
    ASSUME Typed, FlagInv, NEW d, Transmit(d), Aside, hpc # "off"
    PROVE  Len(up') + Len(tx') <= Len(up) + Len(tx) + Len(wr)
<1>1. tx \in Seq(ByteValue) /\ up \in Seq(ByteValue) /\ wr \in Seq(Sent)
  BY DEF Typed, BoardInv, BufferTyped, LinkTyped, RegsTyped
<1>2. Len(tx) \in Nat /\ Len(up) \in Nat /\ Len(wr) \in Nat /\ (wr # <<>> => Len(wr) >= 1)
  BY <1>1, LenProperties, EmptySeq
<1>3. CASE tx' = tx /\ up' = up
  BY <1>2, <1>3
<1>4. CASE /\ wr # <<>> /\ wr[1].byte \in ByteValue
           /\ tx' = Append(tx, wr[1].byte) /\ up' = up
  <2>1. Len(tx') = Len(tx) + 1
    BY <1>1, <1>4, AppendProperties
  <2> QED BY <1>2, <1>4, <2>1
<1>5. CASE /\ wr # <<>> /\ wr[1].byte \in ByteValue /\ tx # <<>> /\ Head(tx) \in ByteValue
           /\ tx' = Append(Tail(tx), wr[1].byte) /\ up' = Append(up, Head(tx))
  <2>1. Tail(tx) \in Seq(ByteValue) /\ Len(Tail(tx)) = Len(tx) - 1
    BY <1>1, <1>5, HeadTailProperties
  <2>2. Len(tx') = Len(Tail(tx)) + 1
    BY <1>5, <2>1, AppendProperties
  <2>3. Len(up') = Len(up) + 1
    BY <1>1, <1>5, AppendProperties
  <2> QED BY <1>2, <1>5, <2>1, <2>2, <2>3
<1> QED BY <1>3, <1>4, <1>5, TransmitCases

(* The bytes of the packet on the line.                                    *)

LEMMA LineLengths ==
    ASSUME Typed
    PROVE  /\ rx \in Seq(ByteValue) /\ down \in Seq(ByteValue)
           /\ Len(rx) \in Nat /\ Len(down) \in Nat
  BY LenProperties DEF Typed, BoardInv, LineTyped, LinkTyped

LEMMA PacketStays ==
    ASSUME PacketLeft, UNCHANGED <<rx, down>>
    PROVE  PacketLeft' /\ Taken' = Taken
  BY DEF PacketLeft, Taken

LEMMA PacketTaken ==
    ASSUME Typed, PacketLeft, Take, UNCHANGED down
    PROVE  /\ PacketLeft' /\ Taken' = Taken + 1
           /\ Taken \in 0 .. 6 /\ Byte = Packet[Taken + 1]
<1> DEFINE k == Taken
           n == Len(rx)
           m == Len(down)
<1>1. rx \in Seq(ByteValue) /\ n \in Nat /\ m \in Nat /\ k = 7 - n - m /\ k \in 0 .. 7
  BY LineLengths DEF PacketLeft, Taken
<1>2. rx # <<>> /\ rx' = Tail(rx) /\ Byte = Head(rx)
  BY DEF Take, Byte
<1>3. n # 0 /\ Len(rx') = n - 1 /\ \A i \in 1 .. n - 1 : rx'[i] = rx[i + 1]
  BY <1>1, <1>2, HeadTailProperties, EmptySeq
<1>4. Len(down') = m /\ down' = down
  OBVIOUS
<1>5. Head(rx) = rx[1]
  BY <1>1, <1>2, HeadIsFirst
<1>6. /\ \A i \in 1 .. n : rx[i] = Packet[k + i]
      /\ \A i \in 1 .. m : down[i] = Packet[k + n + i]
  BY DEF PacketLeft
<1>7. Taken' = 7 - Len(rx') - Len(down')
  BY DEF Taken
<1> HIDE DEF k, n, m
<1>8. Taken' = k + 1 /\ k \in 0 .. 6
  BY <1>1, <1>3, <1>4, <1>7
<1>9. \A i \in 1 .. Len(rx') : rx'[i] = Packet[Taken' + i]
  <2> SUFFICES ASSUME NEW i \in 1 .. n - 1 PROVE rx'[i] = Packet[k + 1 + i]
    BY <1>3, <1>8
  <2>1. i + 1 \in 1 .. n /\ k + (i + 1) = k + 1 + i
    BY <1>1
  <2>2. rx[i + 1] = Packet[k + (i + 1)]
    BY <1>6, <2>1
  <2> QED BY <1>3, <2>1, <2>2
<1>10. \A i \in 1 .. Len(down') : down'[i] = Packet[Taken' + Len(rx') + i]
  <2>1. Taken' + Len(rx') = k + n
    BY <1>1, <1>3, <1>8
  <2> QED BY <1>4, <1>6, <2>1
<1>11. Byte = Packet[k + 1]
  BY <1>1, <1>2, <1>3, <1>5, <1>6
<1>12. PacketLeft'
  BY <1>8, <1>9, <1>10 DEF PacketLeft
<1> QED BY <1>8, <1>11, <1>12 DEF k

LEMMA PacketDelivered ==
    ASSUME Typed, PacketLeft, Deliver, rx = <<>>
    PROVE  PacketLeft' /\ Taken' = Taken
<1> DEFINE k == Taken
           m == Len(down)
<1>1. down \in Seq(ByteValue) /\ m \in Nat /\ k = 7 - 0 - m /\ k \in 0 .. 7
  BY LineLengths, EmptySeq DEF PacketLeft, Taken
<1>2. down # <<>> /\ down' = Tail(down)
  BY DEF Deliver
<1>3. m # 0 /\ Len(down') = m - 1 /\ \A i \in 1 .. m - 1 : down'[i] = down[i + 1]
  BY <1>1, <1>2, HeadTailProperties, EmptySeq
<1>4. Head(down) = down[1] /\ Head(down) \in ByteValue
  BY <1>1, <1>2, HeadIsFirst, HeadTailProperties
<1>5. rx' = Append(rx, Head(down))
  BY Sizes, EmptySeq DEF Deliver
<1>6. Len(rx') = 1 /\ rx'[1] = down[1]
  <2>1. rx \in Seq(ByteValue) /\ Len(rx) = 0
    BY EmptySeq
  <2>2. Len(rx') = Len(rx) + 1 /\ rx'[Len(rx) + 1] = Head(down)
    BY <1>4, <1>5, <2>1, AppendProperties
  <2> QED BY <1>4, <2>1, <2>2
<1>7. \A i \in 1 .. m : down[i] = Packet[k + i]
  <2>1. Len(rx) = 0
    BY EmptySeq
  <2>2. \A i \in 1 .. m : down[i] = Packet[Taken + Len(rx) + i]
    BY DEF PacketLeft
  <2>3. k + Len(rx) = k
    BY <1>1, <2>1
  <2> QED BY <2>2, <2>3
<1>8. Taken' = 7 - Len(rx') - Len(down')
  BY DEF Taken
<1> HIDE DEF k, m
<1>9. Taken' = k
  BY <1>1, <1>3, <1>6, <1>8
<1>10. \A i \in 1 .. Len(rx') : rx'[i] = Packet[Taken' + i]
  BY <1>1, <1>3, <1>6, <1>7, <1>9
<1>11. \A i \in 1 .. Len(down') : down'[i] = Packet[Taken' + Len(rx') + i]
  <2> SUFFICES ASSUME NEW i \in 1 .. m - 1 PROVE down'[i] = Packet[k + 1 + i]
    BY <1>3, <1>6, <1>9
  <2>1. i + 1 \in 1 .. m /\ k + (i + 1) = k + 1 + i
    BY <1>1
  <2>2. down[i + 1] = Packet[k + (i + 1)]
    BY <1>7, <2>1
  <2> QED BY <1>3, <2>1, <2>2
<1>12. PacketLeft'
  BY <1>1, <1>9, <1>10, <1>11 DEF PacketLeft
<1> QED BY <1>9, <1>12 DEF k

(* What the state machine does with the packet.                            *)

LEMMA EchoSends ==
    ASSUME Cycle, wr' # <<>>, wr'[1].src = "echo"
    PROVE  S_ECHO_STG_1
<1>1. ASSUME NEW b, Send("query", b) \/ Send("err", b) \/ Send("reg", b) \/ Send("mem", b)
      PROVE  FALSE
  BY <1>1, SentSource
<1>2. CASE S_DISABLED \/ S_DECODE
  BY <1>1, <1>2 DEF S_DISABLED, S_DECODE
<1>3. CASE S_QUERY_ERR_CODE
  <2> DEFINE b == IF q_err_code THEN 2 ELSE 0
  <2>1. Send("err", b)
    BY <1>3 DEF S_QUERY_ERR_CODE
  <2> QED BY <1>1, <2>1
<1>4. CASE S_CPU_REG_RD_STG1
  <2> DEFINE b == DbgReg[q_addr + 1]
  <2>1. Send("reg", b)
    BY <1>4 DEF S_CPU_REG_RD_STG1
  <2> QED BY <1>1, <2>1
<1>5. CASE S_MEM_RD_STG_1
  BY <1>1, <1>5 DEF S_MEM_RD_STG_1
<1>6. CASE \/ S_ECHO_STG_0 \/ S_IO_IN_STG_0 \/ S_IO_IN_STG_1 \/ S_MEM_STG_0
           \/ S_MEM_WR_STG_1 \/ S_CPU_REG_RD_STG0 \/ S_WAIT
  BY <1>6 DEF S_ECHO_STG_0, S_IO_IN_STG_0, S_IO_IN_STG_1, S_MEM_STG_0, Header,
              S_MEM_WR_STG_1, S_CPU_REG_RD_STG0, S_WAIT
<1> QED BY <1>2, <1>3, <1>4, <1>5, <1>6 DEF Cycle

\* Outside the two stages of the echo the state machine does not come near the
\* second, and enters the first from its beginning.
LEMMA FarFromEcho ==
    ASSUME Cycle, ~S_WAIT, ~S_ECHO_STG_0, ~S_ECHO_STG_1
    PROVE  /\ Take \/ UNCHANGED rx
           /\ q_state' # "ECHO_1" /\ q_state # "DISABLE"
           /\ q_state' = "ECHO_0" => q_decode_cnt' = 0
<1>1. CASE S_DISABLED
  BY <1>1 DEF S_DISABLED, Running
<1>2. CASE S_DECODE
  BY <1>2 DEF S_DECODE, Command
<1>3. CASE S_IO_IN_STG_0 \/ S_MEM_STG_0
  BY <1>3 DEF S_IO_IN_STG_0, S_MEM_STG_0, Header, Length
<1>4. CASE S_IO_IN_STG_1 \/ S_MEM_WR_STG_1
  BY <1>4 DEF S_IO_IN_STG_1, S_MEM_WR_STG_1, Advance
<1>5. CASE S_MEM_RD_STG_1
  BY <1>5 DEF S_MEM_RD_STG_1, Advance
<1>6. CASE S_QUERY_ERR_CODE \/ S_CPU_REG_RD_STG0 \/ S_CPU_REG_RD_STG1
  BY <1>6 DEF S_QUERY_ERR_CODE, S_CPU_REG_RD_STG0, S_CPU_REG_RD_STG1, Advance
<1> QED BY <1>1, <1>2, <1>3, <1>4, <1>5, <1>6 DEF Cycle

\* The first stage of the echo takes a length of four for what it is.
LEMMA LengthOfFour ==
    ASSUME Typed, PacketLeft, S_ECHO_STG_0, UNCHANGED down,
           q_decode_cnt \in {0, 1},
           q_decode_cnt = 1 /\ Taken = 2 => q_execute_cnt = 4
    PROVE  /\ PacketLeft' /\ wr' = <<>>
           /\ q_state' = "ECHO_0" /\ q_decode_cnt' = 1 /\ Taken' = 2 => q_execute_cnt' = 4
           /\ q_state' = "ECHO_1" /\ Taken' = 3 => q_execute_cnt' = 4
           /\ q_state' = "ECHO_0" => q_decode_cnt' = 1
<1>1. q_state = "ECHO_0" /\ Take /\ wr' = <<>> /\ q_decode_cnt' = (q_decode_cnt + 1) % 8
      /\ Length(q_decode_cnt = 0, "ECHO_1")
  BY DEF S_ECHO_STG_0, Header
<1>2. PacketLeft' /\ Taken' = Taken + 1 /\ Taken \in 0 .. 6 /\ Byte = Packet[Taken + 1]
  BY <1>1, PacketTaken
<1>3. Count \in Nat /\ Count >= 8
  BY Sizes
<1>4. CASE q_decode_cnt = 0
  <2>1. q_execute_cnt' = Byte % Count /\ q_state' = "ECHO_0" /\ q_decode_cnt' = 1
    BY <1>1, <1>4 DEF Length
  <2>2. ASSUME Taken' = 2 PROVE q_execute_cnt' = 4
    <3>1. Taken + 1 = 2
      BY <1>2, <2>2
    <3>2. Byte = 4
      BY <1>2, <3>1, PacketBytes
    <3>3. 4 % Count = 4
      BY <1>3
    <3> QED BY <2>1, <3>2, <3>3
  <2> QED BY <1>1, <1>2, <2>1, <2>2
<1>5. CASE q_decode_cnt = 1
  <2>1. /\ q_execute_cnt' = (1 * (256 * Byte + (q_execute_cnt % 256))) % Count
        /\ q_state' \in {"DECODE", "ECHO_1"}
    BY <1>1, <1>5 DEF Length
  <2>2. ASSUME Taken' = 3 PROVE q_execute_cnt' = 4
    <3>1. Taken = 2
      BY <1>2, <2>2
    <3>2. Byte = 0 /\ q_execute_cnt = 4
      BY <1>2, <1>5, <3>1, PacketBytes
    <3>3. (1 * (256 * 0 + (4 % 256))) % Count = 4
      BY <1>3
    <3> QED BY <2>1, <3>2, <3>3
  <2> QED BY <1>1, <1>2, <2>1, <2>2
<1> QED BY <1>4, <1>5

\* The first letter is the fourth byte of the packet and no other.
LEMMA OnlyFourth == ASSUME NEW k \in 0 .. 6, Packet[k + 1] = U PROVE k = 3
<1>1. k \in {0, 1, 2, 3, 4, 5, 6}
  OBVIOUS
<1> QED BY <1>1, PacketBytes DEF U

LEMMA FirstByteOther ==
    ASSUME tx' = <<>>, up' = <<>>, wr' # <<>>, wr'[1].byte # U
    PROVE  Spoilt'
  BY DEF Spoilt, NothingBack, Leads

LEMMA SilentCycle ==
    ASSUME Typed, GreetingInv, Silent, hpc = "hello", BoardCycle, OnlyEchoesU'
    PROVE  Spoilt' \/ Silent' \/ Answering'
<1>1. Cycle /\ Transmit({}) /\ Aside /\ hpc' = "hello" /\ UNCHANGED down
  BY CycleTransmits DEF BoardCycle, hostVars
<1>2. tx' = <<>> /\ up' = <<>>
  BY <1>1, SilentTransmits DEF GreetingInv, Silent
<1>3. CASE wr' # <<>> /\ wr'[1].byte # U
  BY <1>2, <1>3, FirstByteOther
<1>4. CASE wr' # <<>> /\ wr'[1].byte = U
  <2>1. S_ECHO_STG_1
    BY <1>1, <1>4, EchoSends DEF OnlyEchoesU
  <2>2. q_state = "ECHO_1" /\ q_state \in Counting /\ Take /\ Advance /\ Send("echo", Byte)
    BY <2>1 DEF S_ECHO_STG_1, Counting
  <2>3. PacketLeft
    BY <2>2 DEF Silent
  <2>4. PacketLeft' /\ Taken' = Taken + 1 /\ Taken \in 0 .. 6 /\ Byte = Packet[Taken + 1]
    BY <1>1, <2>2, <2>3, PacketTaken
  <2>5. Byte = U
    BY <1>4, <2>2 DEF Send
  <2>6. Taken = 3
    BY <2>4, <2>5, OnlyFourth
  <2>7. q_execute_cnt = 4
    BY <2>2, <2>6 DEF Silent
  <2>8. q_execute_cnt' = 3 /\ q_state' = "ECHO_1"
    <3>1. /\ q_execute_cnt' = q_execute_cnt - 1
          /\ q_state' = IF q_execute_cnt' = 0 THEN "DECODE" ELSE q_state
      BY <2>2, AdvanceType DEF Typed, BoardInv
    <3> QED BY <2>2, <2>7, <3>1
  <2>9. Len(up') = 0 /\ Len(tx') = 0 /\ Len(wr') = 1
    BY <1>2, <2>2, EmptySeq DEF Send
  <2> QED BY <2>4, <2>6, <2>8, <2>9 DEF Answering
<1>5. CASE wr' = <<>>
  <2>1. NothingBack'
    BY <1>2, <1>5 DEF NothingBack
  <2>2. CASE S_WAIT
    <3>1. UNCHANGED fsmVars /\ UNCHANGED rx
      BY <2>2 DEF S_WAIT
    <3>2. PacketLeft => PacketLeft' /\ Taken' = Taken
      BY <1>1, <3>1, PacketStays
    <3> QED BY <2>1, <3>1, <3>2 DEF Silent, fsmVars
  <2>3. CASE S_ECHO_STG_0
    <3>1. q_state = "ECHO_0"
      BY <2>3 DEF S_ECHO_STG_0
    <3>2. /\ PacketLeft /\ q_decode_cnt \in {0, 1}
          /\ q_decode_cnt = 1 /\ Taken = 2 => q_execute_cnt = 4
      BY <3>1 DEF Silent, GreetingInv
    <3> QED BY <1>1, <2>1, <2>3, <3>2, LengthOfFour DEF Silent
  <2>4. CASE ~S_WAIT /\ ~S_ECHO_STG_0
    <3>1. ~S_ECHO_STG_1
      BY <1>5, SendType DEF S_ECHO_STG_1, Send
    <3>2. /\ Take \/ UNCHANGED rx
          /\ q_state' # "ECHO_1" /\ q_state # "DISABLE"
          /\ q_state' = "ECHO_0" => q_decode_cnt' = 0
      BY <1>1, <2>4, <3>1, FarFromEcho
    <3>3. PacketLeft'
      BY <1>1, <3>2, PacketTaken, PacketStays DEF Silent
    <3> QED BY <2>1, <3>2, <3>3 DEF Silent
  <2> QED BY <2>2, <2>3, <2>4
<1> QED BY <1>3, <1>4, <1>5

LEMMA AnsweringCycle ==
    ASSUME Typed, GreetingInv, Answering, hpc = "hello", BoardCycle
    PROVE  Answering'
<1>1. Cycle /\ Transmit({}) /\ Aside /\ UNCHANGED down
  BY CycleTransmits DEF BoardCycle
<1>2. Len(up') + Len(tx') <= Len(up) + Len(tx) + Len(wr)
  BY <1>1, AnswerTransmits DEF GreetingInv
<1>3. /\ Len(up') \in Nat /\ Len(tx') \in Nat
      /\ Len(up) \in Nat /\ Len(tx) \in Nat /\ Len(wr) \in Nat
  <2>1. Typed'
    BY BoardCycleTyped
  <2> QED BY <2>1, LenProperties DEF Typed, BoardInv, BufferTyped, LinkTyped, RegsTyped
<1>4. PacketLeft /\ Taken \in 4 .. 7 /\ Len(up) + Len(tx) + Len(wr) <= Taken - 3
  BY DEF Answering, PacketLeft
<1>5. CASE S_WAIT
  <2>1. UNCHANGED fsmVars /\ UNCHANGED rx /\ wr' = <<>>
    BY <1>5 DEF S_WAIT
  <2>2. PacketLeft' /\ Taken' = Taken
    BY <1>1, <1>4, <2>1, PacketStays
  <2>3. Len(wr') = 0
    BY <2>1, EmptySeq
  <2>4. Len(up') + Len(tx') + Len(wr') <= Taken' - 3
    BY <1>2, <1>3, <1>4, <2>2, <2>3
  <2> QED BY <2>1, <2>2, <2>4 DEF Answering, fsmVars
<1>6. CASE S_ECHO_STG_1
  <2>1. q_state = "ECHO_1" /\ q_state \in Counting /\ Take /\ Advance /\ Send("echo", Byte)
    BY <1>6 DEF S_ECHO_STG_1, Counting
  <2>2. PacketLeft' /\ Taken' = Taken + 1 /\ Taken \in 0 .. 6
    BY <1>1, <1>4, <2>1, PacketTaken
  <2>3. q_execute_cnt = 7 - Taken
    BY <2>1, <2>2 DEF Answering
  <2>4. /\ q_execute_cnt' = q_execute_cnt - 1
        /\ q_state' = IF q_execute_cnt' = 0 THEN "DECODE" ELSE q_state
    BY <2>1, AdvanceType DEF Typed, BoardInv
  <2>5. Len(wr') = 1
    BY <2>1 DEF Send
  <2>6. Len(up') + Len(tx') + Len(wr') <= Taken' - 3
    BY <1>2, <1>3, <1>4, <2>2, <2>5
  <2>7. IF Taken' = 7 THEN q_state' = "DECODE" ELSE q_state' = "ECHO_1" /\ q_execute_cnt' = 7 - Taken'
    BY <2>1, <2>2, <2>3, <2>4
  <2>8. Taken' >= 4
    BY <1>4, <2>2
  <2> QED BY <2>2, <2>6, <2>7, <2>8 DEF Answering
<1>7. S_WAIT \/ S_ECHO_STG_1
  <2>1. CASE Taken = 7
    <3>1. Len(rx) = 0
      BY <2>1, LineLengths DEF Taken
    <3>2. rx = <<>>
      BY <3>1, LineLengths, EmptySeq
    <3>3. q_state = "DECODE"
      BY <2>1 DEF Answering
    <3>4. ~S_DECODE
      BY <3>2 DEF S_DECODE, Take
    <3> QED BY <1>1, <3>3, <3>4
        DEF Cycle, S_DISABLED, Running, S_ECHO_STG_0, S_ECHO_STG_1, S_IO_IN_STG_0, S_IO_IN_STG_1,
            S_MEM_STG_0, S_MEM_RD_STG_1, S_MEM_WR_STG_1, S_QUERY_ERR_CODE, S_CPU_REG_RD_STG0,
            S_CPU_REG_RD_STG1
  <2>2. CASE Taken # 7
    <3>1. q_state = "ECHO_1"
      BY <2>2 DEF Answering
    <3> QED BY <1>1, <3>1
        DEF Cycle, S_DISABLED, Running, S_DECODE, S_ECHO_STG_0, S_IO_IN_STG_0, S_IO_IN_STG_1,
            S_MEM_STG_0, S_MEM_RD_STG_1, S_MEM_WR_STG_1, S_QUERY_ERR_CODE, S_CPU_REG_RD_STG0,
            S_CPU_REG_RD_STG1
  <2> QED BY <2>1, <2>2
<1> QED BY <1>5, <1>6, <1>7

\* A program that runs meanwhile only spoils the reply.
LEMMA GreetingProgram ==
    ASSUME Typed, GreetingInv, hpc = "hello", ProgramStep, OnlyEchoesU'
    PROVE  Spoilt' \/ Silent' \/ Answering'
<1> DEFINE a == Program[ip]
<1>1. ip \in 1 .. Len(Program)
  BY ProgramLength DEF Typed, ProgramTyped, ProgramStep
<1>2. a.op \in {"out", "in", "ret"}
  BY <1>1, ProgramType
<1>3. Aside /\ hpc' = "hello" /\ UNCHANGED down /\ (IF a.op = "in" THEN IoRead ELSE IoWrite(a.op, a.byte))
  BY DEF ProgramStep, hostVars
<1>4. Running /\ UNCHANGED fsmVars
  BY <1>3 DEF IoRead, IoWrite, Access
<1>5. PICK d : Transmit(d)
  BY <1>3 DEF IoRead, IoWrite
<1>6. CASE Spoilt
  BY <1>3, <1>5, <1>6, SpoiltStays DEF GreetingInv
<1>7. CASE Silent
  <2>1. tx' = <<>> /\ up' = <<>>
    BY <1>3, <1>5, <1>7, SilentTransmits DEF GreetingInv, Silent
  <2>2. PacketLeft
    BY <1>4, <1>7 DEF Silent, Running
  <2>3. q_state' = "DISABLED"
    BY <1>4 DEF Running, fsmVars
  <2>4. PacketLeft'
    <3>1. Take \/ UNCHANGED rx
      BY <1>3 DEF IoRead, IoWrite, Take
    <3> QED BY <1>3, <2>2, <3>1, PacketTaken, PacketStays
  <2>5. CASE wr' = <<>>
    BY <2>1, <2>3, <2>4, <2>5 DEF Silent, NothingBack
  <2>6. CASE wr' # <<>>
    <3>1. a.op # "in" /\ Send(a.op, a.byte)
      BY <1>3, <2>6 DEF IoRead, IoWrite
    <3>2. wr'[1].src = a.op
      <4> DEFINE s == a.op
                 b == a.byte
      <4>1. Send(s, b)
        BY <3>1
      <4> HIDE DEF s, b
      <4>2. wr'[1].src = s
        BY <4>1, SentSource
      <4> QED BY <4>2 DEF s
    <3>3. wr'[1].byte # U
      BY <1>2, <1>3, <2>6, <3>2 DEF OnlyEchoesU
    <3> QED BY <2>1, <2>6, <3>3, FirstByteOther
  <2> QED BY <2>5, <2>6
<1>8. ~Answering
  BY <1>4 DEF Answering, Running
<1> QED BY <1>3, <1>6, <1>7, <1>8 DEF GreetingInv

LEMMA GreetingDelivers ==
    ASSUME Typed, GreetingInv, hpc = "hello", Deliver
    PROVE  Spoilt' \/ Silent' \/ Answering'
<1>1. /\ UNCHANGED <<up, tx, wr>> /\ UNCHANGED fsmVars /\ Settled
  BY DEF Deliver, hostVars
<1>2. CASE Spoilt
  BY <1>1, <1>2 DEF Spoilt, NothingBack, Leads
<1>3. CASE Silent
  <2>1. CASE q_state = "DISABLE"
    BY <1>1, <1>3, <2>1 DEF Silent, NothingBack, fsmVars
  <2>2. CASE q_state # "DISABLE"
    <3>1. ~tx_full
      BY <1>3, Sizes, EmptySeq DEF Silent, NothingBack, GreetingInv, FlagInv, tx_full
    <3>2. rx = <<>>
      BY <1>1, <2>2, <3>1 DEF Settled
    <3>3. PacketLeft' /\ Taken' = Taken
      BY <1>3, <2>2, <3>2, PacketDelivered DEF Silent
    <3> QED BY <1>1, <1>3, <2>2, <3>3 DEF Silent, NothingBack, fsmVars
  <2> QED BY <2>1, <2>2
<1>4. CASE Answering
  <2>1. q_state \in {"DECODE", "ECHO_1"}
    BY <1>4 DEF Answering
  <2>2. rx = <<>>
    BY <1>1, <2>1 DEF Settled, Sending
  <2>3. PacketLeft' /\ Taken' = Taken
    BY <1>4, <2>2, PacketDelivered DEF Answering
  <2> QED BY <1>1, <1>4, <2>3 DEF Answering, fsmVars
<1> QED BY <1>2, <1>3, <1>4 DEF GreetingInv

LEMMA GreetingReturns ==
    ASSUME Typed, GreetingInv, hpc = "hello", Return
    PROVE  Spoilt' \/ Silent' \/ Answering'
<1>1. /\ UNCHANGED <<rx, down, wr>> /\ UNCHANGED fsmVars /\ wr = <<>> /\ tx # <<>>
      /\ tx' = Tail(tx) /\ up' = Append(up, Head(tx))
  BY DEF Return, Settled, SilentTx
<1>2. tx \in Seq(ByteValue) /\ up \in Seq(ByteValue)
  BY DEF Typed, BoardInv, BufferTyped, LinkTyped
<1>3. Head(tx) = tx[1] /\ Head(tx) \in ByteValue /\ Len(Tail(tx)) = Len(tx) - 1
      /\ Len(tx) \in Nat /\ Len(up) \in Nat
  BY <1>1, <1>2, HeadIsFirst, HeadTailProperties, LenProperties
<1>4. /\ up' # <<>> /\ up'[1] = IF up = <<>> THEN tx[1] ELSE up[1]
      /\ Len(up') = Len(up) + 1
  BY <1>1, <1>2, <1>3, AppendFirst, AppendProperties
<1>5. CASE Spoilt
  BY <1>1, <1>4, <1>5 DEF Spoilt, NothingBack, Leads
<1>6. CASE Answering
  <2>1. PacketLeft' /\ Taken' = Taken
    BY <1>1, <1>6, PacketStays DEF Answering
  <2>2. Len(up') + Len(tx') + Len(wr') = Len(up) + Len(tx) + Len(wr)
    <3>1. Len(wr) = 0 /\ Len(wr') = 0
      BY <1>1, EmptySeq
    <3> QED BY <1>1, <1>3, <1>4, <3>1
  <2> QED BY <1>1, <1>6, <2>1, <2>2 DEF Answering, fsmVars
<1>7. ~Silent
  BY <1>1 DEF Silent, NothingBack
<1> QED BY <1>5, <1>6, <1>7 DEF GreetingInv

\* The controller sends the greeting when the line is silent, or into a reply
\* that spoils the answer.
LEMMA GreetingSent ==
    ASSUME Typed, GreetingInv, OnlyEchoesU, Echo
    PROVE  Spoilt' \/ Silent'
<1>1. /\ hpc = "sleep" /\ (HciIdle \/ StillReplying) /\ UNCHANGED hciVars /\ up' = up /\ down' = down \o Packet
  BY DEF Echo, OnBoard, Write, Packet
<1>2. UNCHANGED <<tx, wr, rx, q_state>>
  BY <1>1 DEF hciVars, txVars, fsmVars
<1>3. down' = Packet
  <2>1. down = <<>>
    BY <1>1 DEF GreetingInv
  <2> QED BY <1>1, <2>1, PacketBytes, ConcatEmptySeq
<1>4. CASE ~NothingBack
  BY <1>1, <1>2, <1>4 DEF OnlyEchoesU, Spoilt, NothingBack, Leads
<1>5. CASE NothingBack
  <2>1. NothingBack'
    BY <1>1, <1>2, <1>5 DEF NothingBack
  <2>0. HciIdle
    <3>1. ~tx_full
      BY <1>5, Sizes, EmptySeq DEF NothingBack, GreetingInv, FlagInv, tx_full
    <3> QED BY <1>1, <3>1 DEF StillReplying
  <2>2. CASE q_state = "DISABLE"
    BY <1>2, <2>1, <2>2 DEF Silent
  <2>3. CASE q_state # "DISABLE"
    <3>1. rx' = <<>>
      BY <1>2, <2>0, <2>3 DEF HciIdle
    <3>2. Len(rx') = 0 /\ Len(down') = 7
      BY <1>3, <3>1, EmptySeq, PacketBytes
    <3>3. Taken' = 0
      BY <3>2 DEF Taken
    <3>4. \A i \in 1 .. Len(rx') : rx'[i] = Packet[Taken' + i]
      BY <3>2
    <3>5. \A i \in 1 .. Len(down') : down'[i] = Packet[Taken' + Len(rx') + i]
      BY <1>3, <3>2, <3>3
    <3>6. PacketLeft'
      BY <3>3, <3>4, <3>5 DEF PacketLeft
    <3> QED BY <2>1, <3>3, <3>6 DEF Silent
  <2> QED BY <2>2, <2>3
<1> QED BY <1>4, <1>5

LEMMA FlagStep == ASSUME Typed, FlagInv, [Next]_vars PROVE FlagInv'
<1>1. CASE BoardCycle
  BY <1>1, CycleTransmits, FlagTransmits DEF BoardCycle
<1>2. CASE ProgramStep
  <2>1. PICK d : Transmit(d)
    BY <1>2 DEF ProgramStep, IoRead, IoWrite
  <2> QED BY <2>1, FlagTransmits
<1>3. CASE Return \/ Reset
  BY <1>3 DEF FlagInv, Return, Reset, ResetHci
<1>4. CASE Deliver
  BY <1>4 DEF FlagInv, Deliver
<1>5. CASE Controller \/ InitPort \/ Kill \/ Tool \/ UNCHANGED vars
  <2>1. UNCHANGED hciVars
    BY <1>5 DEF Controller, InitPort, Kill, Tool, OnBoard, vars, Junk, Echo, HelloReply,
                UploadRam, RamUploaded, Preface, UploadInput, InputUploaded, AskPc, PcReply,
                AskMem, MemReply, Run, OnRecv
  <2> QED BY <2>1 DEF FlagInv, hciVars, txVars
<1> QED BY <1>1, <1>2, <1>3, <1>4, <1>5 DEF Next

LengthInv == q_state = "ECHO_0" => q_decode_cnt \in {0, 1}

LEMMA LengthStep == ASSUME LengthInv, [Next]_vars PROVE LengthInv'
<1>1. CASE BoardCycle
  <2>1. Cycle
    BY <1>1 DEF BoardCycle
  <2>2. CASE S_WAIT
    BY <2>2 DEF S_WAIT, fsmVars, LengthInv
  <2>3. CASE S_ECHO_STG_0
    <3>1. q_decode_cnt \in {0, 1} /\ q_decode_cnt' = (q_decode_cnt + 1) % 8
      BY <2>3 DEF LengthInv, S_ECHO_STG_0, Header
    <3>2. q_decode_cnt = 1 => q_state' # "ECHO_0"
      BY <2>3 DEF S_ECHO_STG_0, Length
    <3> QED BY <3>1, <3>2 DEF LengthInv
  <2>4. CASE S_ECHO_STG_1
    BY <2>4 DEF S_ECHO_STG_1, Advance, LengthInv
  <2> QED BY <2>1, <2>2, <2>3, <2>4, FarFromEcho DEF LengthInv
<1>2. CASE Reset
  BY <1>2 DEF Reset, ResetHci, LengthInv
<1>3. CASE \/ ProgramStep \/ Deliver \/ Return
           \/ Controller \/ InitPort \/ Kill \/ Tool \/ UNCHANGED vars
  <2>1. UNCHANGED fsmVars
    BY <1>3 DEF ProgramStep, IoRead, IoWrite, Access, Deliver, Return,
                Controller, InitPort, Kill, Tool, OnBoard, vars, hciVars, Junk, Echo, HelloReply,
                UploadRam, RamUploaded, Preface, UploadInput, InputUploaded, AskPc, PcReply,
                AskMem, MemReply, Run, OnRecv
  <2> QED BY <2>1 DEF fsmVars, LengthInv
<1> QED BY <1>1, <1>2, <1>3 DEF Next

SleepInv == hpc \in {"junk", "sleep"} => down = <<>>

LEMMA SleepStep == ASSUME SleepInv, [Next]_vars PROVE SleepInv'
<1>1. CASE Controller
  BY <1>1 DEF SleepInv, Controller, Junk, Echo, HelloReply,
              UploadRam, RamUploaded, Preface, UploadInput, InputUploaded, AskPc, PcReply,
              AskMem, MemReply, Run, OnRecv
<1>2. CASE \/ BoardCycle \/ Deliver \/ Return \/ ProgramStep \/ InitPort \/ Kill \/ Reset \/ Tool
           \/ UNCHANGED vars
  BY <1>2 DEF SleepInv, BoardCycle, Deliver, Return, ProgramStep, InitPort, Kill, Reset, Tool,
              vars, hostVars
<1> QED BY <1>1, <1>2 DEF Next

LEMMA GreetingStep ==
    Typed /\ GreetingInv /\ OnlyEchoesU /\ OnlyEchoesU' /\ [Next]_vars => GreetingInv'
<1> SUFFICES ASSUME Typed, GreetingInv, OnlyEchoesU, OnlyEchoesU', [Next]_vars
             PROVE  GreetingInv'
  OBVIOUS
<1>1. FlagInv'
  BY FlagStep DEF GreetingInv
<1>2. LengthInv'
  BY LengthStep DEF GreetingInv, LengthInv
<1>3. SleepInv'
  BY SleepStep DEF GreetingInv, SleepInv
<1>4. ASSUME hpc' = "hello" PROVE Spoilt' \/ Silent' \/ Answering'
  <2>1. CASE Echo
    BY <2>1, GreetingSent
  <2>2. CASE ~Echo
    <3>1. CASE Controller \/ InitPort \/ Kill \/ Reset \/ Tool
      <4>1. FALSE
        BY <1>4, <2>2, <3>1
           DEF Controller, InitPort, Kill, Reset, Tool, hostVars, Junk, HelloReply,
               UploadRam, RamUploaded, Preface, UploadInput, InputUploaded, AskPc, PcReply,
               AskMem, MemReply, Run, OnRecv
      <4> QED BY <4>1
    <3>2. CASE BoardCycle
      <4>1. hpc = "hello"
        BY <1>4, <3>2 DEF BoardCycle, hostVars
      <4>2. CASE Spoilt
        BY <3>2, <4>1, <4>2, SpoiltStays, CycleTransmits DEF BoardCycle, GreetingInv
      <4> QED BY <3>2, <4>1, <4>2, SilentCycle, AnsweringCycle DEF GreetingInv
    <3>3. CASE ProgramStep \/ Deliver \/ Return
      <4>1. hpc = "hello"
        BY <1>4, <3>3 DEF ProgramStep, Deliver, Return, hostVars
      <4> QED BY <3>3, <4>1, GreetingProgram, GreetingDelivers, GreetingReturns
    <3>4. CASE UNCHANGED vars
      <4>1. hpc = "hello" /\ UNCHANGED <<rx, down, up, tx, wr, q_state, q_decode_cnt, q_execute_cnt>>
        BY <1>4, <3>4 DEF vars, hostVars, hciVars, fsmVars, txVars
      <4>2. (PacketLeft => PacketLeft') /\ Taken' = Taken
        BY <4>1, PacketStays DEF Taken
      <4> QED BY <4>1, <4>2
          DEF GreetingInv, Spoilt, Silent, Answering, NothingBack, Leads
    <3> QED BY <2>2, <3>1, <3>2, <3>3, <3>4 DEF Next
  <2> QED BY <2>1, <2>2
<1> QED BY <1>1, <1>2, <1>3, <1>4 DEF GreetingInv, LengthInv, SleepInv

\* A controller goes on only if the four letters are what came first.
LEMMA GreetingAgrees ==
    ASSUME Typed, GreetingInv, Next, hpc = "hello", hpc' = "ram"
    PROVE  /\ q_state = "DECODE"
           /\ down = <<>> /\ rx = <<>> /\ wr = <<>> /\ tx = <<>> /\ up' = <<>>
<1>1. HelloReply
  BY DEF Next, Controller, BoardCycle, Deliver, Return, ProgramStep, InitPort, Kill, Reset, Tool,
         hostVars, Junk, Echo, UploadRam, RamUploaded, Preface, UploadInput, InputUploaded, AskPc,
         PcReply, AskMem, MemReply, Run, OnRecv
<1>2. Front(up, 4) = Hello /\ up' = Rest(up, 4)
  BY <1>1 DEF HelloReply, Reply
<1>3. up \in Seq(ByteValue) /\ Len(up) \in Nat
  BY LenProperties DEF Typed, LinkTyped
<1>4. Len(up) >= 4 /\ up[1] = U
  <2> DEFINE m == Min2(4, Len(up))
  <2>1. m \in Nat /\ m <= 4 /\ m <= Len(up)
    BY <1>3 DEF Min2
  <2> HIDE DEF m
  <2>2. SubSeq(up, 1, m) = Hello
    BY <1>2 DEF Front, m
  <2>3. Len(Hello) = 4 /\ Hello[1] = U
    BY DEF Hello, U
  <2>4. \A i \in 1 .. m : up[i] \in ByteValue
    BY <1>3, <2>1, ElementOfSeq
  <2>5. /\ Len(SubSeq(up, 1, m)) = IF 1 <= m THEN m - 1 + 1 ELSE 0
        /\ \A i \in 1 .. m - 1 + 1 : SubSeq(up, 1, m)[i] = up[1 + i - 1]
    BY <2>1, <2>4, SubSeqProperties
  <2>6. m = 4
    <3>1. Len(SubSeq(up, 1, m)) = 4
      BY <2>2, <2>3
    <3> DEFINE n == Len(SubSeq(up, 1, m))
    <3>2. n = 4 /\ n = IF 1 <= m THEN m - 1 + 1 ELSE 0
      BY <2>5, <3>1
    <3> HIDE DEF n
    <3> QED BY <2>1, <3>2
  <2>7. SubSeq(up, 1, m)[1] = up[1]
    BY <2>5, <2>6
  <2> QED BY <2>1, <2>2, <2>3, <2>6, <2>7
<1>5. up # <<>>
  BY <1>4, EmptySeq
<1>6. Answering
  BY <1>4, <1>5 DEF GreetingInv, Spoilt, Silent, NothingBack, Leads
<1>7. /\ tx \in Seq(ByteValue) /\ wr \in Seq(Sent) /\ rx \in Seq(ByteValue)
      /\ down \in Seq(ByteValue)
  BY DEF Typed, BoardInv, BufferTyped, RegsTyped, LineTyped, LinkTyped
<1>8. Len(tx) \in Nat /\ Len(wr) \in Nat /\ Len(rx) \in Nat /\ Len(down) \in Nat
  BY <1>7, LenProperties
<1>9. Taken = 7 /\ Len(up) = 4 /\ Len(tx) = 0 /\ Len(wr) = 0
  <2>1. Taken \in 0 .. 7 /\ Len(up) + Len(tx) + Len(wr) <= Taken - 3
    BY <1>6 DEF Answering, PacketLeft
  <2> DEFINE a == Len(up)
             b == Len(tx)
             c == Len(wr)
             k == Taken
  <2>2. /\ a \in Nat /\ b \in Nat /\ c \in Nat /\ k \in 0 .. 7
        /\ a >= 4 /\ a + b + c <= k - 3
    BY <1>3, <1>4, <1>8, <2>1
  <2> HIDE DEF a, b, c, k
  <2>3. k = 7 /\ a = 4 /\ b = 0 /\ c = 0
    BY <2>2
  <2> QED BY <2>3 DEF a, b, c, k
<1>10. q_state = "DECODE"
  BY <1>6, <1>9 DEF Answering
<1>11. Len(rx) = 0 /\ Len(down) = 0
  BY <1>8, <1>9 DEF Taken
<1>12. tx = <<>> /\ wr = <<>> /\ rx = <<>> /\ down = <<>>
  BY <1>7, <1>9, <1>11, EmptySeq
<1>13. up' = <<>>
  <2>1. SubSeq(up, 5, Len(up)) = <<>>
    BY <1>9, SubSeqEmpty
  <2> QED BY <1>2, <2>1 DEF Rest
<1> QED BY <1>10, <1>12, <1>13

\* on_init succeeds only if the controller and the board agree again, in
\* whatever state killed controllers, tools, resets and a running program left
\* the board: four letters of echo prove that nothing else is on its way.  The
\* reply is not numbered, so that it must be known to be the echo.
THEOREM HelloAgrees == Spec /\ []OnlyEchoesU => HelloSync
<1>1. Init => GreetingInv
  BY DEF Init, InitHci, GreetingInv, FlagInv
<1>2. Typed /\ GreetingInv /\ [Next]_vars =>
        [hpc = "hello" /\ hpc' = "ram" =>
           /\ q_state = "DECODE"
           /\ down = <<>> /\ rx = <<>> /\ wr = <<>> /\ tx = <<>> /\ up' = <<>>]_vars
  BY GreetingAgrees DEF vars
<1>3. Spec => []Typed
  BY TypedInit, TypedStep, PTL DEF Spec
<1>4. Spec /\ []OnlyEchoesU => []GreetingInv
  BY <1>1, <1>3, GreetingStep, PTL DEF Spec
<1> QED BY <1>2, <1>3, <1>4, PTL DEF Spec, HelloSync
=============================================================================

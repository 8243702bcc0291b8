--------------------------------- MODULE Hci ---------------------------------
(***************************************************************************)
(* The host interface (hci.v): a state machine on the board that takes     *)
(* commands from the serial line byte by byte, reads and writes the RAM    *)
(* while the CPU is halted, and serves the I/O accesses of the program      *)
(* while it runs.  One action is one clock cycle.                          *)
(*                                                                         *)
(* q_tx_data and q_wr_en are registers: a byte written in one cycle is in   *)
(* the transmit buffer, and counts for tx_full, a cycle later.             *)
(***************************************************************************)
EXTENDS Integers, Sequences

CONSTANTS
    RxCap, TxCap, \* bytes the buffers of the UART hold
    InCap,        \* bytes io_in_fifo holds
    RamSize,      \* bytes of RAM: 2^RAM_ADDR_WIDTH
    Count,        \* values of q_execute_cnt: 2^17
    DbgReg        \* the four bytes of cpu_dbgreg_din, low byte first

ASSUME HciAssumption ==
    /\ RxCap \in Nat \ {0} /\ TxCap \in Nat /\ TxCap >= 3 /\ InCap \in Nat \ {0}
    /\ RamSize \in Nat /\ RamSize >= 8 /\ RamSize <= 131072
    /\ Count \in Nat /\ Count >= 8
    /\ DbgReg \in [1 .. 4 -> 0 .. 255]

VARIABLES
    q_state, q_decode_cnt, q_execute_cnt, q_addr,
    q_err_code,  \* its bit for an unknown command
    wr,          \* q_tx_data while q_wr_en: no byte or one, with what sent it
    inwr,        \* q_io_in_wr_data while q_io_in_wr_en
    q_io_en,
    rx, tx,      \* the buffers of the UART
    flag,        \* of the transmit buffer: exact, or "empty" is up over one byte
                 \* or "full" over one place (fifo.v: both ports in one cycle)
    fresh,       \* the byte at its front is new: it is not sent yet
    inbuf,       \* io_in_fifo
    ram,
    lost         \* which of "mem" (a MEM_RD reply) and "ret" (the end of the
                 \* program) ever found the transmit buffer full

txVars == <<tx, flag, fresh>>
fsmVars == <<q_state, q_decode_cnt, q_execute_cnt, q_addr, q_err_code>>
hciVars == <<fsmVars, wr, inwr, q_io_en, rx, txVars, inbuf, ram, lost>>

OP_ECHO == 0
OP_CPU_REG_RD == 1
OP_DBG_BRK == 3
OP_DBG_RUN == 4
OP_IO_IN == 5
OP_QUERY_DBG_BRK == 7
OP_QUERY_ERR_CODE == 8
OP_MEM_RD == 9
OP_MEM_WR == 10
OP_DISABLE == 11

States == {"DISABLED", "DECODE", "ECHO_0", "ECHO_1", "IO_IN_0", "IO_IN_1",
           "REG_RD_0", "REG_RD_1", "QUERY_ERR", "MEM_RD_0", "MEM_RD_1",
           "MEM_WR_0", "MEM_WR_1", "DISABLE"}

\* States that take a byte of the line as soon as there is one.
Taking == {"DISABLED", "DECODE", "ECHO_0", "ECHO_1", "IO_IN_0", "IO_IN_1",
           "MEM_RD_0", "MEM_WR_0", "MEM_WR_1"}

\* States with something to send.
Sending == {"REG_RD_0", "REG_RD_1", "QUERY_ERR", "MEM_RD_1"}

Running == q_state = "DISABLED"

tx_full == Len(tx) = TxCap \/ flag = "full"
SilentTx == tx = <<>> \/ flag = "empty"
io_in_full == Len(inbuf) = InCap
\* Only a byte of the line, or room for one, makes the state machine go on.
Settled ==
    /\ wr = <<>> /\ inwr = <<>> /\ ~q_io_en
    /\ \/ q_state \in Taking /\ rx = <<>>
       \/ q_state \in Sending /\ tx_full
          /\ ~(q_state = "MEM_RD_1" /\ q_execute_cnt % 2 = 0)
       \/ q_state = "DISABLE"

-----------------------------------------------------------------------------
(* The reset, and what every cycle does.                                   *)

ResetHci ==
    /\ q_state' = "DECODE" /\ q_decode_cnt' = 0 /\ q_execute_cnt' = 0
    /\ q_addr' = 0 /\ q_err_code' = FALSE
    /\ wr' = <<>> /\ inwr' = <<>> /\ q_io_en' = FALSE
    /\ rx' = <<>> /\ tx' = <<>> /\ flag' = "exact" /\ fresh' = FALSE /\ inbuf' = <<>>
    /\ UNCHANGED <<ram, lost>>

InitHci ==
    /\ q_state = "DECODE" /\ q_decode_cnt = 0 /\ q_execute_cnt = 0
    /\ q_addr = 0 /\ q_err_code = FALSE
    /\ wr = <<>> /\ inwr = <<>> /\ q_io_en = FALSE
    /\ rx = <<>> /\ tx = <<>> /\ flag = "exact" /\ fresh = FALSE /\ inbuf = <<>>
    /\ ram = [a \in 0 .. RamSize - 1 |-> 0]
    /\ lost = {}

\* The transmitter takes up the byte at the front, unless empty hides it, and
\* the buffer gives it up when it is sent: perhaps in the cycle of a write.
\* With one byte in the buffer, or one place left, that raises a flag wrongly.
\* A cycle in a settled state stands for any number of them.
Push(accepted) ==
    \/ /\ tx' = IF accepted THEN Append(tx, wr[1].byte) ELSE tx
       /\ flag' = IF accepted /\ flag = "empty" THEN "exact" ELSE flag
       /\ fresh' = ((accepted /\ SilentTx) \/ (fresh /\ ~Settled))
    \/ /\ accepted /\ flag = "exact" /\ ~fresh /\ Len(tx) \in {1, TxCap - 1}
       /\ tx' = Append(Tail(tx), wr[1].byte)
       /\ flag' = IF Len(tx) = 1 THEN "empty" ELSE "full"
       /\ fresh' = TRUE

SentAside == flag = "exact" /\ flag' # "exact"

\* Mutant: a full buffer takes one more.
MutTransmit(dropped) == Push(wr # <<>>) /\ UNCHANGED lost

\* The transmit buffer takes the byte of the register, or drops it.
Transmit(dropped) ==
    LET late == IF tx_full /\ wr # <<>> THEN {wr[1].src} ELSE {}
    IN  /\ Push(wr # <<>> /\ ~tx_full)
        /\ lost' = lost \cup ((late \cup dropped) \cap {"mem", "ret"})

\* io_in_fifo takes the byte of its register and gives up the one at its front.
StoreInput(pop) ==
    inbuf' = (IF pop THEN Tail(inbuf) ELSE inbuf) \o (IF io_in_full THEN <<>> ELSE inwr)

\* A cycle without an access of the program.
Quietly == Transmit({}) /\ StoreInput(FALSE) /\ q_io_en' = FALSE

Send(src, b) == wr' = <<[src |-> src, byte |-> b]>>

Take == rx # <<>> /\ rx' = Tail(rx)
Byte == Head(rx)
-----------------------------------------------------------------------------
(* The state machine.                                                      *)

\* The program runs; only a break and a query are listened to.
S_DISABLED ==
    /\ Running /\ Take /\ Quietly
    /\ q_state' = IF Byte = OP_DBG_BRK THEN "DECODE" ELSE "DISABLED"
    /\ IF Byte = OP_QUERY_DBG_BRK THEN Send("query", 0) ELSE wr' = <<>>
    /\ inwr' = <<>>
    /\ UNCHANGED <<q_decode_cnt, q_execute_cnt, q_addr, q_err_code, ram>>

\* Mutant: the command that lets the CPU run is missing.
MutCommand(b) ==
    CASE b = OP_ECHO           -> "ECHO_0"
      [] b = OP_IO_IN          -> "IO_IN_0"
      [] b = OP_QUERY_ERR_CODE -> "QUERY_ERR"
      [] b = OP_MEM_RD         -> "MEM_RD_0"
      [] b = OP_MEM_WR         -> "MEM_WR_0"
      [] b = OP_CPU_REG_RD     -> "REG_RD_0"
      [] b = OP_DISABLE        -> "DISABLE"
      [] OTHER                 -> "DECODE"

\* OP_DISABLE leads to a state the case statement does not have.
Command(b) ==
    CASE b = OP_ECHO           -> "ECHO_0"
      [] b = OP_IO_IN          -> "IO_IN_0"
      [] b = OP_QUERY_ERR_CODE -> "QUERY_ERR"
      [] b = OP_MEM_RD         -> "MEM_RD_0"
      [] b = OP_MEM_WR         -> "MEM_WR_0"
      [] b = OP_CPU_REG_RD     -> "REG_RD_0"
      [] b = OP_DISABLE        -> "DISABLE"
      [] b = OP_DBG_RUN        -> "DISABLED"
      [] OTHER                 -> "DECODE"

S_DECODE ==
    /\ q_state = "DECODE" /\ Take /\ Quietly
    /\ q_decode_cnt' = 0
    /\ q_state' = Command(Byte)
    /\ IF Byte = OP_QUERY_DBG_BRK THEN Send("query", 1) ELSE wr' = <<>>
    /\ q_err_code' = (q_err_code \/ Byte \in {2, 6} \cup (12 .. 255))
    /\ inwr' = <<>>
    /\ UNCHANGED <<q_execute_cnt, q_addr, ram>>

\* CNT_LO and CNT_HI of a command; a count of zero ends it.
Length(lo, hi) ==
    IF lo
    THEN q_execute_cnt' = Byte % Count /\ UNCHANGED q_state
    ELSE /\ q_execute_cnt' = ((IF q_state = "MEM_RD_0" THEN 2 ELSE 1)
                              * (256 * Byte + (q_execute_cnt % 256))) % Count
         /\ q_state' = IF q_execute_cnt' = 0 THEN "DECODE" ELSE hi

Header ==
    /\ Take /\ Quietly
    /\ q_decode_cnt' = (q_decode_cnt + 1) % 8
    /\ wr' = <<>> /\ inwr' = <<>>
    /\ UNCHANGED <<q_err_code, ram>>

S_ECHO_STG_0 ==
    /\ q_state = "ECHO_0" /\ Header
    /\ Length(q_decode_cnt = 0, "ECHO_1")
    /\ UNCHANGED q_addr

S_IO_IN_STG_0 ==
    /\ q_state = "IO_IN_0" /\ Header
    /\ Length(q_decode_cnt = 0, "IO_IN_1")
    /\ UNCHANGED q_addr

\* The address with one more of its bytes, low byte first.
AddressWith(b) ==
    CASE q_decode_cnt = 0 -> b
      [] q_decode_cnt = 1 -> 256 * b + (q_addr % 256)
      [] q_decode_cnt = 2 -> 65536 * b + (q_addr % 65536)

\* MEM_RD and MEM_WR have three bytes of address in front of the length.
S_MEM_STG_0 ==
    /\ q_state \in {"MEM_RD_0", "MEM_WR_0"} /\ Header
    /\ IF q_decode_cnt < 3
       THEN /\ q_addr' = AddressWith(Byte) % RamSize
            /\ UNCHANGED <<q_execute_cnt, q_state>>
       ELSE /\ Length(q_decode_cnt = 3, IF q_state = "MEM_RD_0" THEN "MEM_RD_1" ELSE "MEM_WR_1")
            /\ UNCHANGED q_addr

\* One byte or half byte of a command is done; after the last of them the
\* state machine is ready for the next.
Advance ==
    /\ q_execute_cnt' = (q_execute_cnt - 1) % Count
    /\ q_state' = IF q_execute_cnt' = 0 THEN "DECODE" ELSE q_state
    /\ UNCHANGED <<q_decode_cnt, q_err_code>>

\* tx_full is not looked at: what comes back is no faster than what came.
S_ECHO_STG_1 ==
    /\ q_state = "ECHO_1" /\ Take /\ Quietly /\ Advance
    /\ Send("echo", Byte)
    /\ inwr' = <<>>
    /\ UNCHANGED <<q_addr, ram>>

S_IO_IN_STG_1 ==
    /\ q_state = "IO_IN_1" /\ Take /\ Quietly /\ Advance
    /\ inwr' = IF io_in_full THEN <<>> ELSE <<Byte>>
    /\ wr' = <<>>
    /\ UNCHANGED <<q_addr, ram>>

S_MEM_WR_STG_1 ==
    /\ q_state = "MEM_WR_1" /\ Take /\ Quietly /\ Advance
    /\ ram' = [ram EXCEPT ![q_addr] = Byte]
    /\ q_addr' = (q_addr + 1) % RamSize
    /\ wr' = <<>> /\ inwr' = <<>>

S_QUERY_ERR_CODE ==
    /\ q_state = "QUERY_ERR" /\ ~tx_full /\ Quietly
    /\ Send("err", IF q_err_code THEN 2 ELSE 0)
    /\ q_state' = "DECODE"
    /\ inwr' = <<>>
    /\ UNCHANGED <<q_decode_cnt, q_execute_cnt, q_addr, q_err_code, rx, ram>>

S_CPU_REG_RD_STG0 ==
    /\ q_state = "REG_RD_0" /\ ~tx_full /\ Quietly
    /\ q_execute_cnt' = 4 /\ q_addr' = 0 /\ q_state' = "REG_RD_1"
    /\ wr' = <<>> /\ inwr' = <<>>
    /\ UNCHANGED <<q_decode_cnt, q_err_code, rx, ram>>

S_CPU_REG_RD_STG1 ==
    /\ q_state = "REG_RD_1" /\ ~tx_full /\ Quietly /\ Advance
    /\ Send("reg", DbgReg[q_addr + 1])
    /\ q_addr' = q_addr + 1
    /\ inwr' = <<>>
    /\ UNCHANGED <<rx, ram>>

\* Mutant: room in the transmit buffer is not looked for.
MutS_MEM_RD_STG_1 ==
    /\ q_state = "MEM_RD_1" /\ Quietly
    /\ IF q_execute_cnt % 2 = 0
       THEN /\ q_execute_cnt' = q_execute_cnt - 1
            /\ wr' = <<>>
            /\ UNCHANGED <<q_state, q_decode_cnt, q_err_code, q_addr>>
       ELSE /\ Advance
            /\ Send("mem", ram[q_addr])
            /\ q_addr' = (q_addr + 1) % RamSize
    /\ inwr' = <<>>
    /\ UNCHANGED <<rx, ram>>

\* An even count is the cycle that lets the RAM and tx_full catch up.
S_MEM_RD_STG_1 ==
    /\ q_state = "MEM_RD_1" /\ Quietly
    /\ IF q_execute_cnt % 2 = 0
       THEN /\ q_execute_cnt' = q_execute_cnt - 1
            /\ wr' = <<>>
            /\ UNCHANGED <<q_state, q_decode_cnt, q_err_code, q_addr>>
       ELSE /\ ~tx_full /\ Advance
            /\ Send("mem", ram[q_addr])
            /\ q_addr' = (q_addr + 1) % RamSize
    /\ inwr' = <<>>
    /\ UNCHANGED <<rx, ram>>

\* Nothing to take, no room to send, or the state that has no case.
S_WAIT ==
    /\ \/ q_state \in Taking /\ rx = <<>>
       \/ q_state \in Sending /\ tx_full
          /\ ~(q_state = "MEM_RD_1" /\ q_execute_cnt % 2 = 0)
       \/ q_state = "DISABLE"
    /\ Quietly
    /\ wr' = <<>> /\ inwr' = <<>>
    /\ UNCHANGED <<fsmVars, rx, ram>>
-----------------------------------------------------------------------------
(* Accesses of the program, on the rising edge of io_en; the state machine  *)
(* stands still in that cycle.                                             *)

Access == Running /\ ~q_io_en /\ q_io_en' = TRUE /\ UNCHANGED <<fsmVars, ram>>

\* Mutant: a zero is sent like any other byte.
MutIoWrite(src, b) ==
    /\ Access
    /\ IF tx_full
       THEN wr' = <<>> /\ Transmit({src})
       ELSE Send(src, b) /\ Transmit({})
    /\ StoreInput(FALSE)
    /\ inwr' = <<>>
    /\ UNCHANGED rx

\* A store to 0x30000 prints a byte, one to 0x30004 ends the program.  With
\* the transmit buffer full the byte is gone.
IoWrite(src, b) ==
    /\ Access
    /\ IF tx_full
       THEN wr' = <<>> /\ Transmit({src})
       ELSE /\ IF src = "ret" \/ b # 0 THEN Send(src, b) ELSE wr' = <<>>
            /\ Transmit({})
    /\ StoreInput(FALSE)
    /\ inwr' = <<>>
    /\ UNCHANGED rx

\* A load from 0x30000 takes a byte of input; a byte waiting on the line
\* becomes input in the same cycle, whatever it was meant for.
IoRead ==
    /\ Access
    /\ Transmit({}) /\ StoreInput(inbuf # <<>>)
    /\ wr' = <<>>
    /\ IF rx # <<>> /\ ~io_in_full
       THEN rx' = Tail(rx) /\ inwr' = <<Byte>>
       ELSE inwr' = <<>> /\ UNCHANGED rx
-----------------------------------------------------------------------------
Cycle ==
    \/ S_DISABLED \/ S_DECODE
    \/ S_ECHO_STG_0 \/ S_ECHO_STG_1
    \/ S_IO_IN_STG_0 \/ S_IO_IN_STG_1
    \/ S_MEM_STG_0 \/ S_MEM_RD_STG_1 \/ S_MEM_WR_STG_1
    \/ S_QUERY_ERR_CODE \/ S_CPU_REG_RD_STG0 \/ S_CPU_REG_RD_STG1
    \/ S_WAIT

\* Everything sent to the board has had its effect.
HciIdle ==
    /\ q_state = "DISABLE" \/ (q_state \in Taking /\ rx = <<>>)
    /\ Running \/ (SilentTx /\ wr = <<>>)

HciTypeOK ==
    /\ q_state \in States /\ q_decode_cnt \in 0 .. 7
    /\ q_execute_cnt \in 0 .. Count - 1 /\ q_addr \in 0 .. RamSize - 1
    /\ q_err_code \in BOOLEAN /\ q_io_en \in BOOLEAN
    /\ rx \in Seq(0 .. 255) /\ Len(rx) <= RxCap
    /\ Len(tx) <= TxCap /\ Len(wr) <= 1
    /\ flag \in {"exact", "empty", "full"} /\ fresh \in BOOLEAN
    /\ inbuf \in Seq(0 .. 255) /\ Len(inbuf) <= InCap /\ Len(inwr) <= 1
    /\ ram \in [0 .. RamSize - 1 -> 0 .. 255]
=============================================================================

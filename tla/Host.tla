-------------------------------- MODULE Host --------------------------------
(***************************************************************************)
(* The host controller (controller.cpp, listener.h), the serial line and   *)
(* the board: one controller after another connects, checks the line,      *)
(* uploads a program and its input, starts it and prints what comes back.  *)
(* A controller may be killed anywhere; the board keeps its state.  Between *)
(* controllers a user may press reset or send a command with a debugging   *)
(* tool.                                                                   *)
(***************************************************************************)
EXTENDS Hci, FiniteSets

CONSTANTS
    Image,      \* the file of the program
    RamData,    \* ram_data: the image, and zeros up to the end of the last block
    RamBlk,     \* blk_size of upload_ram
    Input,      \* the file of its input
    InBlk,      \* blk_size of upload_input
    PeekSize,   \* bytes of program the command p shows
    Program,    \* the I/O accesses of the program, in order
    ToolPackets,\* what the debugging tool may send
    MaxSession, \* bound: controllers that run
    MaxTool,    \* bound: packets of the tool
    MaxPeek,    \* bound: commands p of a controller
    MaxReset    \* bound: resets

ASSUME HostAssumption ==
    /\ {RamBlk, InBlk, PeekSize} \subseteq Nat \ {0}
    /\ RamBlk <= 65535 /\ InBlk <= 65535 /\ PeekSize <= 65535
    /\ Len(RamData) % RamBlk = 0 /\ Len(RamData) <= RamSize
    /\ SubSeq(RamData, 1, Len(Image)) = Image
    /\ {Image, RamData, Input} \subseteq Seq(0 .. 255) /\ ToolPackets \subseteq Seq(0 .. 255)
    /\ Program \in Seq([op : {"out", "in", "ret"}, byte : 0 .. 255])
    /\ {MaxSession, MaxTool, MaxPeek, MaxReset} \subseteq Nat

VARIABLES
    hpc,        \* where the controller is; "off": none runs
    blk,        \* loop counter of the uploads
    pc,         \* what p read last
    peeks,      \* commands p so far
    down, up,   \* bytes on their way to the board, and to the controller
    sessions, tools, resets,
    ip,         \* the program: its next access
    printed,    \* what it has printed since it started
    shown,      \* what this controller has printed of it
    had,        \* input already on the board when this controller uploads its own
    late        \* this controller has given up on a reply

hostVars == <<hpc, blk, pc, peeks, shown, had, late>>
bounds == <<sessions, tools, resets>>
cpuVars == <<ip, printed>>
vars == <<hciVars, hostVars, down, up, bounds, cpuVars>>

Min2(a, b) == IF a <= b THEN a ELSE b
Front(s, n) == SubSeq(s, 1, Min2(n, Len(s)))
Rest(s, n) == SubSeq(s, n + 1, Len(s))

Word16(n) == <<n % 256, n \div 256>>
Address(a) == Word16(a % 65536) \o <<a \div 65536>>

Hello == <<85, 65, 82, 84>>
-----------------------------------------------------------------------------
Init ==
    /\ InitHci
    /\ hpc = "off" /\ blk = 0 /\ pc = 0 /\ peeks = 0
    /\ down = <<>> /\ up = <<>>
    /\ sessions = 0 /\ tools = 0 /\ resets = 0
    /\ ip = 1 /\ printed = <<>>
    /\ shown = <<>> /\ had = <<>> /\ late = FALSE

(* The board and the line.                                                 *)

\* While the state machine is out of S_DISABLED rdy_in of the CPU is low, and
\* that is a reset (see Cpu): a program that is stopped starts again.
HoldCpu ==
    IF Running /\ q_state' # "DISABLED"
    THEN ip' = 1 /\ printed' = <<>>
    ELSE UNCHANGED cpuVars

\* A byte that was sent in the cycle of a write.
Aside == up' = IF SentAside /\ hpc # "off" THEN Append(up, Head(tx)) ELSE up

BoardCycle == Cycle /\ HoldCpu /\ Aside /\ UNCHANGED <<hostVars, down, bounds>>

\* A byte takes hundreds of cycles: when the next one comes, or one has been
\* sent, the board has done what it could.  A full receive buffer drops it.
Deliver ==
    /\ down # <<>> /\ Settled
    /\ down' = Tail(down)
    /\ rx' = IF Len(rx) < RxCap THEN Append(rx, Head(down)) ELSE rx
    /\ fresh' = FALSE
    /\ UNCHANGED <<fsmVars, wr, inwr, q_io_en, tx, flag, inbuf, ram, lost,
                   hostVars, up, bounds, cpuVars>>

\* What arrives while no controller has the port open is dropped.
Return ==
    /\ ~SilentTx /\ Settled
    /\ tx' = Tail(tx) /\ flag' = "exact" /\ fresh' = (Len(tx) > 1)
    /\ up' = IF hpc = "off" THEN up ELSE Append(up, Head(tx))
    /\ UNCHANGED <<fsmVars, wr, inwr, q_io_en, rx, inbuf, ram, lost,
                   hostVars, down, bounds, cpuVars>>

\* The CPU runs while the state machine is in S_DISABLED.
ProgramStep ==
    /\ ip <= Len(Program)
    /\ LET a == Program[ip]
       IN  /\ IF a.op = "in" THEN IoRead ELSE IoWrite(a.op, a.byte)
           /\ printed' = IF a.op = "out" THEN Append(printed, a.byte) ELSE printed
    /\ ip' = ip + 1
    /\ Aside
    /\ UNCHANGED <<hostVars, down, bounds>>

\* Between controllers the user presses the button; RAM keeps its contents.
Reset ==
    /\ hpc = "off" /\ down = <<>> /\ resets < MaxReset /\ sessions < MaxSession
    /\ resets' = resets + 1
    /\ ResetHci
    /\ ip' = 1 /\ printed' = <<>>
    /\ UNCHANGED <<hostVars, down, up, sessions, tools>>

\* ... or sends a command, which waits for no reply.
Tool ==
    /\ hpc = "off" /\ down = <<>> /\ tools < MaxTool /\ sessions < MaxSession
    /\ tools' = tools + 1
    /\ down' \in ToolPackets
    /\ UNCHANGED <<hciVars, hostVars, up, sessions, resets, cpuVars>>
-----------------------------------------------------------------------------
(* The controller.                                                         *)

OnBoard == UNCHANGED <<hciVars, cpuVars, tools, resets>>

\* uart_send, first half: write takes the whole packet.
Write(p) == down' = down \o p

\* uart_send with a reply of n bytes, second half: they are there, or the
\* time-out passes.
Reply(n) == up' = Rest(up, n)

\* init_port opens the port, which another program has left.
InitPort ==
    /\ hpc = "off" /\ down = <<>> /\ sessions < MaxSession
    /\ sessions' = sessions + 1
    /\ hpc' = "junk"
    /\ blk' = 0 /\ pc' = 0 /\ peeks' = 0 /\ shown' = <<>> /\ had' = <<>>
    /\ late' = FALSE /\ up' = <<>>
    /\ OnBoard /\ UNCHANGED down

\* on_init: eight bytes are thrown away, or those that come within 130 ms,
\* which is longer than the line takes to fall silent; then a second passes.
Junk ==
    /\ hpc = "junk" /\ (Len(up) >= 8 \/ (down = <<>> /\ HciIdle))
    /\ Reply(8) /\ hpc' = "sleep"
    /\ OnBoard
    /\ UNCHANGED <<blk, pc, peeks, shown, had, late, down, sessions>>

\* A reply of MEM_RD to a tool or to a controller before: one of more than
\* about 11.8 KB outlasts the 130 ms and the second.  What the board sends at
\* its end, out of the transmit buffer alone, is the same for a packet that
\* was written while the buffer was still full.
StillReplying == q_state = "MEM_RD_1" /\ tx_full

Echo ==
    /\ hpc = "sleep" /\ (HciIdle \/ StillReplying)
    /\ Write(<<OP_ECHO>> \o Word16(4) \o Hello)
    /\ hpc' = "hello"
    /\ OnBoard
    /\ UNCHANGED <<blk, pc, peeks, shown, had, late, up, sessions>>

\* Mutant: four bytes of any value will do.
MutHelloReply ==
    /\ hpc = "hello"
    /\ Reply(4)
    /\ hpc' = IF Len(up) >= 4 THEN "ram" ELSE "off"
    /\ OnBoard
    /\ UNCHANGED <<blk, pc, peeks, shown, had, late, down, sessions>>

HelloReply ==
    /\ hpc = "hello"
    /\ Reply(4)
    /\ hpc' = IF Front(up, 4) = Hello THEN "ram" ELSE "off"
    /\ OnBoard
    /\ UNCHANGED <<blk, pc, peeks, shown, had, late, down, sessions>>

\* Mutant: the blocks all go to the first addresses.
MutUploadRam ==
    /\ hpc = "ram" /\ blk * RamBlk < Len(RamData)
    /\ Write(<<OP_MEM_WR>> \o Address(blk) \o Word16(RamBlk)
             \o SubSeq(RamData, blk * RamBlk + 1, (blk + 1) * RamBlk))
    /\ blk' = blk + 1
    /\ OnBoard
    /\ UNCHANGED <<hpc, pc, peeks, shown, had, late, up, sessions>>

\* upload_ram, block by block; a second of silence after the last.
UploadRam ==
    /\ hpc = "ram" /\ blk * RamBlk < Len(RamData)
    /\ Write(<<OP_MEM_WR>> \o Address(blk * RamBlk) \o Word16(RamBlk)
             \o SubSeq(RamData, blk * RamBlk + 1, (blk + 1) * RamBlk))
    /\ blk' = blk + 1
    /\ OnBoard
    /\ UNCHANGED <<hpc, pc, peeks, shown, had, late, up, sessions>>

RamUploaded ==
    /\ hpc = "ram" /\ blk * RamBlk >= Len(RamData)
    /\ down = <<>> /\ HciIdle
    /\ blk' = 0
    /\ hpc' = IF Input = <<>> THEN "ready" ELSE "preface"
    /\ had' = inbuf \o inwr
    /\ OnBoard
    /\ UNCHANGED <<pc, peeks, shown, late, down, up, sessions>>

\* upload_input: two spaces, then the input.
Preface ==
    /\ hpc = "preface"
    /\ Write(<<OP_IO_IN>> \o Word16(2) \o <<32, 32>>)
    /\ hpc' = "input"
    /\ OnBoard
    /\ UNCHANGED <<blk, pc, peeks, shown, had, late, up, sessions>>

UploadInput ==
    /\ hpc = "input" /\ blk * InBlk < Len(Input)
    /\ LET dat == SubSeq(Input, blk * InBlk + 1, Min2((blk + 1) * InBlk, Len(Input)))
       IN  Write(<<OP_IO_IN>> \o Word16(Len(dat)) \o dat)
    /\ blk' = blk + 1
    /\ OnBoard
    /\ UNCHANGED <<hpc, pc, peeks, shown, had, late, up, sessions>>

InputUploaded ==
    /\ hpc = "input" /\ blk * InBlk >= Len(Input)
    /\ down = <<>> /\ HciIdle
    /\ hpc' = "ready"
    /\ OnBoard
    /\ UNCHANGED <<blk, pc, peeks, shown, had, late, down, up, sessions>>

\* run, command p: the program counter, then the RAM it points at.  A reply
\* cut off by the time-out stays in the buffer with the rest of it.
AskPc ==
    /\ hpc = "ready" /\ peeks < MaxPeek
    /\ peeks' = peeks + 1
    /\ Write(<<OP_CPU_REG_RD>>)
    /\ hpc' = "pc"
    /\ OnBoard
    /\ UNCHANGED <<blk, pc, shown, had, late, up, sessions>>

PcReply ==
    /\ hpc = "pc"
    /\ Reply(4)
    /\ pc' = IF up = <<>> THEN 0 ELSE Head(up)
    /\ late' = (late \/ Len(up) < 4)
    /\ hpc' = "askmem"
    /\ OnBoard
    /\ UNCHANGED <<blk, peeks, shown, had, down, sessions>>

AskMem ==
    /\ hpc = "askmem"
    /\ Write(<<OP_MEM_RD>> \o Address(pc) \o Word16(PeekSize))
    /\ hpc' = "mem"
    /\ OnBoard
    /\ UNCHANGED <<blk, pc, peeks, shown, had, late, up, sessions>>

MemReply ==
    /\ hpc = "mem"
    /\ Reply(PeekSize)
    /\ late' = (late \/ Len(up) < PeekSize)
    /\ hpc' = "ready"
    /\ OnBoard
    /\ UNCHANGED <<blk, pc, peeks, shown, had, down, sessions>>

\* run, command r, and run_auto.
Run ==
    /\ hpc = "ready"
    /\ Write(<<OP_DBG_RUN>>)
    /\ hpc' = "collect"
    /\ OnBoard
    /\ UNCHANGED <<blk, pc, peeks, shown, had, late, up, sessions>>

\* A zero ends the controller, any other byte is printed.
OnRecv ==
    /\ hpc = "collect" /\ up # <<>>
    /\ up' = Tail(up)
    /\ IF Head(up) = 0
       THEN hpc' = "off" /\ UNCHANGED shown
       ELSE shown' = Append(shown, Head(up)) /\ UNCHANGED hpc
    /\ OnBoard
    /\ UNCHANGED <<blk, pc, peeks, had, late, down, sessions>>

\* What the kernel had not sent is sent or dropped before the port is free.
\* (The last controller of a run of the model is not killed.)
Kill ==
    /\ hpc # "off" /\ sessions < MaxSession
    /\ hpc' = "off"
    /\ \E n \in 0 .. Len(down) : down' = Front(down, n)
    /\ up' = <<>>
    /\ OnBoard
    /\ UNCHANGED <<blk, pc, peeks, shown, had, late, sessions>>

Controller ==
    \/ Junk \/ Echo \/ HelloReply
    \/ UploadRam \/ RamUploaded \/ Preface \/ UploadInput \/ InputUploaded
    \/ AskPc \/ PcReply \/ AskMem \/ MemReply
    \/ Run \/ OnRecv

Next ==
    \/ BoardCycle \/ Deliver \/ Return \/ ProgramStep
    \/ Controller
    \/ InitPort \/ Kill \/ Reset \/ Tool

Spec == Init /\ [][Next]_vars

\* The clock runs, the line moves bytes, the program computes, and a
\* controller goes on: it reads what is there and its time-outs pass.
Fairness ==
    /\ WF_vars(BoardCycle) /\ WF_vars(Deliver) /\ WF_vars(Return)
    /\ WF_vars(ProgramStep) /\ WF_vars(Controller)

FairSpec == Spec /\ Fairness
-----------------------------------------------------------------------------
(* Properties.                                                             *)

\* Type invariant.
TypeOK ==
    /\ HciTypeOK
    /\ hpc \in {"off", "junk", "sleep", "hello", "ram", "preface", "input",
                "ready", "pc", "askmem", "mem", "collect"}
    /\ blk \in Nat /\ pc \in 0 .. 255 /\ peeks \in 0 .. MaxPeek
    /\ down \in Seq(0 .. 255) /\ up \in Seq(0 .. 255)
    /\ ip \in 1 .. Len(Program) + 1
    /\ late \in BOOLEAN

\* Whatever state controllers killed before left the board and the line in,
\* on_init succeeds only if the two agree again: the state machine waits for
\* a command and nothing is on its way.
HelloSync ==
    [][hpc = "hello" /\ hpc' = "ram" =>
         /\ q_state = "DECODE"
         /\ down = <<>> /\ rx = <<>> /\ wr = <<>> /\ tx = <<>> /\ up' = <<>>]_vars

\* The CPU is started by a controller only on the program it was to upload,
\* with its input behind what was in the buffer, as far as there is room.
RunsImage ==
    [][q_state = "DECODE" /\ q_state' = "DISABLED" /\ hpc = "collect" =>
         /\ \A i \in 1 .. Len(RamData) : ram[i - 1] = RamData[i]
         /\ inbuf' = Front(had \o <<32, 32>> \o Input, InCap)]_vars

IsSubseq(s, t) ==
    \E at \in [DOMAIN s -> DOMAIN t] :
        /\ \A i \in DOMAIN s : s[i] = t[at[i]]
        /\ \A i, j \in DOMAIN s : i < j => at[i] < at[j]

\* What the controller prints is what the program printed, in order, less
\* what was dropped; it ends only after the program did.
OutputInOrder ==
    [][OnRecv /\ ~late =>
         /\ IsSubseq(shown', printed)
         /\ hpc' = "off" => ip > Len(Program)]_vars

\* The bytes of a MEM_RD reply never find the transmit buffer full.
MemReplyWhole == "mem" \notin lost

Awaits ==
    /\ hpc = "collect" /\ ~late
    /\ \/ ip <= Len(Program)
       \/ \E i \in 1 .. Len(up) : up[i] = 0

\* A controller that has started the program ends, if the last byte of the
\* program is still to come, was not dropped, and is not left in the transmit
\* buffer with empty raised over it.
HostFinishes ==
    Awaits ~> (hpc = "off" \/ "ret" \in lost \/ (ip > Len(Program) /\ flag = "empty"))
=============================================================================

# A verification project for the RV32I pipeline CPU

The repository holds a five-stage pipelined RV32I CPU in Verilog for an FPGA board, the
host interface it is loaded and driven through, a controller program for the host
computer, the serial library that program stands on, and test programs. This directory
holds TLA+ modules that model it, the TLC configurations that check them on small
instances, and theorems about them that TLAPS proves for every value of the constants.

Source paths are relative to the repository; `riscv/src/` is meant where a Verilog file
has no path, `serial/src/` where a file of the serial library has none. `PROJECT.json`
maps every definition to the lines it models.

## 1. The system

```
 host: controller.cpp + listener.h                       FPGA: riscv_top.v
   | serial.cc over unix.cc or win.cc                      |
   +------ UART line ------ uart_rx / uart_tx -- fifo -- hci.v --+-- (rdy low, RAM port)
                                                           | I/O window      |
                                                           +-- mux ----- ram.v / block_ram.v
                                                                 |
   cpu.v:  pc_reg - if + icache - IF/ID - id - ID/EX - ex - EX/MEM - mem - MEM/WB - regfile
                        \______ memory_control (one byte port) ______/
```

| Component | State | Operations | Interacts with | What is hard | What makes it correct |
|---|---|---|---|---|---|
| `memory_control.v`, `ram.v`, `block_ram.v` | byte counter `flag`, busy and enable bits for each client, read buffers; the RAM and its address register | one clocked block with six branches; the RAM answers one cycle later | answers the cache and the MEM stage; drives the RAM port | two clients on one byte port, transfers of up to five cycles that jumps cut short | the right bytes to the client that asked, once; stores complete; nobody starves |
| `pc_reg.v`, `if.v`, `icache.v` | program counter and its successor; 128 lines of valid bit, tag and word | advance, jump, stall; look-up, fill | asks memory_control, stalls the pipeline | a reply is filed under the current program counter, not the one asked for | every cached and delivered word is the program's |
| `mem.v`, `ex_mem.v`, `control.v` | the EX/MEM register | request, wait, widen; priority of stalls | asks memory_control, stalls everything | a two-cycle busy/enable handshake | one transfer for each load or store |
| `id.v`, `id_ex.v`, `if_id.v`, `mem_wb.v`, `regfile.v`, `cpu.v` | pipeline registers, register file | decode, forward, stall for a load, flush on a jump, write back | all stages | up to four instructions in flight that depend on each other; immediates scattered over the word | the pipeline is the sequential machine |
| `ex.v` | none | arithmetic, branches, addresses | ID/EX to EX/MEM | signed and unsigned, shifts | the RV32I results |
| `common/fifo/fifo.v` | array, two pointers, two flags | read, write, both, reset | inside the UART (receive 8, transmit 1024) and the host interface (input 1024) | both ports in one cycle at the boundary | first in, first out, nothing lost that was accepted |
| `common/uart/*` | shift registers, bit and oversampling counters, parity latch | receive, transmit a frame | line and buffers | sampling on a clock of its own, framing, a transmitter that is started by a flag | bytes arrive once, in order and whole |
| `hci.v` | packet state machine, counters, address, error code, input buffer, cycle counter | echo, read and write memory, input upload, query, break and run; the CPU's I/O registers | UART, RAM, CPU | program output and replies share one transmitter; lengths and data are taken byte by byte | one reply per request; memory as uploaded |
| `riscv_top.v` | reset synchroniser | hands the RAM to the host by pulling `rdy_in` low | all of the above | the hand-over in the middle of a store | one master at a time |
| `ctrl/controller.cpp`, `ctrl/listener.h` | images, run flag | initialise, upload, verify, run | the serial line | time-outs, lost bytes, a predecessor killed in the middle of a packet | program and input arrive, output is printed |
| `sys/io.h` | none | `inb`, `outb`, `inl`, `sleep` by busy waiting | the I/O window | reading when nothing is there | |
| `serial.cc`, `impl/unix.cc`, data path | read and write mutex, descriptor, time-outs | read, readline, readlines, write, flush, flushInput, flushOutput, setPort, close | the kernel's queues; the controller | threads that share one object, partial transfers, signals, deadlines in unsigned milliseconds, a device that goes away | a call gets a run of the stream of its own, and every call returns |
| `serial.cc`, `impl/unix.cc`, `impl/win.cc`, life of a port | configuration, descriptor, `is_open_`, byte time | constructor, open, the setters, setPort, modem lines, break, close, destructor | the kernel's settings of the line | any system call may fail; settings are made from the old ones | the line is as the getters report it; no descriptor is lost without an exception |
| `impl/list_ports/*` | none | one listing | the operating system | | |
| `sim/`, `test/`, `testcase/`, tests and examples of the library | test bench, stand-in CPU, programs | | | | inputs, not parts |

`PROJECT.json` lists the hazards, each at its line with the properties that cover it, or
the reason why none does.

## 2. Modules

| Module | Role |
|---|---|
| `MemoryControl` | memory_control.v and the block RAM: wires as operators, the six branches of the clocked block as six actions over `flag`, the busy bits and the buffers |
| `InstrFetch` | EXTENDS it with pc_reg.v, if.v, icache.v |
| `MemStage` | EXTENDS it with the part of EX/MEM a load or store needs, mem.v, control.v |
| `MemPort` | the memory system: the three above. The rest of the pipeline is arbitrary: at every edge ID may ask for a stall, EX may jump anywhere and hand any instruction to MEM. Resets at any edge, with the host writing to the RAM meanwhile |
| `MCMemPort`, `MemPortProofs` | small instances; theorems |
| `Cpu` | the whole pipeline as cpu.v wires it, EXTENDS `InstrFetch`, `MemStage`, `Alu` |
| `Isa`, `RvAlu` | the specification: the sequential RV32I machine and its arithmetic |
| `MCCpu`, `CpuProofs` | programs for TLC; theorems: types, the composition of `Cpu` with `MemPort`, and that `Cpu` implements `Isa` |
| `Decoder`, `RvFormats` | id.v's extraction of fields and immediates from a word, bit by bit; the formats of RV32I |
| `Alu`, `AluCheck`, `MCAlu`, `AluProofs` | ex.v's operations and branches; the comparison of them with `RvAlu` and of the decoder with `RvFormats`, as a run and as theorems |
| `Fifo`, `BoundedQueue`, `FifoProofs` | fifo.v, the queue it promises, theorems |
| `Uart`, `MCUart`, `UartProofs` | the transmitting half of one board (uart_tx.v, baud clock, transmit buffer as an INSTANCE of `Fifo`), the line, and the receiving half of another (uart_rx.v, baud clock). Each board has an oscillator: `TxEdge`, `RxEdge`. Small instance; theorems |
| `Hci` | hci.v: the packet state machine, the I/O window, the buffers around it |
| `Host`, `MCHost`, `HostProofs` | EXTENDS `Hci` with controller.cpp and listener.h, the line, and a program that does I/O; small instance; theorems |
| `SerialIo`, `MCSerialIo`, `SerialIoProofs` | the data path of the serial library: threads that share one Serial object; small instance; theorems |
| `SerialPort`, `MCSerialPort`, `SerialPortProofs` | the life of a Serial object over both implementations; small instance; theorems |

Correspondence. One step of `MemPort` and of `Cpu` is one rising edge of the clock, with
every clocked block of the component in it; combinational wires are operators over the
current state, and names follow the source. `ClockAbort`, `ClockReadFirst`,
`ClockReadNext`, `ClockReadLast`, `ClockWrite`, `ClockIdle` are the branches of
memory_control's `always` block at that edge; `Advance` (`ClientsTick` in `MemPort`) is
every other block. `rst = rst_in || !rdy_in` (cpu.v:32), so `Pause` in `Cpu` and `Reset`
and `HostWrite` in `MemPort` are edges with `rst` high. A `Fifo` step is one edge with
any combination of `rd_en`, `wr_en` and `reset`.

`Uart`: a step is one edge of one of the two oscillators; `TxIdle` to `TxStop` and `RxIdle`
to `RxStop` are the branches of the two state machines, `Ticks` the oversampling counters.
`ahead` counts how many cycles the transmitter's clock has gained since the receiver saw
the start bit.

`Hci` and `Host`: `BoardCycle` is one clock cycle of hci.v in the current `q_state`, with
the registered write of the cycle before entering the transmit buffer; `IoRead` and
`IoWrite` are the two halves of the I/O window. The controller's actions are the calls of
the source in its order: `InitPort`, `Junk`, `Echo`, `HelloReply` (init_port, on_init),
`UploadRam`, `RamUploaded`, `Preface`, `UploadInput`, `InputUploaded` (upload_ram,
upload_input), `AskPc`, `PcReply`, `AskMem`, `MemReply` (the command p), `Run`, `OnRecv`.
`Deliver` and `Return` move a byte over the line, `ProgramStep` is an access of the program
on the CPU, `Kill`, `Reset` and `Tool` are what a user may do.

`SerialIo`: a thread's `pc` is where it is in a call: waiting for a mutex, in the loop of
SerialImpl::read or write, in pselect, in the nap between bytes, about to return. `Begin`
starts a call; each system call is a step; `Interrupted` is a signal, `Arrive`, `Transmit`
and `Unplug` are the device, `Tick` is the clock. `SerialPort`: a call is one step, and an
operator gives the set of its ends, one for each system call that may fail in it, with the
fields and the kernel's tables it then leaves behind.

Abstractions.

- A byte is a member of a set in `MemPort` (what is in it never matters there), a number
  of `ByteBits` bits in `Cpu`, a sequence of bits in `Uart`, its number in the stream in
  `SerialIo`. A fetched word is opaque in `MemPort`; in `Cpu` the table `Decode` maps words
  to decoded instructions; that id.v takes the instruction out of the word as RV32I has
  it is shown separately, over all 32 bits, by `Decoder`. `func7` is the single bit RV32I
  uses in `Cpu`, and has its seven bits in `Decoder`.
- Addresses wrap at `MemSize`, the RAM's size. The I/O window above it is in `Host`, where
  a program is the sequence of its accesses to the window.
- The lines a component gets from the other side are free: the pipeline in `MemPort`, both
  users of a buffer in `Fifo`, the writer in `Uart`, the device in `SerialIo`.
- `Uart` has no noise: the line shows what the transmitter sends. The clocks may drift by
  `Skew` cycles between one start bit as the receiver sees it and the next. A reset of the
  board is the initial state.
- `Host`: a byte on the line takes hundreds of cycles, so one is delivered or sent off
  only when the board has done all it can (`Settled`), except for the one moment that matters, a
  byte sent in the cycle in which another is written (`SentAside`). For the same reason
  the flags of the receive buffer are exact. Time-outs of the controller may pass at any
  moment, except those that are longer than the line needs to fall silent (the 130 ms of
  on_init and the full seconds). One thing outlasts them: a MEM_RD reply of more than about
  11.8 KB, asked for by a tool or an earlier controller. `StillReplying` stands for it: the
  greeting may then be written while the reply is still being sent. `Junk` and the waits
  after an upload have no such case: the first ends with eight bytes anyway, and after an
  accepted greeting nothing long is on its way. `cpu_clks`, a counter the program may read, is left out,
  and so is verify_ram, which nothing calls.
- `SerialIo`: the object is opened before threads share it. A call of the library is a
  record of operation, size and inter-byte time-out. Deadlines are ticks that count down;
  the arithmetic in unsigned milliseconds is kept (`Word`).
- `SerialPort`: calls do not overlap (what overlaps is in `SerialIo`); levels of modem lines
  are left out; on Windows a transfer is one system call. tcsetattr, whose result unix.cc:444
  does not look at, may leave the line as it was or make any part of what it is asked for:
  the call returns all the same, and `made` says whether the line got everything.
- Time in `SerialPort` is in units of a `Second`-th of a second where the code has
  nanoseconds; that 1e9 / baudrate is cut off to a whole number is kept.

## 3. Runs

| Run | Shows | Instance |
|---|---|---|
| `mem_port` | `FetchCorrect`, `CacheCoherent`: delivered and cached words are the RAM's; `OwnerStable`, `NotAbandoned`: a transfer keeps its client, address and length and is cut only by a reset; `NoStrayWrite`: only bytes of the store in MEM change; `RepliesCorrect`, `ReplyOnce`: the reply reaches the instruction that asked, once, with the right bytes; `MemOpCompletes` under fairness; `IInv`: the inductive invariant of the proofs | 12 bytes: two program words that share a cache line, one data word; a word load, an overlapping misaligned halfword store, a byte load; host writes during resets |
| `fifo` | `FlagsSafe`: the flags protect the entries; `IsQueue`: fifo.v implements `BoundedQueue` | 4 entries, 3 values |
| `cpu` | `ImplementsIsa`: the pipeline is the sequential machine; `KeepsRetiring` under fairness | all 2744 programs of three instructions from a pool of fourteen |
| `alu` | `ExecuteCorrect`: results and branches are `RvAlu`'s, right shifts of negative values by sra and srai left out; `DecodeCorrect`: the word of an instruction decodes to that instruction | every pair of 4-bit operands; every opcode and function code with each immediate of one bit or of sign bits |
| `uart` | `FramesIntact`: bytes arrive in order, whole, once, without a parity error where both sides agree on the parity; `ReceivedUnlessHidden` under fairness | 2-bit bytes, bits of 8 cycles, buffer of 3, 3 bytes, no, odd and even parity, one cycle of drift |
| `host` | `HelloSync`: a connection is accepted only when both ends agree again; `RunsImage`: what is started is what was uploaded, with its input; `MemReplyWhole`; `OutputInOrder`: what is printed is what the program printed, in order; `HostFinishes` under fairness | buffers of 2, 3 and 3 bytes, 8 bytes of RAM, two blocks of program and of input, two controllers, one command p each, one packet of a debugging tool (one of them asks for a reply longer than what on_init throws away and the buffers hold), one reset; a program that reads, prints 72, 0 and 73, and ends |
| `serial_io` | `ReadsContiguous`, `WritesContiguous`: threads do not tear the streams; `ShortOnlyLate`, `WaitsWithinDeadline`: time-outs; `LinesRight`; `CallReturns` under fairness | two threads that call the nine operations between them, reads with the inter-byte time-out set and off, 3 bytes, the first two the end of a line, an output queue of one, a counter of three values |
| `serial_port` | `LineAsReported`: the settings of the line against the getters; `ByteTimeClose`: the time of a character against its bits; `HandleLostByThrow`, `OrphansByThrow`: only a call that throws loses a descriptor, and at most one | both systems, one port, two descriptors; a rate with a constant and one without, a second of 1000000 units so that the bit time of either is cut off or exact; lengths 7 and 4 (invalid), odd and space parity, one and one and a half stop bits |
| `cpu_zero`, `alu_sra`, `uart_hidden`, `serial_timeouts` | findings, section 5: TLC finds the property violated | two slots of the pool with a write to x0; as `alu`; as `uart`; as `serial_io` |

Each run but the findings and `alu` also has a type invariant. `host`, `serial_io` and `serial_port` have
about 950 thousand, 260 thousand and 1.5 million distinct states; the others fewer.

Why the bounds are enough.

- The byte port: the behaviour of memory_control depends on the
  counter, on which client asks and on whether the address changes. Two program words
  that conflict in the cache, all transfer lengths and two byte values tell
  right from wrong bytes in every position; the theorems remove the bounds.
- The pipeline: every hazard is between instructions at most three apart. Three free slots
  hold each triple of the pool, a fixed fourth instruction reads both registers the pool
  writes while the first is written back, and a jump closes the loop: from the second time
  round the cache hits and the pipeline is full. The pool has instructions of all
  nine classes, register dependences through either operand, loads of three widths with and
  without sign, stores that overlap the loads, and jumps forward and back. Bytes have two
  bits, hence registers eight: enough for carries, borrows and sign extension. Registers:
  four, of which one is x0.
- The FIFO: four entries let the pointers wrap with the buffer full, empty and in between;
  the theorems hold for any depth from three on.
- The decoder: a field is a selection of bits, so the images of single bits determine it,
  and copies of the sign show its extension; the theorem covers every word.
- The UART: the buffer of three entries is filled, emptied and used by both sides in one
  cycle. Two data bits are a first and a last; four ticks to a bit have a middle. With bits
  of eight cycles the tolerance is one cycle a frame in either direction: with `Skew = 2`
  TLC finds frames that break, and `Tolerable` of `UartProofs`, which gives the tolerance
  for every rate and divisor, is exact there. `MCByte` tells a bit from its neighbour and from its complement.
- The host: the buffers are smaller than any packet, so that each can be full inside a
  packet, a reply and a run of output; the two blocks need the address to move; two
  controllers are one that is killed anywhere and one that must cope with what it left. 8
  bytes of RAM are read and written in part. Resets and packets of the tool may come
  before the first controller and between the two. No program and no RAM of the run holds
  the greeting's first letter: what it takes then is the hypothesis of `HelloAgrees`.
  Blocks have two bytes and one; the theorems hold for any size up to 65535, 0x400 of
  listener.h:51 and 0x40 of listener.h:75 among them.
- The serial library: two threads are enough for a lost mutex, as no step depends on two
  others. Three bytes and a read of two leave a byte over; a delimiter of two bytes is cut by
  a line that begins at its second; a queue of one splits every write
  of two; a counter with three values wraps within a call. Two descriptors are one that is
  left behind and one in use.

What the instruction pool leaves out on purpose: an instruction whose destination is x0
followed by a reader of x0 (finding `cpu_zero`), jalr to an odd address, and arithmetic
right shifts of negative values (finding `alu_sra`). With one of them in the pool `ImplementsIsa`
fails at once. Programs do not write into themselves: there is no FENCE.I, and the cache
does not see stores (`InstrsAssumption` in `MemPort`).

Fairness.

- `WF_vars(Clock)` in `MemPort!FairSpec` and `Cpu!RunSpec`: the oscillator keeps
  ticking. No more is assumed. In `MemPort` the pipeline's inputs are unconstrained; in
  particular the fetch side may jump for ever and MEM is served all the same.
- `Uart!FairSpec`: both oscillators keep ticking.
- `Host!FairSpec`: weak fairness of the board's clock, of the line in both directions, of
  the program and of the controller, which never waits without a time-out except for
  output of the program. Nothing is assumed of the user's actions.
- `SerialIo!FairSpec`: time passes (`Tick`), the line sends what is queued (`Transmit`),
  and every thread is scheduled (`Step`): weak fairness. Strong fairness of taking a mutex:
  a mutex that comes free again and again is given to a waiting thread some time. POSIX
  does not promise this of pthread_mutex_lock; without it a thread that reads in a loop may
  keep another from reading for ever, and `CallReturns` would say something of the scheduler
  instead of the library.

Deadlock is checked in every run.

## 4. What is proved

The proofs assume nothing that TLC does not evaluate in the runs: the `ASSUME`s are named
and sit in the modules that declare the constants.

`MemPortProofs`, for every memory size, cache size, program area, instruction set and
host behaviour that satisfies the named assumptions of `MemPort`:

- `Invariance`: `Spec => []IInv`. `IInv` strengthens the properties by who owns the byte
  port (`PortOwned`: a busy bit is set exactly while the other client is being served or
  has just been answered), by the fact that a client whose transfer is under way is
  still asking with the same address (`FetchHeld`, `MemOpHeld`: this is where stalls and
  jumps matter, because icache.v files the reply under the current program counter), and
  by how much of the answer is already there (`TransferProgress`: after `flag` cycles the
  RAM's address register shows byte `flag - 1` and the buffer holds those before it).
  None of the checked invariants is inductive without these. One lemma per action.
- `TypeCorrect`, `FetchIsCorrect`, `CacheIsCoherent`, `RepliesAreCorrect` follow from it;
  `OwnerIsStable`, `NeverAbandoned`, `NoWriteStrays`, `RepliedOnce` are the action
  properties, each from `IInv` and one case per action.

`AluProofs`, for every width of a value and every width of the shift amount:

- `ExecutesRight`: each operation and each branch of ex.v is what RV32I defines, on every
  pair of operands, but for sra and srai of a negative value, which are not (`alu_sra`).
  `RvAlu` defines logic on sets of bit positions and comparison on
  two's-complement integers; ex.v's operators are folds over bits, or arithmetic on the
  unsigned value. The lemmas relate the two: a number below a power of two is the sum of
  its bits, and a sum of distinct powers below it determines them. They go by induction on
  the width, in the form the provers can take: a set of counterexamples that is not empty
  has a least one (`LeastElement`), and the least one is none.
- `DecodesRight` and `DecoderIsRight`: the fields and the immediate id.v takes from the
  word of an instruction are those of the instruction, for every instruction RV32I can
  encode. One lemma per format shows that a bit of the immediate is found where the format
  put it and that the bits above the sign repeat it.

`CpuProofs`, for every program, memory, cache, word size, number of registers and table of
instructions:

- `CpuTypeCorrect`: results, operands and registers have `XLEN` bits, addresses are those of
  the RAM, in every program. That the results of ex.v keep their width is a lemma about
  each of its operators.
- `CpuImplementsPort`: the pipeline is one of the environments `MemPort` allows.
  `MemPort` is instantiated with the stall of id.v, the jump of ex.v and the request in
  ID/EX as the inputs of a cycle; initial states map to initial states, an edge to an
  edge (one case per branch of memory_control) and a pause to a reset. The invariant it
  needs is `WidthsDefined`: a load or store in EX has a width of RV32I.
- `CpuFetchesRight` and `CpuServesLoadsAndStores`: what `MemPortProofs` shows for any
  environment holds of the CPU, by its theorems instantiated. `CodeAddr` is any set of
  words that the program's stores leave alone (`StoresStayOut`); with the empty set that
  is no hypothesis, and loads and stores are served right in every program, also in one
  that writes into itself.
- `CpuImplementsIsa`: `RunSpec => ImplementsIsa`, under the mapping that completes the
  stores and the register writes in flight behind EX and takes the program counter of the
  oldest instruction not yet executed. `CpuRestartsIsa`: the same with `rdy_in` low at any
  edge, where a pause takes back what is in flight behind EX and starts at address 0. That
  is what the code does; cpu.v:19-22 asks for a freeze (section 5).
  The inductive invariant `PInv` follows an instruction from the RAM to EX: the word in
  IF/ID is the RAM's at its address (`FetchRight`, from the theorems of the port); the
  stages hold successive addresses, up to bubbles, so that what is fetched next is the
  successor of what is in EX (`InOrder`); what is in ID/EX is the decoded instruction with
  the operands the sequential machine would read now (`DecodedRight`: this is where the
  forwarding network and the load-use stall are needed). An edge then maps to a step of
  `Isa` exactly when an instruction leaves EX, and to a stutter otherwise.
- The two theorems are about programs that keep to the rules in `Obeys`, each of which the
  code needs. Words that are executed are instructions of the table, and control stays
  in `CodeAddr` (`CodeDefined`, `StaysInCode`): id.v makes a bubble of any other word.
  Stores stay out of `CodeAddr`: the cache never hears of them. Targets of jalr are even
  (`EvenTargets`, ex.v:63) and sra and srai take no negative value (`NoNegativeSra`,
  ex.v:133, 168). A reader of x0 reads zero (`ZeroReadsZero`, id.v:222). All but the last
  are about the program. For the last, `ZeroIsKept` shows that it holds of every
  program in which only jumps have destination x0 (`OnlyJumpsDiscard`), although the
  forwarding network does not look whether a destination is x0. The rules are kept by
  every program of the pool's addi, sub, lb, sb and beq, for instance; the run `cpu` has
  programs that break the second too, and then shows that nothing goes wrong until `Isa`
  has nothing more to say.
- `PowerAssumption` (what `2^n` is for a number n) is there because the provers have no
  theory of exponentiation.

`FifoProofs`, for every depth of at least three and every set of values:

- `TypeCorrect` and `FlagsAreSafe`: pointers that meet mean an empty or a full buffer,
  never both; the flags are at most one entry behind.
- `FifoIsAQueue`: `Spec => IsQueue`. fifo.v implements `BoundedQueue` under the mapping
  that reads the entries from the read pointer to the write pointer: initial states map
  to initial states, every edge to a queue step or a stutter.

`UartProofs`, for every frame (bits, stop bits, parity), rate, divisor, buffer and set of
bytes:

- `UartTypeCorrect`: in each state of the two state machines the counter of ticks and that
  of bits stay below what that state counts to (`Counters`: a bit, half a bit, the stop
  bits, the length of a byte), which their widths alone do not give, however far the
  clocks drift apart.
- `FramesAreIntact`: `ASSUME Tolerable PROVE Spec => []FramesIntact`. `Tolerable` is the
  drift the timing of uart_rx.v stands from one start bit to the next, in clock cycles:
  `Skew <= H` and `3 * Skew + H + 2 * Div <= B + 2` where a bit is `B = Rate * Div` and
  the half bit the receiver waits is `H = ((Rate - 1) / 2) * Div`. The start bit is
  noticed up to a tick and the drift late, sampling is on the receiver's ticks, and the
  parity bit and the stop bit must still be hit at the end of the frame. With the
  16 ticks and the 54 cycles of the source that is 126 cycles a frame, over a hundredth of
  its length.
- The invariant `Line` measures each side by the cycle of its own clock that it has reached in
  the frame (`TPos`, `RPos`). `Locked`: the two differ by no more than `ahead` and what the
  start bit was seen late by, which every edge of either board keeps. `Approach`: an
  idle receiver sees the start bit before it is over. `LineRight`: each bit is on the line
  for its time, one cycle behind the state machine, and the line rests after the frame.
  `SampleRight` and `RxByte`: what is taken at the end of a bit's time is that bit.
  `FrameCount` and `Buffer`: both sides are in the same frame, which is that of the byte at
  the front of the buffer; here the theorems of `FifoProofs` are used, for the buffer
  as an INSTANCE. Without `Locked` none of them is inductive: that a bit is sampled right is a
  fact about the distance of two clocks since the start bit.

`HostProofs`, for buffers, programs, inputs, packets of the tool and sequences of
controllers of any size:

- `HostTypeCorrect`: the counters of hci.v do not pass zero: a state of a packet
  that counts is never entered with a count that is used up (`Counting`), which the
  type invariant alone does not say. As for the two theorems below, a block or a reply may
  have any size that the two bytes of a length can say.
- `MemRepliesWhole`: the reply to a memory read looks at `tx_full`, which lags, before a byte
  reaches the buffer. `MemRoom` says why that is enough: it writes in every other cycle
  only, and no other writer is there during a packet.
- `HelloAgrees`: `Spec /\ []OnlyEchoesU => HelloSync`. A controller that goes on to upload
  has a board that waits for a command, with nothing left in any buffer or on the line.
  `GreetingInv` says what may be left while on_init waits: the greeting is on its way in
  pieces that add up to the packet, or its answer is, or something spoilt it and the letter
  asked for will not come. The hypothesis is what on_init takes for granted:
  replies are not numbered, so that a program that prints the first letter of the greeting,
  or an older command that reads it from the RAM, would be taken for the echo.

`SerialIoProofs`, for any number of threads and calls, any stream and any time-outs:

- `Invariance`: `Spec => []IInv`. `IInv` adds to the type invariant who holds a mutex
  (`LocksHeld`: a thread is inside SerialImpl::read or write only while the mutex is its
  own), that the progress of a thread belongs to the call it is in (`CallFits`) and that
  what a call has read so far is a run of the stream that ends where the kernel's queue
  begins, while it is under way on an open port (`RunOfStream`). Without the last part the
  next byte taken need not continue the run.
- `TypeCorrect`, `ReadsAreContiguous` and `WritesAreContiguous` follow.
- `CallsAreSound`: `Spec => []CallsSound`, what every thread knows of its own call: how much
  of its deadline each wait was given, what it had read before the innermost read, where
  the lines found so far end. It needs `IInv`, because what a thread knows is about bytes
  no other thread may take. `ShortReadsAreLate`, `LinesAreRight` and
  `WaitsAreWithinDeadline` follow, the last with the two exceptions its property names: the
  first wait of a write, and the sleep of waitByteTimes (unix.cc:572), which the theorem
  bounds by the time of the missing bytes and by a second. They hold for any width of the unsigned in which deadlines
  are computed, also where it wraps, and the millisecond by which a short read may be early is the
  rounding of unix.cc.

`SerialPortProofs`, for any ports, rates, lengths, time-outs and number of descriptors, on
either system:

- `Invariance`: `Spec => []IInv`: an open object has a port and on a Unix system no line has
  the half stop bit of Windows (`Starts`), an object that was destroyed is not open, and after
  a call that configured the port, if tcsetattr made all of it, the line agrees with the
  fields (`Agrees`). The lemmas go call by call: from an
  object and a device that fit, every end of the call fits (`EndFits`), and the ends that
  return have set what they were asked to (`EndSets`).
- `TypeCorrect`, `LineAgreesWithReport`, `ByteTimeIsClose`, and the action properties
  `HandleIsLostByThrow` and `OrphansAreLeftByThrow`.

Only model-checked: liveness (`MemOpCompletes`, `KeepsRetiring`, `ReceivedUnlessHidden`,
`HostFinishes`, `CallReturns`), which the prover cannot express with fairness, and of
`Host` what is uploaded and printed, `RunsImage` and `OutputInOrder`: their invariant has to
follow a whole session, byte by byte, through four buffers at a time.

## 5. Findings

| Run | Code | What it says |
|---|---|---|
| `cpu_zero` | id.v:222 | the first operand is forwarded from an instruction whose destination is x0: the next instruction reads the discarded result from x0 |
| `alu_sra` | ex.v:133, 168 | sra and srai of a negative value shift zeros in: `>>` is the logical shift of Verilog also behind `$signed`; RV32I copies the sign |
| `serial_timeouts` | unix.cc:562 | the inter-byte time-out cuts a wait short but does not end the read, which serial.h:242-247 and 444-445 say it does |
| `uart_hidden` | common/fifo/fifo.v:95, common/uart/uart.v:111 | a byte written in the cycle that pops the one before it leaves `empty` raised over it: the transmitter does not send it until another byte is written |

Seen while modelling, in the model as the code has it, without a run of its own:

- defines.vh:87: the cache has 128 lines of a word, and the address bits that choose one
  reach 128 of the 512 bytes README.md:11 names.
- cpu.v:32: `rdy_in` low resets the CPU; cpu.v:22 says "Pause cpu(freeze pc, registers, etc.)
  when rdy_in is low". The code contradicts its comment: after a pause the program starts at
  address 0 again and up to two register writes and part of a store are lost. `RestartsIsa`
  states what the reset does, `CpuRestartsIsa` proves it, and no run takes it for the
  promise.
- fifo.v:95, 101: a read and a write in one cycle at the boundary raise empty over an entry
  or full over a free place (`FlagsSafe` allows exactly one).
- ex.v:63: jalr keeps the low bit of its target.
- uart_tx.v:115: the parity bit of even parity is the complement of the lowest bit of the
  byte. hci.v:183 chooses odd parity, so no byte of this system is affected; `ParityClean`
  excepts the mode.
- unix.cc:371: a mark or space parity bit is never cleared, so that odd and even parity set
  later are sent as mark and space; one and a half stop bits are sent as two. Two
  of the three exceptions of `LineAsReported`; the third is unix.cc:444, where the result of
  tcsetattr is not looked at.
- unix.cc:447, 528: waitByteTimes is to wait for "a period of time corresponding to the
  transmission time" (serial.h:229). The bit time is cut off to whole nanoseconds before it is
  multiplied, so that at 115200 baud a character of ten bits gets 86800 ns for 86805.5; even,
  mark and space parity add the value of the enumeration instead of one bit; a wait of a
  second or more goes into tv_nsec alone, which pselect refuses, so that it does not wait at all.
  `ByteTimeClose` gives the bounds within which the first two stay; `SecondTicks` of `SerialIo`
  is the third.
- unix.cc:634: the first wait of a write at or after its deadline is one of up to 2^32 ms
  (an exception of
  `WaitsWithinDeadline`). unix.cc:572: the sleep for the bytes a read lacks is not cut by the time that
  is left (the other).
- hci.v:204: a read of the empty input buffer gives the byte that was there last. hci.v:235:
  an access to the I/O window is served on the rising edge of its enable, so that a
  halfword or word access, which memory_control makes a byte a cycle, is served once. The
  accesses of `Host` are bytes, as those of io.h are.
- io.h:30: `inl` counts the minus sign as a digit, of value -3: it reads "-5" as 25.
- controller.cpp:71, 20: the image is read without a test of its length, and the count
  that `write` returns is not looked at. controller.cpp:23: a reply that comes after its
  time-out is taken for the next reply or printed as output (`late` in `Host`).
- `HostFinishes` holds with the exceptions its definition names: the last byte of the
  program dropped by a full buffer, or hidden as in `uart_hidden`.

## 6. Not modelled

- Port listing (`impl/list_ports/*`): one pass over a directory or registry of the
  operating system that keeps no state and that the controller does not call.
- Exception classes and the overloads of read and write that copy between buffers of
  different types: they add no state.
- Opening a port while other threads use the object: the library takes no mutex in open, and
  its interface leaves that to the caller.
- The transfer on Windows as more than one system call: win.cc does not loop.
- Number and text conversion and the busy waiting of io.h: computations of the program
  on the CPU; its accesses to the I/O window are the steps of the program in `Host`.
- `cpu_clks`, verify_ram: see the abstractions.
- Noise on the line: uart_rx.v hands over a byte after a wrong start, stop or parity bit, so
  that any sequence of bytes can follow. What bytes lost on the way to the board, or left over from
  an earlier controller, do is in `Host`.
- Programs that write into themselves, and func3 values that RV32I does not define for
  loads and stores (memory_control then never ends the transfer).
- The muxes of riscv_top.v as wires: in `Host`, `Cpu` and `MemPort` they are the choice
  between the actions of either side, so that two drivers of the RAM port is not a state
  of the model. That a break in the middle of a store leaves a torn word is in `MemPort`
  and `Cpu` (a reset at any edge).
- The test bench, the stand-in CPU, the test programs and scripts, the board's constraint
  file, the tests and examples of the library: inputs and callers, not parts.

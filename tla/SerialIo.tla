------------------------------ MODULE SerialIo ------------------------------
(***************************************************************************)
(* The data path of the serial library: threads that share one Serial     *)
(* object call read, readline, readlines, write, flush, flushInput,       *)
(* flushOutput, setPort and close (serial.cc over impl/unix.cc).          *)
(*                                                                         *)
(* The bytes that arrive are numbered: the kernel holds those numbered    *)
(* taken + 1 .. seen.  Time is counted in ticks, Res of them to a         *)
(* millisecond; every running call carries what is left to its deadline   *)
(* and to the end of the wait it is in, and Tick lowers both.             *)
(***************************************************************************)
EXTENDS Integers, Sequences

CONSTANTS
    Thread,     \* the threads that use the object
    NoThread,   \* holds a mutex that is free
    NoCall,     \* what an idle thread is in
    Calls,      \* the calls each makes: op, size and the inter-byte time-out then set
    MaxRx,      \* bound: bytes that ever arrive
    TxRoom,     \* bytes the kernel's output queue takes
    Stream,     \* the value of each byte that arrives
    Eol,        \* the delimiter of readline and readlines
    Constant,   \* read_ and write_timeout_constant
    Multiplier, \* read_ and write_timeout_multiplier
    Res,        \* ticks of the clock in a millisecond
    Word,       \* number of values of an uint32_t
    ByteTicks,  \* byte_time_ns_: transmission time of a character
    SecondTicks \* what tv_nsec must stay below

ReadOps == {"read", "readline", "readlines", "flushInput"}
WriteOps == {"write", "flushOutput"}
BothOps == {"flush", "setPort"}
Ops == ReadOps \cup WriteOps \cup BothOps \cup {"close"}

ASSUME ThreadAssumption == NoThread \notin Thread
Call == [op : Ops, size : Nat \ {0}, interval : 0 .. Word - 1]

ASSUME CallAssumption == Calls \in [Thread -> SUBSET Call]
ASSUME ClockAssumption ==
    /\ Res \in Nat \ {0} /\ Word \in Nat \ {0}
    /\ Constant \in Nat /\ Multiplier \in Nat
    /\ ByteTicks \in Nat /\ SecondTicks \in Nat
ASSUME StreamAssumption ==
    /\ MaxRx \in Nat /\ TxRoom \in Nat \ {0}
    /\ Len(Eol) \in Nat \ {0}

VARIABLES
    readOwner, writeOwner, \* who holds read_mutex, write_mutex
    isOpen,                \* is_open_, and fd_ # -1
    gone,                  \* the device was unplugged
    seen, taken,           \* last byte that arrived, last one that left the input queue
    queued,                \* bytes in the output queue
    sent,                  \* what the kernel accepted from the write under way
    pc, call,              \* where each thread is, and in which call
    buf,                   \* the bytes its call has read, by number
    got,                   \* bytes_read or bytes_written of the innermost loop
    cuts,                  \* readlines: where its lines end
    first,                 \* write: first_iteration
    left,                  \* ticks to the deadline of the innermost loop
    nap,                   \* ticks to the end of the wait under way
    res                    \* how the call ended

lockVars == <<readOwner, writeOwner>>
portVars == <<isOpen, gone>>
inVars == <<seen, taken>>
outVars == <<queued, sent>>
threadVars == <<pc, call, buf, got, cuts, first, left, nap, res>>
vars == <<lockVars, portVars, inVars, outVars, threadVars>>

PCs == {"idle", "rlock", "wlock", "enter", "loop", "select", "blind", "nap",
        "wenter", "wloop", "wselect", "wblind", "act", "return"}

Min2(a, b) == IF a <= b THEN a ELSE b
-----------------------------------------------------------------------------
(* Time.                                                                   *)

U32(x) == x % Word

\* Mutant: a millisecond that has begun counts as whole.
MutRemaining(ticks) == ticks \div Res + 1

\* MillisecondTimer::remaining: whole milliseconds, cut towards zero.
Remaining(ticks) ==
    IF ticks >= 0 THEN ticks \div Res ELSE -((-ticks) \div Res)

\* The total time-out of a call, handed to MillisecondTimer as a uint32_t.
TotalTicks(n) == Res * U32(Constant + Multiplier * n)

\* timespec_from_ms: the wait for a number of milliseconds.
WaitTicks(ms) == Res * U32(ms)

\* waitByteTimes puts it all in tv_nsec; pselect refuses a second or more.
ByteWait(n) == IF ByteTicks * n < SecondTicks THEN ByteTicks * n ELSE 0

\* Timeout::max() turns the inter-byte time-out off.
NoInterval(t) == call[t].interval = Word - 1
-----------------------------------------------------------------------------
(* Helpers.                                                                *)

\* The size the innermost read asks for: read_ takes one byte at a time.
Want(t) == IF call[t].op = "read" THEN call[t].size ELSE 1

\* Mutant: the queue is read one byte too far.
MutNextBytes(n) == [i \in 1 .. n |-> taken + i + 1]

\* Numbers of the next n bytes of the input queue.
NextBytes(n) == [i \in 1 .. n |-> taken + i]

\* The n bytes read end like the delimiter, as far as there are any.
EndsLikeEol(b, n) ==
    /\ n >= 1
    /\ \A k \in 1 .. Len(Eol) :
          n - Len(Eol) + k >= 1 => Stream[b[n - Len(Eol) + k]] = Eol[k]

EolAt(b, n) == n >= Len(Eol) /\ EndsLikeEol(b, n)

\* The comparison after a byte.  With fewer bytes than the delimiter has, the
\* code compares bytes in front of the buffer too, which hold anything.
MayBeEol(b) ==
    {x \in BOOLEAN : /\ x => EndsLikeEol(b, Len(b))
                     /\ EolAt(b, Len(b)) => x}

Goto(t, l) == pc' = [pc EXCEPT ![t] = l]

Finish(t, r) == Goto(t, "return") /\ res' = [res EXCEPT ![t] = r]
-----------------------------------------------------------------------------
Init ==
    /\ readOwner = NoThread /\ writeOwner = NoThread
    /\ isOpen = TRUE /\ gone = FALSE
    /\ seen = 0 /\ taken = 0
    /\ queued = 0 /\ sent = <<>>
    /\ pc = [t \in Thread |-> "idle"]
    /\ call = [t \in Thread |-> NoCall]
    /\ buf = [t \in Thread |-> <<>>]
    /\ got = [t \in Thread |-> 0]
    /\ cuts = [t \in Thread |-> <<>>]
    /\ first = [t \in Thread |-> FALSE]
    /\ left = [t \in Thread |-> 0]
    /\ nap = [t \in Thread |-> 0]
    /\ res = [t \in Thread |-> "ok"]

\* A thread makes a call.
Begin(t, c) ==
    /\ pc[t] = "idle"
    /\ call' = [call EXCEPT ![t] = c]
    /\ Goto(t, CASE c.op \in ReadOps \cup BothOps -> "rlock"
                 [] c.op \in WriteOps -> "wlock"
                 [] OTHER -> "act")
    /\ UNCHANGED <<lockVars, portVars, inVars, outVars, buf, got, cuts, first,
                   left, nap, res>>

\* Mutant: the read functions take no lock.
MutReadLock(t) ==
    /\ pc[t] = "rlock"
    /\ readOwner' = t
    /\ Goto(t, CASE call[t].op \in BothOps -> "wlock"
                 [] call[t].op = "flushInput" -> "act"
                 [] OTHER -> "enter")
    /\ UNCHANGED <<writeOwner, portVars, inVars, outVars, call, buf, got, cuts,
                   first, left, nap, res>>

\* ScopedReadLock; flush and setPort go on to the other mutex.
ReadLock(t) ==
    /\ pc[t] = "rlock" /\ readOwner = NoThread
    /\ readOwner' = t
    /\ Goto(t, CASE call[t].op \in BothOps -> "wlock"
                 [] call[t].op = "flushInput" -> "act"
                 [] OTHER -> "enter")
    /\ UNCHANGED <<writeOwner, portVars, inVars, outVars, call, buf, got, cuts,
                   first, left, nap, res>>

WriteLock(t) ==
    /\ pc[t] = "wlock" /\ writeOwner = NoThread
    /\ writeOwner' = t
    /\ Goto(t, IF call[t].op = "write" THEN "wenter" ELSE "act")
    /\ UNCHANGED <<readOwner, portVars, inVars, outVars, call, buf, got, cuts,
                   first, left, nap, res>>

\* The scoped locks are released however the call ends.
Return(t) ==
    /\ pc[t] = "return"
    /\ readOwner' = IF readOwner = t THEN NoThread ELSE readOwner
    /\ writeOwner' = IF writeOwner = t THEN NoThread ELSE writeOwner
    /\ Goto(t, "idle")
    /\ call' = [call EXCEPT ![t] = NoCall]
    /\ buf' = [buf EXCEPT ![t] = <<>>]
    /\ cuts' = [cuts EXCEPT ![t] = <<>>]
    /\ got' = [got EXCEPT ![t] = 0]
    /\ first' = [first EXCEPT ![t] = FALSE]
    /\ left' = [left EXCEPT ![t] = 0]
    /\ res' = [res EXCEPT ![t] = "ok"]
    /\ sent' = IF call[t].op = "write" THEN <<>> ELSE sent
    /\ UNCHANGED <<portVars, inVars, queued, nap>>
-----------------------------------------------------------------------------
(* read.                                                                   *)

\* The port is open: the timer starts and ::read takes what is there.
ReadEnter(t) ==
    /\ pc[t] = "enter"
    /\ IF ~isOpen
       THEN /\ Finish(t, "throw")
            /\ UNCHANGED <<taken, buf, got, left>>
       ELSE LET n == IF gone THEN 0 ELSE Min2(Want(t), seen - taken)
            IN  /\ left' = [left EXCEPT ![t] = TotalTicks(Want(t))]
                /\ taken' = taken + n
                /\ buf' = [buf EXCEPT ![t] = @ \o NextBytes(n)]
                /\ got' = [got EXCEPT ![t] = n]
                /\ Goto(t, "loop")
                /\ UNCHANGED res
    /\ UNCHANGED <<lockVars, portVars, seen, outVars, call, cuts, first, nap>>

\* The next wait lasts for what is left or for the inter-byte time-out.  Once
\* close has set fd_ to -1 pselect watches no descriptor: "blind".
ReadWait(t) ==
    /\ pc[t] = "loop" /\ got[t] < Want(t) /\ Remaining(left[t]) > 0
    /\ nap' = [nap EXCEPT ![t] =
                 Min2(WaitTicks(Remaining(left[t])), WaitTicks(call[t].interval))]
    /\ Goto(t, IF isOpen THEN "select" ELSE "blind")
    /\ UNCHANGED <<lockVars, portVars, inVars, outVars, call, buf, got, cuts,
                   first, left, res>>

\* A descriptor closed under pselect may wake it or not.
Readable == isOpen /\ (seen > taken \/ gone)

\* Mutant: an interrupted or empty wait ends the read.
MutBackToLoop(t) ==
    /\ Finish(t, "ok")
    /\ nap' = [nap EXCEPT ![t] = 0]
    /\ UNCHANGED <<lockVars, portVars, inVars, outVars, call, buf, got, cuts,
                   first, left>>

\* A signal, or the end of the wait with nothing to read: back to the loop.
BackToLoop(t) ==
    /\ Goto(t, "loop")
    /\ nap' = [nap EXCEPT ![t] = 0]
    /\ UNCHANGED <<lockVars, portVars, inVars, outVars, call, buf, got, cuts,
                   first, left, res>>

SelectInterrupted(t) == pc[t] \in {"select", "blind"} /\ BackToLoop(t)

SelectTimedOut(t) ==
    /\ nap[t] = 0
    /\ (pc[t] = "select" /\ ~Readable) \/ pc[t] = "blind"
    /\ BackToLoop(t)

\* A read of several bytes gives the rest of them time to arrive.
Available == IF isOpen THEN seen - taken ELSE 0

Patient(t) == Want(t) > 1 /\ NoInterval(t) /\ Available + got[t] < Want(t)

SelectPatient(t) ==
    /\ pc[t] = "select" /\ (Readable \/ ~isOpen) /\ ~gone /\ Patient(t)
    /\ nap' = [nap EXCEPT ![t] =
                 ByteWait(Want(t) - (Available + got[t]))]
    /\ Goto(t, "nap")
    /\ UNCHANGED <<lockVars, portVars, inVars, outVars, call, buf, got, cuts,
                   first, left, res>>

\* ::read after the wait; readiness without data means a lost device.
Take(t) ==
    /\ \/ pc[t] = "select" /\ (Readable \/ ~isOpen) /\ (~Patient(t) \/ gone)
       \/ pc[t] = "nap" /\ nap[t] = 0
    /\ LET n == IF gone \/ ~isOpen THEN 0 ELSE Min2(Want(t) - got[t], seen - taken)
       IN  IF n < 1
           THEN /\ Finish(t, "throw")
                /\ UNCHANGED <<taken, buf, got>>
           ELSE /\ taken' = taken + n
                /\ buf' = [buf EXCEPT ![t] = @ \o NextBytes(n)]
                /\ got' = [got EXCEPT ![t] = @ + n]
                /\ Goto(t, "loop")
                /\ UNCHANGED res
    /\ nap' = [nap EXCEPT ![t] = 0]
    /\ UNCHANGED <<lockVars, portVars, seen, outVars, call, cuts, first, left>>

\* Mutant: only the bytes end a read.
MutReadOver(t) == pc[t] = "loop" /\ got[t] >= Want(t)

\* The innermost read is over: it has its bytes or no time.
ReadOver(t) ==
    /\ pc[t] = "loop"
    /\ got[t] >= Want(t) \/ Remaining(left[t]) <= 0

ReadEnd(t) ==
    /\ ReadOver(t) /\ call[t].op = "read"
    /\ Finish(t, "ok")
    /\ UNCHANGED <<lockVars, portVars, inVars, outVars, call, buf, got, cuts,
                   first, left, nap>>

\* readline after each byte: time-out, delimiter, full, or one more.
LineEnd(t) ==
    /\ ReadOver(t) /\ call[t].op = "readline"
    /\ \/ /\ got[t] = 0
          /\ Finish(t, "ok")
       \/ /\ got[t] = 1
          /\ \E e \in MayBeEol(buf[t]) :
                IF e \/ Len(buf[t]) = call[t].size
                THEN Finish(t, "ok")
                ELSE Goto(t, "enter") /\ UNCHANGED res
    /\ UNCHANGED <<lockVars, portVars, inVars, outVars, call, buf, got, cuts,
                   first, left, nap>>

\* readlines: a line at each delimiter, and what is left over at the end.
LastCut(c) == IF c = <<>> THEN 0 ELSE c[Len(c)]

\* Mutant: what is left over at the end is forgotten.
MutCut(c, n) == c

Cut(c, n) == IF LastCut(c) = n THEN c ELSE Append(c, n)

LinesEnd(t) ==
    /\ ReadOver(t) /\ call[t].op = "readlines"
    /\ LET n == Len(buf[t])
       IN  \/ /\ got[t] = 0
              /\ cuts' = [cuts EXCEPT ![t] = Cut(@, n)]
              /\ Finish(t, "ok")
           \/ /\ got[t] = 1
              /\ \E e \in MayBeEol(buf[t]) :
                    IF n = call[t].size
                    THEN /\ cuts' = [cuts EXCEPT ![t] = Cut(@, n)]
                         /\ Finish(t, "ok")
                    ELSE /\ cuts' = [cuts EXCEPT ![t] = IF e THEN Append(@, n) ELSE @]
                         /\ Goto(t, "enter")
                         /\ UNCHANGED res
    /\ UNCHANGED <<lockVars, portVars, inVars, outVars, call, buf, got,
                   first, left, nap>>
-----------------------------------------------------------------------------
(* write.                                                                  *)

WriteEnter(t) ==
    /\ pc[t] = "wenter"
    /\ IF ~isOpen
       THEN /\ Finish(t, "throw")
            /\ UNCHANGED <<got, first, left, sent>>
       ELSE /\ got' = [got EXCEPT ![t] = 0]
            /\ first' = [first EXCEPT ![t] = TRUE]
            /\ left' = [left EXCEPT ![t] = TotalTicks(call[t].size)]
            /\ sent' = <<>>
            /\ Goto(t, "wloop")
            /\ UNCHANGED res
    /\ UNCHANGED <<lockVars, portVars, inVars, queued, call, buf, cuts, nap>>

WriteOver(t) ==
    got[t] >= call[t].size \/ (~first[t] /\ Remaining(left[t]) <= 0)

\* The remaining time is not looked at the first time, only converted: a
\* deadline already passed becomes a wait of nearly Word milliseconds.
WriteLoop(t) ==
    /\ pc[t] = "wloop"
    /\ IF WriteOver(t)
       THEN /\ Finish(t, "ok")
            /\ UNCHANGED <<first, nap>>
       ELSE /\ first' = [first EXCEPT ![t] = FALSE]
            /\ nap' = [nap EXCEPT ![t] = WaitTicks(Remaining(left[t]))]
            /\ Goto(t, IF isOpen THEN "wselect" ELSE "wblind")
            /\ UNCHANGED res
    /\ UNCHANGED <<lockVars, portVars, inVars, outVars, call, buf, got, cuts, left>>

WriteInterrupted(t) ==
    /\ pc[t] \in {"wselect", "wblind"}
    /\ Goto(t, "wloop")
    /\ nap' = [nap EXCEPT ![t] = 0]
    /\ UNCHANGED <<lockVars, portVars, inVars, outVars, call, buf, got, cuts,
                   first, left, res>>

WriteTimedOut(t) ==
    /\ nap[t] = 0
    /\ (pc[t] = "wselect" /\ (queued >= TxRoom \/ ~isOpen) /\ ~gone) \/ pc[t] = "wblind"
    /\ Finish(t, "ok")
    /\ nap' = [nap EXCEPT ![t] = 0]
    /\ UNCHANGED <<lockVars, portVars, inVars, outVars, call, buf, got, cuts,
                   first, left>>

\* Mutant: each ::write starts at the front of the data.
MutDataBytes(t, i, n) == [k \in 1 .. n |-> <<t, k>>]

\* The bytes of the data from position i on, as the kernel takes n of them.
DataBytes(t, i, n) == [k \in 1 .. n |-> <<t, i + k>>]

Put(t) ==
    /\ pc[t] = "wselect"
    /\ queued < TxRoom \/ gone \/ ~isOpen
    /\ IF gone \/ ~isOpen
       THEN /\ Finish(t, "throw")
            /\ UNCHANGED <<outVars, got>>
       ELSE \E n \in 1 .. Min2(call[t].size - got[t], TxRoom - queued) :
                /\ queued' = queued + n
                /\ sent' = sent \o DataBytes(t, got[t], n)
                /\ got' = [got EXCEPT ![t] = @ + n]
                /\ Goto(t, "wloop")
                /\ UNCHANGED res
    /\ nap' = [nap EXCEPT ![t] = 0]
    /\ UNCHANGED <<lockVars, portVars, inVars, call, buf, cuts, first, left>>
-----------------------------------------------------------------------------
(* The calls without a loop.                                               *)

\* flushInput: tcflush(TCIFLUSH).
FlushInput(t) ==
    /\ pc[t] = "act" /\ call[t].op = "flushInput"
    /\ taken' = IF isOpen THEN seen ELSE taken
    /\ Finish(t, IF isOpen THEN "ok" ELSE "throw")
    /\ UNCHANGED <<lockVars, portVars, seen, outVars, call, buf, got, cuts, first,
                   left, nap>>

\* flushOutput: tcflush(TCOFLUSH).
FlushOutput(t) ==
    /\ pc[t] = "act" /\ call[t].op = "flushOutput"
    /\ queued' = IF isOpen THEN 0 ELSE queued
    /\ Finish(t, IF isOpen THEN "ok" ELSE "throw")
    /\ UNCHANGED <<lockVars, portVars, inVars, sent, call, buf, got, cuts, first,
                   left, nap>>

\* flush: tcdrain waits for the output queue, with both mutexes held.
Flush(t) ==
    /\ pc[t] = "act" /\ call[t].op = "flush"
    /\ isOpen => (queued = 0 \/ gone)
    /\ Finish(t, IF isOpen THEN "ok" ELSE "throw")
    /\ UNCHANGED <<lockVars, portVars, inVars, outVars, call, buf, got, cuts, first,
                   left, nap>>

\* setPort: an open port is closed and opened again; the open may fail.
SetPort(t) ==
    /\ pc[t] = "act" /\ call[t].op = "setPort"
    /\ IF isOpen
       THEN /\ taken' = seen /\ queued' = 0
            /\ gone' = FALSE
            /\ \/ isOpen' = TRUE /\ Finish(t, "ok")
               \/ isOpen' = FALSE /\ Finish(t, "throw")
       ELSE /\ Finish(t, "ok")
            /\ UNCHANGED <<taken, queued, isOpen, gone>>
    /\ UNCHANGED <<lockVars, seen, sent, call, buf, got, cuts, first,
                   left, nap>>

\* close takes no lock.  The kernel drops what its queues hold.
Close(t) ==
    /\ pc[t] = "act" /\ call[t].op = "close"
    /\ isOpen' = FALSE /\ gone' = FALSE
    /\ taken' = seen /\ queued' = 0
    /\ Finish(t, "ok")
    /\ UNCHANGED <<lockVars, seen, sent, call, buf, got, cuts, first,
                   left, nap>>
-----------------------------------------------------------------------------
(* The device and the clock.                                               *)

Arrive ==
    /\ seen < MaxRx /\ isOpen /\ ~gone
    /\ seen' = seen + 1
    /\ UNCHANGED <<lockVars, portVars, taken, outVars, threadVars>>

Transmit ==
    /\ queued > 0
    /\ queued' = queued - 1
    /\ UNCHANGED <<lockVars, portVars, inVars, sent, threadVars>>

Unplug ==
    /\ isOpen /\ ~gone
    /\ gone' = TRUE
    /\ UNCHANGED <<lockVars, isOpen, inVars, outVars, threadVars>>

\* A deadline passed by a millisecond stays there: later is the same.
Lower(x) == IF x > -Res THEN x - 1 ELSE x

Timed == {"loop", "select", "blind", "nap", "wloop", "wselect", "wblind"}

Tick ==
    /\ \E t \in Thread : pc[t] \in Timed
    /\ left' = [t \in Thread |-> IF pc[t] \in Timed THEN Lower(left[t]) ELSE left[t]]
    /\ nap' = [t \in Thread |-> IF nap[t] > 0 THEN nap[t] - 1 ELSE 0]
    /\ UNCHANGED <<lockVars, portVars, inVars, outVars, pc, call, buf, got, cuts,
                   first, res>>
-----------------------------------------------------------------------------
\* What a thread does on its own, once it has its locks.
Step(t) ==
    \/ Return(t)
    \/ ReadEnter(t) \/ ReadWait(t) \/ SelectTimedOut(t) \/ SelectPatient(t) \/ Take(t)
    \/ ReadEnd(t) \/ LineEnd(t) \/ LinesEnd(t)
    \/ WriteEnter(t) \/ WriteLoop(t) \/ WriteTimedOut(t) \/ Put(t)
    \/ FlushInput(t) \/ FlushOutput(t) \/ Flush(t) \/ SetPort(t) \/ Close(t)

Interrupted(t) == SelectInterrupted(t) \/ WriteInterrupted(t)

Next ==
    \/ \E t \in Thread :
          \/ \E c \in Calls[t] : Begin(t, c)
          \/ ReadLock(t) \/ WriteLock(t) \/ Step(t) \/ Interrupted(t)
    \/ Arrive \/ Transmit \/ Unplug \/ Tick

Spec == Init /\ [][Next]_vars

\* Threads run, time passes, the line sends what is queued, and a thread that
\* waits for a mutex that comes free again and again gets it.
Fairness ==
    /\ WF_vars(Tick) /\ WF_vars(Transmit)
    /\ \A t \in Thread :
          WF_vars(Step(t)) /\ SF_vars(ReadLock(t) \/ WriteLock(t))

FairSpec == Spec /\ Fairness
-----------------------------------------------------------------------------
(* Properties.                                                             *)

\* Type invariant.
TypeOK ==
    /\ readOwner \in Thread \cup {NoThread} /\ writeOwner \in Thread \cup {NoThread}
    /\ isOpen \in BOOLEAN /\ gone \in BOOLEAN
    /\ seen \in 0 .. MaxRx /\ taken \in 0 .. seen
    /\ queued \in 0 .. TxRoom /\ sent \in Seq(Thread \X (Nat \ {0}))
    /\ pc \in [Thread -> PCs] /\ call \in [Thread -> Call \cup {NoCall}]
    /\ buf \in [Thread -> Seq(1 .. MaxRx)]
    /\ got \in [Thread -> Nat] /\ cuts \in [Thread -> Seq(Nat)]
    /\ first \in [Thread -> BOOLEAN]
    /\ left \in [Thread -> Int] /\ nap \in [Thread -> Nat]
    /\ res \in [Thread -> {"ok", "throw"}]

\* What one call of read, readline or readlines hands over is a run of the
\* stream without a gap, and no byte is handed to two calls: concurrent
\* readers never tear the stream between them.
ReadsContiguous ==
    /\ \A t \in Thread : \A i \in 1 .. Len(buf[t]) - 1 : buf[t][i + 1] = buf[t][i] + 1
    /\ \A t, u \in Thread : t # u =>
          \A i \in 1 .. Len(buf[t]), j \in 1 .. Len(buf[u]) : buf[t][i] # buf[u][j]

Writing(t) ==
    \/ pc[t] \in {"wloop", "wselect", "wblind"}
    \/ pc[t] = "return" /\ call[t].op = "write" /\ res[t] = "ok"

\* The bytes of a write reach the line next to each other, in order and
\* once, and the count write returns is how many of them did.
WritesContiguous == \A t \in Thread : Writing(t) => sent = DataBytes(t, 0, got[t])

ReturnsOk(t, op) == pc[t] = "return" /\ call[t].op = op /\ res[t] = "ok"

ShortIsLate(t) ==
    ReturnsOk(t, "read") /\ Len(buf[t]) < call[t].size => left[t] < Res

\* A read that returns fewer bytes than asked for has waited until less than
\* a millisecond of its total time-out was left, whatever signals came and
\* whatever the inter-byte time-out is: unix.cc:562 only cuts a wait short
\* with it (see ReadEndsInTime).
ShortOnlyLate == \A t \in Thread : ShortIsLate(t)

NoEolBefore(b, n) == \A i \in 1 .. n : ~EolAt(b, i)

LineEnds(t) ==
    ReturnsOk(t, "readline") =>
        LET b == buf[t] IN
        /\ Len(b) <= call[t].size
        /\ NoEolBefore(b, Len(b) - 1)
        /\ \/ EndsLikeEol(b, Len(b)) \/ Len(b) = call[t].size
           \/ got[t] = 0 /\ left[t] < Res

LinesWhole(t) ==
    ReturnsOk(t, "readlines") =>
        LET b == buf[t]
            c == cuts[t]
        IN  /\ LastCut(c) = Len(b)
            /\ \A i \in 1 .. Len(c) - 1 :
                  c[i] < c[i + 1] /\ EndsLikeEol(b, c[i])

\* readline ends at the first delimiter, at the size given, or when a byte
\* did not come in time.  readlines loses nothing: its lines, put together,
\* are the bytes it read, and every line but the last ends in the delimiter
\* (serial.cc).  Where fewer bytes were read than the delimiter has, they may
\* end the line only if they are the end of the delimiter: what is in front
\* of the buffer supplies the rest (serial.cc:192, 231).
LinesRight == \A t \in Thread : LineEnds(t) /\ LinesWhole(t)

\* The first wait of a write whose deadline passed before it began.
LateWrite(t) == pc[t] \in {"wselect", "wblind"} /\ got[t] = 0 /\ left[t] < 0

\* The sleep for the bytes a read of several lacks.
ByteSleep(t) ==
    /\ pc[t] = "nap" /\ NoInterval(t) /\ Want(t) > 1
    /\ nap[t] <= ByteTicks * (Want(t) - got[t]) /\ nap[t] < SecondTicks

WaitEndsInTime(t) ==
    /\ pc[t] \in {"select", "blind", "nap", "wselect", "wblind"}
    /\ nap[t] > 0 /\ nap[t] > left[t]
    => LateWrite(t) \/ ByteSleep(t)

\* No wait is set to last beyond the deadline of its call, but for two: the
\* first wait of a write (timeout_remaining_ms may be negative there and is
\* converted to an unsigned), and the sleep of waitByteTimes, which no
\* deadline cuts (unix.cc:572).  That one ends late by the time of the bytes
\* that lack at most, and by less than a second.
WaitsWithinDeadline == \A t \in Thread : WaitEndsInTime(t)

\* The wait for the next byte of a read has lasted for the inter-byte
\* time-out since the last one came, or longer, and none has come.
InterByteExpired(t) ==
    /\ pc[t] = "select" /\ call[t].op = "read" /\ got[t] > 0
    /\ ~NoInterval(t) /\ nap[t] = 0 /\ ~Readable

\* What serial.h:242-252 says of read: it is over when one of the two
\* time-outs expires, here the one between bytes.
ReadEndsInTime ==
    [][\A t \in Thread :
          InterByteExpired(t) /\ pc'[t] = "loop" => ReadOver(t)']_vars

\* Every call returns, also those that wait for a mutex: no two of them wait
\* for each other, and signals, lost devices and close end no loop too late.
CallReturns == \A t \in Thread : pc[t] # "idle" ~> pc[t] = "idle"
=============================================================================

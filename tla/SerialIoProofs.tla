--------------------------- MODULE SerialIoProofs ---------------------------
(***************************************************************************)
(* The locks of the serial library, for any number of threads and calls:   *)
(* readers do not tear the stream of bytes and writers do not mix theirs.  *)
(* Then what each call does on its own: its waits, its time-out and its    *)
(* lines.                                                                  *)
(***************************************************************************)
EXTENDS SerialIo, SequenceTheorems, TLAPS

Reading == {"read", "readline", "readlines"}
InRead == {"enter", "loop", "select", "blind", "nap"}
InWrite == {"wenter", "wloop", "wselect", "wblind"}

\* A thread is only where its call can take it.
CallFits(t) ==
    /\ pc[t] # "idle" => call[t] \in Call
    /\ pc[t] = "rlock" => call[t].op \in ReadOps \cup BothOps
    /\ pc[t] = "wlock" => call[t].op \in WriteOps \cup BothOps
    /\ pc[t] \in InRead => call[t].op \in Reading
    /\ pc[t] \in InWrite => call[t].op = "write"
    /\ pc[t] = "act" => call[t].op \notin Reading \cup {"write"}

\* Who is past a lock, up to the return that releases it.
HoldsRead(t) ==
    \/ pc[t] \in InRead
    \/ pc[t] = "wlock" /\ call[t].op \in BothOps
    \/ pc[t] \in {"act", "return"} /\ call[t].op \in ReadOps \cup BothOps

HoldsWrite(t) ==
    \/ pc[t] \in InWrite
    \/ pc[t] \in {"act", "return"} /\ call[t].op \in WriteOps \cup BothOps

\* The mutexes exclude.
LocksHeld ==
    \A t \in Thread : /\ HoldsRead(t) => readOwner = t
                      /\ HoldsWrite(t) => writeOwner = t

\* What a call has read is a run of the stream, and while the port stays open
\* the run ends where the input queue begins.
RunOfStream(t) ==
    buf[t] # <<>> =>
        /\ HoldsRead(t) /\ call[t].op \in Reading
        /\ \A i \in 1 .. Len(buf[t]) - 1 : buf[t][i + 1] = buf[t][i] + 1
        /\ isOpen /\ pc[t] # "return" => buf[t][Len(buf[t])] = taken

IInv ==
    /\ TypeOK
    /\ LocksHeld
    /\ \A t \in Thread : CallFits(t)
    /\ \A t \in Thread : RunOfStream(t)
    /\ WritesContiguous

-----------------------------------------------------------------------------
\* Division and remainder of the timer's numbers.
LEMMA Division ==
    ASSUME NEW a \in Int, NEW b \in Nat \ {0}
    PROVE  a \div b \in Int /\ a % b \in Nat
  OBVIOUS

\* Products of the timer's numbers.
LEMMA Product == \A a, b \in Nat : a * b \in Nat
  OBVIOUS

\* What the timer computes are whole numbers.
LEMMA Times ==
    /\ \A x \in Int : Remaining(x) \in Int
    /\ \A x \in Int : WaitTicks(x) \in Nat
    /\ \A n \in Nat : TotalTicks(n) \in Nat
    /\ \A n \in Nat : ByteWait(n) \in Nat
    /\ \A x \in Int : Lower(x) \in Int
  <1>1. \A x \in Int : U32(x) \in Nat
    BY ClockAssumption, Division DEF U32
  <1>2. \A x \in Int : Remaining(x) \in Int
    BY ClockAssumption, Division DEF Remaining
  <1>3. \A x \in Int : WaitTicks(x) \in Nat
    BY <1>1, Product, ClockAssumption DEF WaitTicks
  <1>4. \A n \in Nat : Constant + Multiplier * n \in Int
    BY Product, ClockAssumption
  <1>5. \A n \in Nat : TotalTicks(n) \in Nat
    BY <1>1, <1>4, Product, ClockAssumption DEF TotalTicks
  <1>6. \A n \in Nat : ByteWait(n) \in Nat
    BY Product, ClockAssumption DEF ByteWait
  <1>7. \A x \in Int : Lower(x) \in Int
    BY ClockAssumption DEF Lower
  <1> QED
    BY <1>2, <1>3, <1>5, <1>6, <1>7

\* The next bytes of the queue are numbers of bytes that arrived.
LEMMA NextBytesDef ==
    ASSUME TypeOK, NEW n \in Nat, n <= seen - taken
    PROVE  /\ NextBytes(n) \in Seq(1 .. MaxRx)
           /\ Len(NextBytes(n)) = n
           /\ \A i \in 1 .. n : NextBytes(n)[i] = taken + i
  BY StreamAssumption DEF NextBytes, TypeOK

\* A piece of the data of a write goes on where the one before it ended.
LEMMA DataBytesDef ==
    ASSUME NEW t \in Thread, NEW i \in Nat, NEW n \in Nat
    PROVE  /\ DataBytes(t, i, n) \in Seq(Thread \X (Nat \ {0}))
           /\ Len(DataBytes(t, i, n)) = n
           /\ DataBytes(t, 0, i) \o DataBytes(t, i, n) = DataBytes(t, 0, i + n)
           /\ DataBytes(t, i, 0) = <<>>
  BY DEF DataBytes

\* The next bytes of the queue continue the run that a call has read.
LEMMA RunContinues ==
    ASSUME TypeOK, NEW t \in Thread, NEW n \in Nat, n <= seen - taken,
           RunOfStream(t), isOpen, pc[t] # "return"
    PROVE  LET b == buf[t] \o NextBytes(n)
           IN  /\ b \in Seq(1 .. MaxRx)
               /\ \A i \in 1 .. Len(b) - 1 : b[i + 1] = b[i] + 1
               /\ b # <<>> => b[Len(b)] = taken + n
  <1> DEFINE b == buf[t] \o NextBytes(n)
  <1> HIDE DEF b
  <1>1. PICK a \in Seq(1 .. MaxRx) : a = buf[t]
    BY DEF TypeOK
  <1>2. PICK d \in Seq(1 .. MaxRx) : d = NextBytes(n)
    BY NextBytesDef
  <1>3. Len(d) = n /\ \A i \in 1 .. n : d[i] = taken + i
    BY <1>2, NextBytesDef
  <1>4. taken \in Int
    BY StreamAssumption DEF TypeOK
  <1>5. /\ \A i \in 1 .. Len(a) - 1 : a[i + 1] = a[i] + 1
        /\ Len(a) > 0 => a[Len(a)] = taken
    BY <1>1 DEF RunOfStream
  <1>6. b = a \o d /\ b \in Seq(1 .. MaxRx) /\ Len(b) = Len(a) + n
    <2>1. b = a \o d
      BY <1>1, <1>2 DEF b
    <2>2. a \o d \in Seq(1 .. MaxRx) /\ Len(a \o d) = Len(a) + Len(d)
      BY ConcatProperties, Zenon
    <2> QED
      BY <2>1, <2>2, <1>3
  <1>7. \A i \in 1 .. Len(b) : b[i] = IF i <= Len(a) THEN a[i] ELSE d[i - Len(a)]
    BY <1>3, <1>6
  <1>8. \A i \in 1 .. Len(a) : a[i] \in Int
    BY StreamAssumption
  <1>9. ASSUME NEW i \in 1 .. Len(b) - 1
        PROVE  b[i + 1] = b[i] + 1
    <2>1. CASE i < Len(a)
      BY <2>1, <1>5, <1>6, <1>7
    <2>2. CASE i = Len(a)
      BY <2>2, <1>3, <1>4, <1>5, <1>6, <1>7
    <2>3. CASE i > Len(a)
      BY <2>3, <1>3, <1>4, <1>6, <1>7
    <2> QED
      BY <2>1, <2>2, <2>3, <1>6
  <1>10. b # <<>> => b[Len(b)] = taken + n
    <2>1. CASE n = 0
      <3>1. b # <<>> => Len(b) > 0
        BY <1>6, EmptySeq, LenProperties
      <3>2. Len(b) = Len(a)
        BY <2>1, <1>6
      <3> QED
        BY <2>1, <3>1, <3>2, <1>4, <1>5, <1>7
    <2>2. CASE n > 0
      BY <2>2, <1>3, <1>4, <1>6, <1>7
    <2> QED
      BY <2>1, <2>2
  <1> QED
    BY <1>6, <1>9, <1>10 DEF b

\* The empty sequence.
LEMMA EmptySequence == \A S : <<>> \in Seq(S)
  OBVIOUS

\* The invariant holds at the start.
LEMMA InitInv == Init => IInv
  <1> SUFFICES ASSUME Init PROVE IInv
    OBVIOUS
  <1>1. TypeOK
    <2>1. /\ buf \in [Thread -> Seq(1 .. MaxRx)] /\ cuts \in [Thread -> Seq(Nat)]
          /\ sent \in Seq(Thread \X (Nat \ {0}))
      BY EmptySequence DEF Init
    <2>2. /\ seen \in 0 .. MaxRx /\ taken \in 0 .. seen /\ queued \in 0 .. TxRoom
      BY StreamAssumption DEF Init
    <2>3. first \in [Thread -> BOOLEAN]
      BY Zenon DEF Init
    <2>4. isOpen \in BOOLEAN /\ gone \in BOOLEAN
      BY DEF Init
    <2>5. /\ pc \in [Thread -> PCs] /\ call \in [Thread -> Call \cup {NoCall}]
      BY DEF Init, PCs
    <2>6. got \in [Thread -> Nat] /\ left \in [Thread -> Int] /\ nap \in [Thread -> Nat]
      BY DEF Init
    <2>7. res \in [Thread -> {"ok", "throw"}]
      BY DEF Init
    <2>8. readOwner \in Thread \cup {NoThread} /\ writeOwner \in Thread \cup {NoThread}
      BY DEF Init
    <2> QED
      BY <2>1, <2>2, <2>3, <2>4, <2>5, <2>6, <2>7, <2>8 DEF TypeOK
  <1>2. ASSUME NEW t \in Thread
        PROVE  pc[t] = "idle" /\ buf[t] = <<>>
    BY DEF Init
  <1>3. LocksHeld
    BY <1>2 DEF LocksHeld, HoldsRead, HoldsWrite, InRead, InWrite
  <1>4. WritesContiguous
    BY <1>2 DEF WritesContiguous, Writing
  <1>5. \A t \in Thread : CallFits(t) /\ RunOfStream(t)
    BY <1>2 DEF CallFits, RunOfStream, InRead, InWrite
  <1> QED
    BY <1>1, <1>3, <1>4, <1>5 DEF IInv
-----------------------------------------------------------------------------
(* Every action keeps the invariant.                                       *)

\* A call begins in a place that its operation allows.
LEMMA BeginInv ==
    ASSUME IInv, NEW t \in Thread, NEW c \in Calls[t], Begin(t, c)
    PROVE  IInv'
  <1> USE DEF Begin, Goto, lockVars, portVars, inVars, outVars
  <1>0. /\ c \in Call
        /\ \/ c.op \in ReadOps \cup BothOps /\ pc' = [pc EXCEPT ![t] = "rlock"]
           \/ c.op \in WriteOps /\ pc' = [pc EXCEPT ![t] = "wlock"]
           \/ c.op = "close" /\ pc' = [pc EXCEPT ![t] = "act"]
    <2>1. c \in Call
      BY CallAssumption
    <2>2. c.op \in Ops
      BY <2>1 DEF Call
    <2>3. /\ c.op \in ReadOps \cup BothOps => c.op \notin WriteOps
          /\ c.op \in ReadOps \cup BothOps \cup WriteOps \/ c.op = "close"
      BY <2>2 DEF Ops, ReadOps, WriteOps, BothOps
    <2> QED
      BY <2>1, <2>3
  <1>1. TypeOK'
    BY <1>0, StreamAssumption DEF IInv, TypeOK, PCs, CallFits, InRead, InWrite, Call
  <1>2. \A u \in Thread : CallFits(u)'
    BY <1>0 DEF IInv, TypeOK, CallFits, InRead, InWrite, Reading, ReadOps,
       WriteOps, BothOps, Call, Ops
  <1>3. LocksHeld'
    <2> SUFFICES ASSUME NEW u \in Thread
                 PROVE  (HoldsRead(u) => readOwner = u)' /\ (HoldsWrite(u) => writeOwner = u)'
      BY DEF LocksHeld
    <2>1. CASE u # t
      BY <2>1, <1>0, ThreadAssumption DEF IInv, LocksHeld, HoldsRead, HoldsWrite, TypeOK
    <2>2. CASE u = t
      BY <2>2, <1>0, ThreadAssumption DEF IInv, LocksHeld, HoldsRead, HoldsWrite, TypeOK,
         ReadOps, WriteOps, BothOps, InRead, InWrite
    <2> QED
      BY <2>1, <2>2
  <1>4. \A u \in Thread : RunOfStream(u)'
    <2> SUFFICES ASSUME NEW u \in Thread PROVE RunOfStream(u)'
      OBVIOUS
    <2>1. CASE u # t
      BY <2>1, <1>0 DEF IInv, RunOfStream, HoldsRead, LocksHeld, TypeOK
    <2>2. CASE u = t
      BY <2>2, <1>0 DEF IInv, RunOfStream, HoldsRead, LocksHeld, TypeOK,
         CallFits, InRead, InWrite, Reading, ReadOps, WriteOps, BothOps, Call, Ops
    <2> QED
      BY <2>1, <2>2
  <1>5. WritesContiguous'
    BY <1>0 DEF IInv, TypeOK, WritesContiguous, Writing, LocksHeld, HoldsWrite,
       CallFits, InRead, InWrite, Reading, ReadOps, WriteOps, BothOps, Call, Ops
  <1> QED
    BY <1>1, <1>2, <1>3, <1>4, <1>5 DEF IInv

\* The read mutex was free: no other thread was inside.
LEMMA ReadLockInv ==
    ASSUME IInv, NEW t \in Thread, ReadLock(t)
    PROVE  IInv'
  <1> USE DEF ReadLock, Goto, lockVars, portVars, inVars, outVars
  <1>1. TypeOK'
    BY StreamAssumption DEF IInv, TypeOK, PCs, CallFits, InRead, InWrite, Call
  <1>2. \A u \in Thread : CallFits(u)'
    BY DEF IInv, TypeOK, CallFits, InRead, InWrite, Reading, ReadOps,
       WriteOps, BothOps, Call, Ops
  <1>3. LocksHeld'
    <2> SUFFICES ASSUME NEW u \in Thread
                 PROVE  (HoldsRead(u) => readOwner = u)' /\ (HoldsWrite(u) => writeOwner = u)'
      BY DEF LocksHeld
    <2>1. CASE u # t
      BY <2>1, ThreadAssumption DEF IInv, LocksHeld, HoldsRead, HoldsWrite, TypeOK
    <2>2. CASE u = t
      BY <2>2, ThreadAssumption DEF IInv, LocksHeld, HoldsRead, HoldsWrite, TypeOK,
         CallFits, InRead, InWrite, Reading, ReadOps, WriteOps, BothOps, Call, Ops
    <2> QED
      BY <2>1, <2>2
  <1>4. \A u \in Thread : RunOfStream(u)'
    <2> SUFFICES ASSUME NEW u \in Thread PROVE RunOfStream(u)'
      OBVIOUS
    <2>1. CASE u # t
      BY <2>1 DEF IInv, RunOfStream, HoldsRead, LocksHeld, TypeOK
    <2>2. CASE u = t
      BY <2>2 DEF IInv, RunOfStream, HoldsRead, LocksHeld, TypeOK,
         CallFits, InRead, InWrite, Reading, ReadOps, WriteOps, BothOps, Call, Ops
    <2> QED
      BY <2>1, <2>2
  <1>5. WritesContiguous'
    BY DEF IInv, TypeOK, WritesContiguous, Writing, LocksHeld, HoldsWrite,
       CallFits, InRead, InWrite, Reading, ReadOps, WriteOps, BothOps, Call, Ops
  <1> QED
    BY <1>1, <1>2, <1>3, <1>4, <1>5 DEF IInv

\* The write mutex was free: no other thread was inside.
LEMMA WriteLockInv ==
    ASSUME IInv, NEW t \in Thread, WriteLock(t)
    PROVE  IInv'
  <1> USE DEF WriteLock, Goto, lockVars, portVars, inVars, outVars
  <1>1. TypeOK'
    BY StreamAssumption DEF IInv, TypeOK, PCs, CallFits, InRead, InWrite, Call
  <1>2. \A u \in Thread : CallFits(u)'
    BY DEF IInv, TypeOK, CallFits, InRead, InWrite, Reading, ReadOps,
       WriteOps, BothOps, Call, Ops
  <1>3. LocksHeld'
    <2> SUFFICES ASSUME NEW u \in Thread
                 PROVE  (HoldsRead(u) => readOwner = u)' /\ (HoldsWrite(u) => writeOwner = u)'
      BY DEF LocksHeld
    <2>1. CASE u # t
      BY <2>1, ThreadAssumption DEF IInv, LocksHeld, HoldsRead, HoldsWrite, TypeOK
    <2>2. CASE u = t
      BY <2>2, ThreadAssumption DEF IInv, LocksHeld, HoldsRead, HoldsWrite, TypeOK,
         CallFits, InRead, InWrite, Reading, ReadOps, WriteOps, BothOps, Call, Ops
    <2> QED
      BY <2>1, <2>2
  <1>4. \A u \in Thread : RunOfStream(u)'
    <2> SUFFICES ASSUME NEW u \in Thread PROVE RunOfStream(u)'
      OBVIOUS
    <2>1. CASE u # t
      BY <2>1 DEF IInv, RunOfStream, HoldsRead, LocksHeld, TypeOK
    <2>2. CASE u = t
      BY <2>2 DEF IInv, RunOfStream, HoldsRead, LocksHeld, TypeOK,
         CallFits, InRead, InWrite, Reading, ReadOps, WriteOps, BothOps, Call, Ops
    <2> QED
      BY <2>1, <2>2
  <1>5. WritesContiguous'
    BY DEF IInv, TypeOK, WritesContiguous, Writing, LocksHeld, HoldsWrite,
       CallFits, InRead, InWrite, Reading, ReadOps, WriteOps, BothOps, Call, Ops
  <1> QED
    BY <1>1, <1>2, <1>3, <1>4, <1>5 DEF IInv

\* A thread that returns leaves both mutexes and its buffer.
LEMMA ReturnInv ==
    ASSUME IInv, NEW t \in Thread, Return(t)
    PROVE  IInv'
  <1> USE DEF Return, Goto, lockVars, portVars, inVars, outVars
  <1>1. TypeOK'
    <2>1. /\ seen' \in 0 .. MaxRx /\ taken' \in 0 .. seen'
      BY StreamAssumption DEF IInv, TypeOK
    <2>2. queued' \in 0 .. TxRoom
      BY StreamAssumption DEF IInv, TypeOK
    <2>3. sent' \in Seq(Thread \X (Nat \ {0}))
      BY EmptySequence DEF IInv, TypeOK
    <2>4. isOpen' \in BOOLEAN /\ gone' \in BOOLEAN
      BY DEF IInv, TypeOK
    <2>5. first' \in [Thread -> BOOLEAN]
      BY Zenon DEF IInv, TypeOK
    <2>6. pc' \in [Thread -> PCs] /\ call' \in [Thread -> Call \cup {NoCall}]
      BY DEF IInv, TypeOK, PCs
    <2>7. buf' \in [Thread -> Seq(1 .. MaxRx)]
      BY EmptySequence DEF IInv, TypeOK
    <2>8. cuts' \in [Thread -> Seq(Nat)]
      BY EmptySequence DEF IInv, TypeOK
    <2>9. got' \in [Thread -> Nat]
      BY DEF IInv, TypeOK
    <2>10. left' \in [Thread -> Int]
      BY DEF IInv, TypeOK
    <2>11. nap' \in [Thread -> Nat]
      BY DEF IInv, TypeOK
    <2>12. res' \in [Thread -> {"ok", "throw"}]
      BY DEF IInv, TypeOK
    <2>13. readOwner' \in Thread \cup {NoThread} /\ writeOwner' \in Thread \cup {NoThread}
      BY DEF IInv, TypeOK
    <2> QED
      BY <2>1, <2>2, <2>3, <2>4, <2>5, <2>6, <2>7, <2>8, <2>9, <2>10, <2>11, <2>12, <2>13 DEF TypeOK
  <1>2. \A u \in Thread : CallFits(u)'
    BY DEF IInv, TypeOK, CallFits, InRead, InWrite, Reading, ReadOps,
       WriteOps, BothOps, Call, Ops
  <1>3. LocksHeld'
    BY ThreadAssumption DEF IInv, TypeOK, LocksHeld, HoldsRead, HoldsWrite,
       CallFits, InRead, InWrite, Reading, ReadOps, WriteOps, BothOps, Call, Ops
  <1>4. \A u \in Thread : RunOfStream(u)'
    BY DEF IInv, TypeOK, RunOfStream, HoldsRead, LocksHeld, CallFits,
       InRead, InWrite, Reading, ReadOps, WriteOps, BothOps, Call, Ops
  <1>5. WritesContiguous'
    BY DEF IInv, TypeOK, WritesContiguous, Writing, LocksHeld, HoldsWrite,
       CallFits, InRead, InWrite, Reading, ReadOps, WriteOps, BothOps, Call, Ops
  <1> QED
    BY <1>1, <1>2, <1>3, <1>4, <1>5 DEF IInv

\* A thread goes on inside its call, and nothing but its place, its timers,
\* its lines and its result change.
LEMMA GoesOn ==
    ASSUME IInv, NEW t \in Thread, NEW l,
           pc' = [pc EXCEPT ![t] = l],
           \/ pc[t] \in InRead /\ l \in InRead \cup {"return"}
           \/ pc[t] \in InWrite \ {"wenter"} /\ l \in (InWrite \ {"wenter"}) \cup {"return"}
           \/ pc[t] = "wenter" /\ l = "return" /\ res'[t] = "throw"
           \/ pc[t] = "act" /\ l = "return",
           cuts' \in [Thread -> Seq(Nat)], first' \in [Thread -> BOOLEAN],
           left' \in [Thread -> Int], nap' \in [Thread -> Nat],
           res' \in [Thread -> {"ok", "throw"}],
           \A u \in Thread \ {t} : res'[u] = res[u],
           UNCHANGED <<lockVars, portVars, inVars, outVars, call, buf, got>>
    PROVE  IInv'
  <1> USE DEF lockVars, portVars, inVars, outVars
  <1>1. TypeOK'
    <2>1. pc' \in [Thread -> PCs]
      BY DEF IInv, TypeOK, PCs, InRead, InWrite
    <2> QED
      BY <2>1 DEF IInv, TypeOK
  <1>2. \A u \in Thread : CallFits(u)'
    BY DEF IInv, TypeOK, CallFits, InRead, InWrite
  <1>3. LocksHeld'
    <2> SUFFICES ASSUME NEW u \in Thread
                 PROVE  (HoldsRead(u) => readOwner = u)' /\ (HoldsWrite(u) => writeOwner = u)'
      BY DEF LocksHeld
    <2>1. CASE u # t
      BY <2>1, ThreadAssumption DEF IInv, LocksHeld, HoldsRead, HoldsWrite, TypeOK
    <2>2. CASE u = t
      BY <2>2, ThreadAssumption DEF IInv, LocksHeld, HoldsRead, HoldsWrite, TypeOK,
         CallFits, InRead, InWrite, Reading, ReadOps, WriteOps, BothOps, Call, Ops
    <2> QED
      BY <2>1, <2>2
  <1>4. \A u \in Thread : RunOfStream(u)'
    <2> SUFFICES ASSUME NEW u \in Thread PROVE RunOfStream(u)'
      OBVIOUS
    <2>1. CASE u # t
      <3>1. pc'[u] = pc[u]
        BY <2>1 DEF IInv, TypeOK
      <3> QED
        BY <3>1 DEF IInv, RunOfStream, HoldsRead
    <2>2. CASE u = t
      BY <2>2 DEF IInv, RunOfStream, HoldsRead, LocksHeld, TypeOK,
         CallFits, InRead, InWrite, Reading, ReadOps, WriteOps, BothOps, Call, Ops
    <2> QED
      BY <2>1, <2>2
  <1>5. WritesContiguous'
    BY DEF IInv, TypeOK, WritesContiguous, Writing, CallFits,
       InRead, InWrite, Reading
  <1> QED
    BY <1>1, <1>2, <1>3, <1>4, <1>5 DEF IInv

\* A thread takes n bytes off the input queue.
LEMMA TakesBytes ==
    ASSUME IInv, NEW t \in Thread, NEW n \in Nat, n <= seen - taken,
           isOpen, pc[t] \in InRead, pc' = [pc EXCEPT ![t] = "loop"],
           taken' = taken + n, buf' = [buf EXCEPT ![t] = @ \o NextBytes(n)],
           got' \in [Thread -> Nat], \A u \in Thread \ {t} : got'[u] = got[u],
           left' \in [Thread -> Int], nap' \in [Thread -> Nat],
           UNCHANGED <<lockVars, portVars, seen, outVars, call, cuts, first, res>>
    PROVE  IInv'
  <1> USE DEF lockVars, portVars, outVars
  <1> DEFINE b == buf[t] \o NextBytes(n)
  <1>0. /\ b \in Seq(1 .. MaxRx)
        /\ \A i \in 1 .. Len(b) - 1 : b[i + 1] = b[i] + 1
        /\ b # <<>> => b[Len(b)] = taken + n
    <2>1. RunOfStream(t) /\ TypeOK /\ pc[t] # "return"
      BY DEF IInv, InRead
    <2> QED
      BY <2>1, RunContinues, Zenon
  <1>1. /\ buf' \in [Thread -> Seq(1 .. MaxRx)] /\ buf'[t] = b
        /\ \A u \in Thread \ {t} : buf'[u] = buf[u]
    BY <1>0 DEF IInv, TypeOK
  <1>2. /\ pc' \in [Thread -> PCs] /\ pc'[t] = "loop"
        /\ \A u \in Thread \ {t} : pc'[u] = pc[u]
    BY DEF IInv, TypeOK, PCs
  <1> HIDE DEF b
  <1>3. TypeOK'
    <2>1. seen \in 0 .. MaxRx /\ taken \in 0 .. seen
      BY DEF IInv, TypeOK
    <2>2. taken' \in 0 .. seen'
      BY <2>1, StreamAssumption
    <2>3. /\ readOwner' \in Thread \cup {NoThread} /\ writeOwner' \in Thread \cup {NoThread}
          /\ isOpen' \in BOOLEAN /\ gone' \in BOOLEAN /\ seen' \in 0 .. MaxRx
          /\ queued' \in 0 .. TxRoom /\ sent' \in Seq(Thread \X (Nat \ {0}))
      BY DEF IInv, TypeOK
    <2>4. /\ call' \in [Thread -> Call \cup {NoCall}] /\ cuts' \in [Thread -> Seq(Nat)]
          /\ first' \in [Thread -> BOOLEAN] /\ res' \in [Thread -> {"ok", "throw"}]
      BY DEF IInv, TypeOK
    <2>5. /\ got' \in [Thread -> Nat] /\ left' \in [Thread -> Int] /\ nap' \in [Thread -> Nat]
      OBVIOUS
    <2> QED
      BY <1>1, <1>2, <2>2, <2>3, <2>4, <2>5, Zenon DEF TypeOK
  <1>4. \A u \in Thread : CallFits(u)'
    BY <1>2 DEF IInv, CallFits, InRead, InWrite
  <1>5. LocksHeld'
    BY <1>2 DEF IInv, LocksHeld, HoldsRead, HoldsWrite, InRead, InWrite
  <1>6. call[t].op \in Reading /\ readOwner = t
    BY DEF IInv, CallFits, LocksHeld, HoldsRead
  <1>7. ASSUME NEW u \in Thread
        PROVE  RunOfStream(u)'
    <2>1. CASE u = t
      BY <2>1, <1>0, <1>1, <1>2, <1>6 DEF RunOfStream, HoldsRead, InRead
    <2>2. CASE u # t
      <3>1. buf[u] = <<>>
        BY <2>2, <1>6 DEF IInv, RunOfStream, LocksHeld
      <3> QED
        BY <2>2, <3>1, <1>1 DEF RunOfStream
    <2> QED
      BY <2>1, <2>2
  <1>8. WritesContiguous'
    <2>1. call[t].op # "write"
      BY <1>6 DEF Reading
    <2> QED
      BY <2>1, <1>2 DEF IInv, WritesContiguous, Writing
  <1> QED
    BY <1>3, <1>4, <1>5, <1>7, <1>8 DEF IInv

\* The call of a thread inside a read or a write.
LEMMA InCall ==
    ASSUME IInv, NEW t \in Thread, pc[t] \in InRead \cup InWrite
    PROVE  /\ call[t] \in Call /\ call[t].size \in Nat /\ call[t].interval \in Nat
           /\ Want(t) \in Nat /\ got[t] \in Nat /\ left[t] \in Int
           /\ seen - taken \in Nat
  <1>1. call[t] \in Call
    BY DEF IInv, CallFits, InRead, InWrite
  <1>2. call[t].size \in Nat /\ call[t].interval \in Nat
    BY <1>1, ClockAssumption DEF Call
  <1> QED
    BY <1>1, <1>2, StreamAssumption DEF Want, IInv, TypeOK

\* A read begins, of a port that is open or not.
LEMMA ReadEnterInv ==
    ASSUME IInv, NEW t \in Thread, ReadEnter(t)
    PROVE  IInv'
  <1> USE DEF ReadEnter, Finish, Goto, lockVars, portVars, inVars, outVars
  <1>1. CASE ~isOpen
    <2>1. /\ pc' = [pc EXCEPT ![t] = "return"]
          /\ res' \in [Thread -> {"ok", "throw"}]
          /\ \A u \in Thread \ {t} : res'[u] = res[u]
      BY <1>1 DEF IInv, TypeOK
    <2> QED
      BY <1>1, <2>1, GoesOn DEF InRead, IInv, TypeOK
  <1>2. CASE isOpen
    <2> DEFINE n == IF gone THEN 0 ELSE Min2(Want(t), seen - taken)
    <2>1. n \in Nat /\ n <= seen - taken
      BY InCall DEF InRead, Min2
    <2>2. /\ taken' = taken + n /\ buf' = [buf EXCEPT ![t] = @ \o NextBytes(n)]
          /\ got' = [got EXCEPT ![t] = n] /\ left' = [left EXCEPT ![t] = TotalTicks(Want(t))]
          /\ pc' = [pc EXCEPT ![t] = "loop"]
          /\ pc[t] \in InRead
      BY <1>2 DEF InRead
    <2> HIDE DEF n
    <2>3. left' \in [Thread -> Int]
      <3>1. Want(t) \in Nat
        BY <2>2, InCall
      <3>2. TotalTicks(Want(t)) \in Int
        BY <3>1, Times
      <3> QED
        BY <2>2, <3>2 DEF IInv, TypeOK
    <2>4. /\ got' \in [Thread -> Nat] /\ \A u \in Thread \ {t} : got'[u] = got[u]
      BY <2>1, <2>2 DEF IInv, TypeOK
    <2> QED
      BY <1>2, <2>1, <2>2, <2>3, <2>4, TakesBytes DEF IInv, TypeOK
  <1> QED
    BY <1>1, <1>2

\* The wait of a read is set.
LEMMA ReadWaitInv ==
    ASSUME IInv, NEW t \in Thread, ReadWait(t)
    PROVE  IInv'
  <1> USE DEF ReadWait, Goto, lockVars, portVars, inVars, outVars
  <1>1. pc[t] \in InRead
    BY DEF InRead
  <1>2. /\ WaitTicks(Remaining(left[t])) \in Nat /\ WaitTicks(call[t].interval) \in Nat
    BY <1>1, InCall, Times
  <1>3. nap' \in [Thread -> Nat]
    BY <1>2 DEF IInv, TypeOK, Min2
  <1>4. PICK l \in {"select", "blind"} : pc' = [pc EXCEPT ![t] = l]
    OBVIOUS
  <1> QED
    BY <1>1, <1>3, <1>4, GoesOn DEF InRead, IInv, TypeOK

\* A signal sends a read back to its loop.
LEMMA SelectInterruptedInv ==
    ASSUME IInv, NEW t \in Thread, SelectInterrupted(t)
    PROVE  IInv'
  <1> USE DEF SelectInterrupted, BackToLoop, Goto, lockVars, portVars, inVars, outVars
  <1>1. nap' \in [Thread -> Nat]
    BY DEF IInv, TypeOK
  <1> QED
    BY <1>1, GoesOn DEF InRead, IInv, TypeOK

\* A wait without a byte sends a read back to its loop.
LEMMA SelectTimedOutInv ==
    ASSUME IInv, NEW t \in Thread, SelectTimedOut(t)
    PROVE  IInv'
  <1> USE DEF SelectTimedOut, BackToLoop, Goto, lockVars, portVars, inVars, outVars
  <1>1. nap' \in [Thread -> Nat]
    BY DEF IInv, TypeOK
  <1> QED
    BY <1>1, GoesOn DEF InRead, IInv, TypeOK

\* A read lets the rest of its bytes arrive.
LEMMA SelectPatientInv ==
    ASSUME IInv, NEW t \in Thread, SelectPatient(t)
    PROVE  IInv'
  <1> USE DEF SelectPatient, Goto, lockVars, portVars, inVars, outVars
  <1>1. pc[t] \in InRead
    BY DEF InRead
  <1>2. Want(t) - (Available + got[t]) \in Nat
    BY <1>1, InCall DEF Patient, Available
  <1>3. nap' \in [Thread -> Nat]
    BY <1>2, Times DEF IInv, TypeOK
  <1> QED
    BY <1>1, <1>3, GoesOn DEF InRead, IInv, TypeOK

\* The wait of a read has ended: no byte or some.
LEMMA TakeInv ==
    ASSUME IInv, NEW t \in Thread, Take(t)
    PROVE  IInv'
  <1> USE DEF Take, Finish, Goto, lockVars, portVars, inVars, outVars
  <1> DEFINE n == IF gone \/ ~isOpen THEN 0 ELSE Min2(Want(t) - got[t], seen - taken)
  <1>1. pc[t] \in InRead /\ n \in Int /\ n <= seen - taken
    BY InCall DEF InRead, Min2
  <1>2. nap' \in [Thread -> Nat]
    BY DEF IInv, TypeOK
  <1>3. CASE n < 1
    <2>1. /\ pc' = [pc EXCEPT ![t] = "return"]
          /\ res' \in [Thread -> {"ok", "throw"}]
          /\ \A u \in Thread \ {t} : res'[u] = res[u]
          /\ UNCHANGED <<taken, buf, got>>
      BY <1>3 DEF IInv, TypeOK
    <2> QED
      BY <1>1, <1>2, <2>1, GoesOn DEF InRead, IInv, TypeOK
  <1>4. CASE n >= 1
    <2>1. n \in Nat /\ isOpen /\ ~(n < 1)
      BY <1>1, <1>4
    <2>2. /\ taken' = taken + n /\ buf' = [buf EXCEPT ![t] = @ \o NextBytes(n)]
          /\ got' = [got EXCEPT ![t] = @ + n]
          /\ pc' = [pc EXCEPT ![t] = "loop"] /\ UNCHANGED res
      BY <2>1, Zenon
    <2> HIDE DEF n
    <2>3. got \in [Thread -> Nat] /\ got[t] + n \in Nat
      <3>1. got \in [Thread -> Nat]
        BY DEF IInv, TypeOK
      <3> QED
        BY <2>1, <3>1
    <2>4. /\ got' \in [Thread -> Nat] /\ \A u \in Thread \ {t} : got'[u] = got[u]
      BY <2>2, <2>3
    <2> QED
      BY <1>1, <1>2, <2>1, <2>2, <2>4, TakesBytes DEF IInv, TypeOK
  <1> QED
    BY <1>1, <1>3, <1>4

\* A read is over.
LEMMA ReadEndInv ==
    ASSUME IInv, NEW t \in Thread, ReadEnd(t)
    PROVE  IInv'
  <1> USE DEF ReadEnd, ReadOver, Finish, Goto, lockVars, portVars, inVars, outVars
  <1>1. /\ res' \in [Thread -> {"ok", "throw"}]
        /\ \A u \in Thread \ {t} : res'[u] = res[u]
    BY DEF IInv, TypeOK
  <1> QED
    BY <1>1, GoesOn DEF InRead, IInv, TypeOK

\* A line ends or goes on with one more byte.
LEMMA LineEndInv ==
    ASSUME IInv, NEW t \in Thread, LineEnd(t)
    PROVE  IInv'
  <1> USE DEF LineEnd, ReadOver, Finish, Goto, lockVars, portVars, inVars, outVars
  <1>1. /\ res' \in [Thread -> {"ok", "throw"}]
        /\ \A u \in Thread \ {t} : res'[u] = res[u]
    BY DEF IInv, TypeOK
  <1>2. PICK l \in {"return", "enter"} : pc' = [pc EXCEPT ![t] = l]
    OBVIOUS
  <1> QED
    BY <1>1, <1>2, GoesOn DEF InRead, IInv, TypeOK

\* A line is cut, and readlines ends or goes on.
LEMMA LinesEndInv ==
    ASSUME IInv, NEW t \in Thread, LinesEnd(t)
    PROVE  IInv'
  <1> USE DEF LinesEnd, ReadOver, Finish, Goto, lockVars, portVars, inVars, outVars
  <1>1. /\ res' \in [Thread -> {"ok", "throw"}]
        /\ \A u \in Thread \ {t} : res'[u] = res[u]
    BY DEF IInv, TypeOK
  <1>2. PICK l \in {"return", "enter"} : pc' = [pc EXCEPT ![t] = l]
    OBVIOUS
  <1>3. Len(buf[t]) \in Nat /\ cuts[t] \in Seq(Nat)
    BY DEF IInv, TypeOK
  <1>4. PICK c \in Seq(Nat) : cuts' = [cuts EXCEPT ![t] = c]
    <2>1. Cut(cuts[t], Len(buf[t])) \in Seq(Nat) /\ Append(cuts[t], Len(buf[t])) \in Seq(Nat)
      BY <1>3 DEF Cut
    <2> QED
      BY <1>3, <2>1
  <1>5. cuts' \in [Thread -> Seq(Nat)]
    BY <1>4 DEF IInv, TypeOK
  <1> QED
    BY <1>1, <1>2, <1>5, GoesOn DEF InRead, IInv, TypeOK

\* A write is over or waits.
LEMMA WriteLoopInv ==
    ASSUME IInv, NEW t \in Thread, WriteLoop(t)
    PROVE  IInv'
  <1> USE DEF WriteLoop, Finish, Goto, lockVars, portVars, inVars, outVars
  <1>1. /\ res' \in [Thread -> {"ok", "throw"}]
        /\ \A u \in Thread \ {t} : res'[u] = res[u]
    BY DEF IInv, TypeOK
  <1>2. PICK l \in {"return", "wselect", "wblind"} : pc' = [pc EXCEPT ![t] = l]
    OBVIOUS
  <1>3. first' \in [Thread -> BOOLEAN]
    BY Zenon DEF IInv, TypeOK
  <1>4. WaitTicks(Remaining(left[t])) \in Nat
    BY InCall, Times DEF InWrite
  <1>5. nap' \in [Thread -> Nat]
    BY <1>4 DEF IInv, TypeOK
  <1> QED
    BY <1>1, <1>2, <1>3, <1>5, GoesOn DEF InWrite, IInv, TypeOK

\* A signal sends a write back to its loop.
LEMMA WriteInterruptedInv ==
    ASSUME IInv, NEW t \in Thread, WriteInterrupted(t)
    PROVE  IInv'
  <1> USE DEF WriteInterrupted, Goto, lockVars, portVars, inVars, outVars
  <1>1. nap' \in [Thread -> Nat]
    BY DEF IInv, TypeOK
  <1> QED
    BY <1>1, GoesOn DEF InWrite, IInv, TypeOK

\* The wait of a write ends, and the write with it.
LEMMA WriteTimedOutInv ==
    ASSUME IInv, NEW t \in Thread, WriteTimedOut(t)
    PROVE  IInv'
  <1> USE DEF WriteTimedOut, Finish, Goto, lockVars, portVars, inVars, outVars
  <1>1. /\ res' \in [Thread -> {"ok", "throw"}] /\ nap' \in [Thread -> Nat]
        /\ \A u \in Thread \ {t} : res'[u] = res[u]
    BY DEF IInv, TypeOK
  <1> QED
    BY <1>1, GoesOn DEF InWrite, IInv, TypeOK

\* A thread that holds the write mutex has handed the first k bytes of its
\* data to the kernel.
LEMMA WritesOn ==
    ASSUME IInv, NEW t \in Thread, NEW k \in Nat,
           pc[t] \in InWrite, pc' = [pc EXCEPT ![t] = "wloop"],
           sent' = DataBytes(t, 0, k), got' = [got EXCEPT ![t] = k],
           queued' \in 0 .. TxRoom, first' \in [Thread -> BOOLEAN],
           left' \in [Thread -> Int], nap' \in [Thread -> Nat],
           UNCHANGED <<lockVars, portVars, inVars, call, buf, cuts, res>>
    PROVE  IInv'
  <1> USE DEF lockVars, portVars, inVars
  <1>1. TypeOK'
    <2>1. sent' \in Seq(Thread \X (Nat \ {0}))
      BY DataBytesDef
    <2>2. pc' \in [Thread -> PCs] /\ got' \in [Thread -> Nat]
      BY DEF IInv, TypeOK, PCs
    <2> QED
      BY <2>1, <2>2 DEF IInv, TypeOK
  <1>2. /\ pc'[t] = "wloop" /\ got'[t] = k
        /\ \A u \in Thread \ {t} : pc'[u] = pc[u] /\ got'[u] = got[u]
    BY DEF IInv, TypeOK
  <1>3. \A u \in Thread : CallFits(u)'
    BY <1>2 DEF IInv, CallFits, InRead, InWrite
  <1>4. LocksHeld'
    BY <1>2 DEF IInv, LocksHeld, HoldsRead, HoldsWrite, InRead, InWrite
  <1>5. call[t].op = "write" /\ writeOwner = t
    BY DEF IInv, CallFits, LocksHeld, HoldsWrite
  <1>6. \A u \in Thread : RunOfStream(u)'
    BY <1>2, <1>5 DEF IInv, RunOfStream, HoldsRead, Reading
  <1>7. ASSUME NEW u \in Thread, Writing(u)'
        PROVE  sent' = DataBytes(u, 0, got[u])'
    <2>1. CASE u = t
      BY <2>1, <1>2
    <2>2. CASE u # t
      <3>1. Writing(u)
        BY <1>7, <2>2, <1>2 DEF Writing
      <3>2. HoldsWrite(u)
        BY <3>1 DEF IInv, Writing, HoldsWrite, InWrite, WriteOps
      <3> QED
        BY <2>2, <3>2, <1>5 DEF IInv, LocksHeld
    <2> QED
      BY <2>1, <2>2
  <1>8. WritesContiguous'
    BY <1>7 DEF WritesContiguous
  <1> QED
    BY <1>1, <1>3, <1>4, <1>6, <1>8 DEF IInv

\* A write begins, of a port that is open or not.
LEMMA WriteEnterInv ==
    ASSUME IInv, NEW t \in Thread, WriteEnter(t)
    PROVE  IInv'
  <1> USE DEF WriteEnter, Finish, Goto, lockVars, portVars, inVars, outVars
  <1>1. CASE ~isOpen
    <2>1. /\ pc' = [pc EXCEPT ![t] = "return"]
          /\ res' \in [Thread -> {"ok", "throw"}] /\ res'[t] = "throw"
          /\ \A u \in Thread \ {t} : res'[u] = res[u]
      BY <1>1 DEF IInv, TypeOK
    <2> QED
      BY <1>1, <2>1, GoesOn DEF IInv, TypeOK
  <1>2. CASE isOpen
    <2>1. pc[t] \in InWrite
      BY DEF InWrite
    <2>2. left' \in [Thread -> Int]
      <3>1. call[t].size \in Nat
        BY <2>1, InCall
      <3>2. TotalTicks(call[t].size) \in Int
        BY <3>1, Times
      <3> QED
        BY <1>2, <3>2 DEF IInv, TypeOK
    <2>3. first' \in [Thread -> BOOLEAN]
      BY <1>2, Zenon DEF IInv, TypeOK
    <2>4. sent' = DataBytes(t, 0, 0)
      BY <1>2, DataBytesDef
    <2> QED
      BY <1>2, <2>1, <2>2, <2>3, <2>4, WritesOn DEF IInv, TypeOK
  <1> QED
    BY <1>1, <1>2

\* The kernel takes no byte of a write or some.
LEMMA PutInv ==
    ASSUME IInv, NEW t \in Thread, Put(t)
    PROVE  IInv'
  <1> USE DEF Put, Finish, Goto, lockVars, portVars, inVars, outVars
  <1>1. nap' \in [Thread -> Nat] /\ pc[t] \in InWrite
    BY DEF IInv, TypeOK, InWrite
  <1>2. CASE gone \/ ~isOpen
    <2>1. /\ pc' = [pc EXCEPT ![t] = "return"]
          /\ res' \in [Thread -> {"ok", "throw"}]
          /\ \A u \in Thread \ {t} : res'[u] = res[u]
      BY <1>2 DEF IInv, TypeOK
    <2> QED
      BY <1>1, <1>2, <2>1, GoesOn DEF InWrite, IInv, TypeOK
  <1>3. CASE ~(gone \/ ~isOpen)
    <2>1. PICK n \in 1 .. Min2(call[t].size - got[t], TxRoom - queued) :
             /\ queued' = queued + n
             /\ sent' = sent \o DataBytes(t, got[t], n)
             /\ got' = [got EXCEPT ![t] = @ + n]
             /\ pc' = [pc EXCEPT ![t] = "wloop"]
             /\ UNCHANGED res
      BY <1>3
    <2>2. got[t] \in Nat /\ call[t].size \in Nat /\ queued \in 0 .. TxRoom
      BY <1>1, InCall DEF IInv, TypeOK
    <2>3. n \in Nat /\ queued' \in 0 .. TxRoom
      <3>1. n \in Nat /\ n <= TxRoom - queued
        BY <2>1, <2>2, StreamAssumption DEF Min2
      <3> QED
        BY <3>1, <2>1, <2>2, StreamAssumption
    <2>4. sent = DataBytes(t, 0, got[t])
      BY DEF IInv, WritesContiguous, Writing
    <2>5. sent' = DataBytes(t, 0, got[t] + n)
      BY <2>1, <2>2, <2>3, <2>4, DataBytesDef
    <2>6. got[t] + n \in Nat /\ got' = [got EXCEPT ![t] = got[t] + n]
      BY <2>1, <2>2, <2>3
    <2> QED
      BY <1>1, <2>1, <2>3, <2>5, <2>6, WritesOn DEF IInv, TypeOK
  <1> QED
    BY <1>2, <1>3

\* flushInput holds the read mutex: no call has a run that must end at the queue.
LEMMA FlushInputInv ==
    ASSUME IInv, NEW t \in Thread, FlushInput(t)
    PROVE  IInv'
  <1> USE DEF FlushInput, Finish, Goto, lockVars, portVars, inVars, outVars
  <1>1. TypeOK'
    <2>1. /\ seen' \in 0 .. MaxRx /\ taken' \in 0 .. seen'
      BY StreamAssumption DEF IInv, TypeOK
    <2>2. pc' \in [Thread -> PCs] /\ call' \in [Thread -> Call \cup {NoCall}]
      BY DEF IInv, TypeOK, PCs
    <2>3. res' \in [Thread -> {"ok", "throw"}]
      BY DEF IInv, TypeOK
    <2> QED
      BY <2>1, <2>2, <2>3 DEF IInv, TypeOK
  <1>2. \A u \in Thread : CallFits(u)'
    BY DEF IInv, TypeOK, CallFits, InRead, InWrite, Reading, ReadOps,
       WriteOps, BothOps, Call, Ops
  <1>3. LocksHeld'
    BY ThreadAssumption DEF IInv, TypeOK, LocksHeld, HoldsRead, HoldsWrite,
       CallFits, InRead, InWrite, Reading, ReadOps, WriteOps, BothOps, Call, Ops
  <1>4. \A u \in Thread : RunOfStream(u)'
    BY DEF IInv, TypeOK, RunOfStream, HoldsRead, LocksHeld, CallFits,
       InRead, InWrite, Reading, ReadOps, WriteOps, BothOps, Call, Ops
  <1>5. WritesContiguous'
    BY DEF IInv, TypeOK, WritesContiguous, Writing, LocksHeld, HoldsWrite,
       CallFits, InRead, InWrite, Reading, ReadOps, WriteOps, BothOps, Call, Ops
  <1> QED
    BY <1>1, <1>2, <1>3, <1>4, <1>5 DEF IInv

\* flushOutput empties the output queue only.
LEMMA FlushOutputInv ==
    ASSUME IInv, NEW t \in Thread, FlushOutput(t)
    PROVE  IInv'
  <1> USE DEF FlushOutput, Finish, Goto, lockVars, portVars, inVars, outVars
  <1>1. TypeOK'
    <2>1. queued' \in 0 .. TxRoom
      BY StreamAssumption DEF IInv, TypeOK
    <2>2. pc' \in [Thread -> PCs] /\ call' \in [Thread -> Call \cup {NoCall}]
      BY DEF IInv, TypeOK, PCs
    <2>3. res' \in [Thread -> {"ok", "throw"}]
      BY DEF IInv, TypeOK
    <2> QED
      BY <2>1, <2>2, <2>3 DEF IInv, TypeOK
  <1>2. \A u \in Thread : CallFits(u)'
    BY DEF IInv, TypeOK, CallFits, InRead, InWrite, Reading, ReadOps,
       WriteOps, BothOps, Call, Ops
  <1>3. LocksHeld'
    BY ThreadAssumption DEF IInv, TypeOK, LocksHeld, HoldsRead, HoldsWrite,
       CallFits, InRead, InWrite, Reading, ReadOps, WriteOps, BothOps, Call, Ops
  <1>4. \A u \in Thread : RunOfStream(u)'
    <2> SUFFICES ASSUME NEW u \in Thread PROVE RunOfStream(u)'
      OBVIOUS
    <2>1. CASE u # t
      BY <2>1 DEF IInv, RunOfStream, HoldsRead, LocksHeld, TypeOK
    <2>2. CASE u = t
      BY <2>2 DEF IInv, RunOfStream, HoldsRead, LocksHeld, TypeOK,
         CallFits, InRead, InWrite, Reading, ReadOps, WriteOps, BothOps, Call, Ops
    <2> QED
      BY <2>1, <2>2
  <1>5. WritesContiguous'
    BY DEF IInv, TypeOK, WritesContiguous, Writing, LocksHeld, HoldsWrite,
       CallFits, InRead, InWrite, Reading, ReadOps, WriteOps, BothOps, Call, Ops
  <1> QED
    BY <1>1, <1>2, <1>3, <1>4, <1>5 DEF IInv

\* flush waits, with both mutexes held.
LEMMA FlushInv ==
    ASSUME IInv, NEW t \in Thread, Flush(t)
    PROVE  IInv'
  <1> USE DEF Flush, Finish, Goto, lockVars, portVars, inVars, outVars
  <1>1. TypeOK'
    BY StreamAssumption DEF IInv, TypeOK, PCs, CallFits, InRead, InWrite, Call
  <1>2. \A u \in Thread : CallFits(u)'
    BY DEF IInv, TypeOK, CallFits, InRead, InWrite, Reading, ReadOps,
       WriteOps, BothOps, Call, Ops
  <1>3. LocksHeld'
    BY ThreadAssumption DEF IInv, TypeOK, LocksHeld, HoldsRead, HoldsWrite,
       CallFits, InRead, InWrite, Reading, ReadOps, WriteOps, BothOps, Call, Ops
  <1>4. \A u \in Thread : RunOfStream(u)'
    BY DEF IInv, TypeOK, RunOfStream, HoldsRead, LocksHeld, CallFits,
       InRead, InWrite, Reading, ReadOps, WriteOps, BothOps, Call, Ops
  <1>5. WritesContiguous'
    BY DEF IInv, TypeOK, WritesContiguous, Writing, LocksHeld, HoldsWrite,
       CallFits, InRead, InWrite, Reading, ReadOps, WriteOps, BothOps, Call, Ops
  <1> QED
    BY <1>1, <1>2, <1>3, <1>4, <1>5 DEF IInv

\* setPort holds the read mutex, as flushInput does.
LEMMA SetPortInv ==
    ASSUME IInv, NEW t \in Thread, SetPort(t)
    PROVE  IInv'
  <1> USE DEF SetPort, Finish, Goto, lockVars, portVars, inVars, outVars
  <1>0. pc[t] = "act" /\ pc' = [pc EXCEPT ![t] = "return"] /\ call' = call
    OBVIOUS
  <1>1. TypeOK'
    <2>1. /\ seen' \in 0 .. MaxRx /\ taken' \in 0 .. seen'
      <3>1. seen \in 0 .. MaxRx /\ taken \in 0 .. seen
        BY DEF IInv, TypeOK
      <3>2. seen' = seen /\ taken' \in {taken, seen}
        OBVIOUS
      <3> QED
        BY <3>1, <3>2, StreamAssumption
    <2>2. queued' \in 0 .. TxRoom
      <3>1. queued \in 0 .. TxRoom /\ queued' \in {queued, 0}
        BY DEF IInv, TypeOK
      <3> QED
        BY <3>1, StreamAssumption
    <2>3. isOpen' \in BOOLEAN /\ gone' \in BOOLEAN
      BY DEF IInv, TypeOK
    <2>4. pc' \in [Thread -> PCs] /\ call' \in [Thread -> Call \cup {NoCall}]
      BY DEF IInv, TypeOK, PCs
    <2>5. res' \in [Thread -> {"ok", "throw"}]
      BY DEF IInv, TypeOK
    <2> QED
      BY <2>1, <2>2, <2>3, <2>4, <2>5 DEF IInv, TypeOK
  <1>2. \A u \in Thread : CallFits(u)'
    <2> HIDE DEF SetPort
    <2> SUFFICES ASSUME NEW u \in Thread PROVE CallFits(u)'
      OBVIOUS
    <2>1. CASE u # t
      BY <2>1, <1>0 DEF IInv, CallFits, TypeOK
    <2>2. CASE u = t
      BY <2>2, <1>0 DEF IInv, CallFits, TypeOK,
         CallFits, InRead, InWrite
    <2> QED
      BY <2>1, <2>2
  <1>3. LocksHeld'
    BY ThreadAssumption DEF IInv, TypeOK, LocksHeld, HoldsRead, HoldsWrite,
       CallFits, InRead, InWrite, Reading, ReadOps, WriteOps, BothOps, Call, Ops
  <1>4. \A u \in Thread : RunOfStream(u)'
    BY DEF IInv, TypeOK, RunOfStream, HoldsRead, LocksHeld, CallFits,
       InRead, InWrite, Reading, ReadOps, WriteOps, BothOps, Call, Ops
  <1>5. WritesContiguous'
    BY DEF IInv, TypeOK, WritesContiguous, Writing, LocksHeld, HoldsWrite,
       CallFits, InRead, InWrite, Reading, ReadOps, WriteOps, BothOps, Call, Ops
  <1> QED
    BY <1>1, <1>2, <1>3, <1>4, <1>5 DEF IInv

\* close takes no mutex, but leaves the port closed: no run can go on.
LEMMA CloseInv ==
    ASSUME IInv, NEW t \in Thread, Close(t)
    PROVE  IInv'
  <1> USE DEF Close, Finish, Goto, lockVars, portVars, inVars, outVars
  <1>1. TypeOK'
    <2>1. /\ seen' \in 0 .. MaxRx /\ taken' \in 0 .. seen'
      BY StreamAssumption DEF IInv, TypeOK
    <2>2. queued' \in 0 .. TxRoom
      BY StreamAssumption DEF IInv, TypeOK
    <2>3. isOpen' \in BOOLEAN /\ gone' \in BOOLEAN
      BY DEF IInv, TypeOK
    <2>4. pc' \in [Thread -> PCs] /\ call' \in [Thread -> Call \cup {NoCall}]
      BY DEF IInv, TypeOK, PCs
    <2>5. res' \in [Thread -> {"ok", "throw"}]
      BY DEF IInv, TypeOK
    <2> QED
      BY <2>1, <2>2, <2>3, <2>4, <2>5 DEF IInv, TypeOK
  <1>2. \A u \in Thread : CallFits(u)'
    BY DEF IInv, TypeOK, CallFits, InRead, InWrite, Reading, ReadOps,
       WriteOps, BothOps, Call, Ops
  <1>3. LocksHeld'
    BY ThreadAssumption DEF IInv, TypeOK, LocksHeld, HoldsRead, HoldsWrite,
       CallFits, InRead, InWrite, Reading, ReadOps, WriteOps, BothOps, Call, Ops
  <1>4. \A u \in Thread : RunOfStream(u)'
    <2> SUFFICES ASSUME NEW u \in Thread PROVE RunOfStream(u)'
      OBVIOUS
    <2>1. CASE u # t
      BY <2>1 DEF IInv, RunOfStream, HoldsRead, LocksHeld, TypeOK
    <2>2. CASE u = t
      BY <2>2 DEF IInv, RunOfStream, HoldsRead, LocksHeld, TypeOK,
         CallFits, InRead, InWrite, Reading, ReadOps, WriteOps, BothOps, Call, Ops
    <2> QED
      BY <2>1, <2>2
  <1>5. WritesContiguous'
    BY DEF IInv, TypeOK, WritesContiguous, Writing, LocksHeld, HoldsWrite,
       CallFits, InRead, InWrite, Reading, ReadOps, WriteOps, BothOps, Call, Ops
  <1> QED
    BY <1>1, <1>2, <1>3, <1>4, <1>5 DEF IInv

\* A byte arrives behind all runs.
LEMMA ArriveInv ==
    ASSUME IInv, Arrive
    PROVE  IInv'
  <1> USE DEF Arrive, threadVars, Goto, lockVars, portVars, inVars, outVars
  <1>1. TypeOK'
    <2>1. /\ seen' \in 0 .. MaxRx /\ taken' \in 0 .. seen'
      BY StreamAssumption DEF IInv, TypeOK
    <2> QED
      BY <2>1 DEF IInv, TypeOK, PCs
  <1>2. \A u \in Thread : CallFits(u)'
    BY DEF IInv, TypeOK, CallFits, InRead, InWrite, Reading, ReadOps,
       WriteOps, BothOps, Call, Ops
  <1>3. LocksHeld'
    BY ThreadAssumption DEF IInv, TypeOK, LocksHeld, HoldsRead, HoldsWrite,
       CallFits, InRead, InWrite, Reading, ReadOps, WriteOps, BothOps, Call, Ops
  <1>4. \A u \in Thread : RunOfStream(u)'
    BY DEF IInv, TypeOK, RunOfStream, HoldsRead, LocksHeld, CallFits,
       InRead, InWrite, Reading, ReadOps, WriteOps, BothOps, Call, Ops
  <1>5. WritesContiguous'
    BY DEF IInv, TypeOK, WritesContiguous, Writing, LocksHeld, HoldsWrite,
       CallFits, InRead, InWrite, Reading, ReadOps, WriteOps, BothOps, Call, Ops
  <1> QED
    BY <1>1, <1>2, <1>3, <1>4, <1>5 DEF IInv

\* A byte leaves the output queue.
LEMMA TransmitInv ==
    ASSUME IInv, Transmit
    PROVE  IInv'
  <1> USE DEF Transmit, threadVars, Goto, lockVars, portVars, inVars, outVars
  <1>1. TypeOK'
    <2>1. queued' \in 0 .. TxRoom
      BY StreamAssumption DEF IInv, TypeOK
    <2> QED
      BY <2>1 DEF IInv, TypeOK, PCs
  <1>2. \A u \in Thread : CallFits(u)'
    BY DEF IInv, TypeOK, CallFits, InRead, InWrite, Reading, ReadOps,
       WriteOps, BothOps, Call, Ops
  <1>3. LocksHeld'
    BY ThreadAssumption DEF IInv, TypeOK, LocksHeld, HoldsRead, HoldsWrite,
       CallFits, InRead, InWrite, Reading, ReadOps, WriteOps, BothOps, Call, Ops
  <1>4. \A u \in Thread : RunOfStream(u)'
    BY DEF IInv, TypeOK, RunOfStream, HoldsRead, LocksHeld, CallFits,
       InRead, InWrite, Reading, ReadOps, WriteOps, BothOps, Call, Ops
  <1>5. WritesContiguous'
    BY DEF IInv, TypeOK, WritesContiguous, Writing, LocksHeld, HoldsWrite,
       CallFits, InRead, InWrite, Reading, ReadOps, WriteOps, BothOps, Call, Ops
  <1> QED
    BY <1>1, <1>2, <1>3, <1>4, <1>5 DEF IInv

\* The device is lost.
LEMMA UnplugInv ==
    ASSUME IInv, Unplug
    PROVE  IInv'
  <1> USE DEF Unplug, threadVars, Goto, lockVars, portVars, inVars, outVars
  <1>1. TypeOK'
    BY StreamAssumption DEF IInv, TypeOK, PCs, CallFits, InRead, InWrite, Call
  <1>2. \A u \in Thread : CallFits(u)'
    BY DEF IInv, TypeOK, CallFits, InRead, InWrite, Reading, ReadOps,
       WriteOps, BothOps, Call, Ops
  <1>3. LocksHeld'
    BY ThreadAssumption DEF IInv, TypeOK, LocksHeld, HoldsRead, HoldsWrite,
       CallFits, InRead, InWrite, Reading, ReadOps, WriteOps, BothOps, Call, Ops
  <1>4. \A u \in Thread : RunOfStream(u)'
    BY DEF IInv, TypeOK, RunOfStream, HoldsRead, LocksHeld, CallFits,
       InRead, InWrite, Reading, ReadOps, WriteOps, BothOps, Call, Ops
  <1>5. WritesContiguous'
    BY DEF IInv, TypeOK, WritesContiguous, Writing, LocksHeld, HoldsWrite,
       CallFits, InRead, InWrite, Reading, ReadOps, WriteOps, BothOps, Call, Ops
  <1> QED
    BY <1>1, <1>2, <1>3, <1>4, <1>5 DEF IInv

\* Time passes.
LEMMA TickInv ==
    ASSUME IInv, Tick
    PROVE  IInv'
  <1> USE DEF Tick, threadVars, Goto, lockVars, portVars, inVars, outVars
  <1>1. TypeOK'
    <2>1. left' \in [Thread -> Int]
      BY Times DEF IInv, TypeOK
    <2>2. nap' \in [Thread -> Nat]
      <3>1. nap \in [Thread -> Nat]
        BY DEF IInv, TypeOK
      <3>2. nap' = [u \in Thread |-> IF nap[u] > 0 THEN nap[u] - 1 ELSE 0]
        OBVIOUS
      <3> QED
        BY <3>1, <3>2
    <2> QED
      BY <2>1, <2>2 DEF IInv, TypeOK, PCs
  <1>2. \A u \in Thread : CallFits(u)'
    BY DEF IInv, TypeOK, CallFits, InRead, InWrite, Reading, ReadOps,
       WriteOps, BothOps, Call, Ops
  <1>3. LocksHeld'
    BY ThreadAssumption DEF IInv, TypeOK, LocksHeld, HoldsRead, HoldsWrite,
       CallFits, InRead, InWrite, Reading, ReadOps, WriteOps, BothOps, Call, Ops
  <1>4. \A u \in Thread : RunOfStream(u)'
    BY DEF IInv, TypeOK, RunOfStream, HoldsRead, LocksHeld, CallFits,
       InRead, InWrite, Reading, ReadOps, WriteOps, BothOps, Call, Ops
  <1>5. WritesContiguous'
    BY DEF IInv, TypeOK, WritesContiguous, Writing, LocksHeld, HoldsWrite,
       CallFits, InRead, InWrite, Reading, ReadOps, WriteOps, BothOps, Call, Ops
  <1> QED
    BY <1>1, <1>2, <1>3, <1>4, <1>5 DEF IInv

\* A step that changes nothing.
LEMMA StutterInv ==
    ASSUME IInv, UNCHANGED vars
    PROVE  IInv'
  BY DEF vars, lockVars, portVars, inVars, outVars, threadVars, IInv, TypeOK, LocksHeld,
     HoldsRead, HoldsWrite, CallFits, RunOfStream, WritesContiguous, Writing

\* The environment and the calls that take a lock, together.
LEMMA NextInv == IInv /\ [Next]_vars => IInv'
  <1> SUFFICES ASSUME IInv, [Next]_vars PROVE IInv'
    OBVIOUS
  <1>1. ASSUME NEW t \in Thread, Step(t)
        PROVE  IInv'
    BY <1>1, ReturnInv, ReadEnterInv, ReadWaitInv, SelectTimedOutInv, SelectPatientInv,
       TakeInv, ReadEndInv, LineEndInv, LinesEndInv, WriteEnterInv, WriteLoopInv,
       WriteTimedOutInv, PutInv, FlushInputInv, FlushOutputInv, FlushInv, SetPortInv,
       CloseInv DEF Step
  <1>2. ASSUME NEW t \in Thread, Interrupted(t)
        PROVE  IInv'
    BY <1>2, SelectInterruptedInv, WriteInterruptedInv DEF Interrupted
  <1>3. ASSUME NEW t \in Thread, NEW c \in Calls[t], Begin(t, c)
        PROVE  IInv'
    BY <1>3, BeginInv
  <1>4. ASSUME NEW t \in Thread, ReadLock(t) \/ WriteLock(t)
        PROVE  IInv'
    BY <1>4, ReadLockInv, WriteLockInv
  <1>5. CASE Arrive \/ Transmit \/ Unplug \/ Tick
    BY <1>5, ArriveInv, TransmitInv, UnplugInv, TickInv
  <1>6. CASE UNCHANGED vars
    BY <1>6, StutterInv
  <1> QED
    BY <1>1, <1>2, <1>3, <1>4, <1>5, <1>6 DEF Next
-----------------------------------------------------------------------------
(* The theorems.                                                           *)

\* The inductive invariant: which thread holds which mutex, in which call it
\* is, and what it has read or written so far.
THEOREM Invariance == Spec => []IInv
  <1>1. Init => IInv
    BY InitInv
  <1>2. IInv /\ [Next]_vars => IInv'
    BY NextInv
  <1> QED
    BY <1>1, <1>2, PTL DEF Spec

\* Every variable keeps its type, of whatever size the queues are: no more
\* bytes are taken than arrived (SerialImpl::read of unix.cc).
THEOREM TypeCorrect == Spec => []TypeOK
  <1>1. IInv => TypeOK
    BY DEF IInv
  <1> QED
    BY <1>1, Invariance, PTL

\* However many threads read, each call gets a run of the stream of its own
\* (ScopedReadLock of serial.cc).
THEOREM ReadsAreContiguous == Spec => []ReadsContiguous
  <1>1. IInv => ReadsContiguous
    <2> SUFFICES ASSUME IInv PROVE ReadsContiguous
      OBVIOUS
    <2>1. \A t \in Thread : Len(buf[t]) \in Nat /\ (buf[t] = <<>> => Len(buf[t]) = 0)
      <3>1. \A t \in Thread : buf[t] \in Seq(1 .. MaxRx)
        BY DEF IInv, TypeOK
      <3> QED
        BY <3>1, LenProperties, EmptySeq
    <2>2. \A t \in Thread : \A i \in 1 .. Len(buf[t]) - 1 : buf[t][i + 1] = buf[t][i] + 1
      BY <2>1 DEF IInv, RunOfStream
    <2>3. \A t, u \in Thread : t # u => buf[t] = <<>> \/ buf[u] = <<>>
      BY DEF IInv, RunOfStream, LocksHeld
    <2> QED
      BY <2>1, <2>2, <2>3 DEF ReadsContiguous
  <1> QED
    BY <1>1, Invariance, PTL

\* However many threads write, and however little the kernel takes at a time,
\* the bytes of a write reach it next to each other, in order and once, and
\* write returns how many did (ScopedWriteLock of serial.cc, the loop of
\* SerialImpl::write of unix.cc).
THEOREM WritesAreContiguous == Spec => []WritesContiguous
  <1>1. IInv => WritesContiguous
    BY DEF IInv
  <1> QED
    BY <1>1, Invariance, PTL
-----------------------------------------------------------------------------
(* What a call has done so far: how long it waits, what a short read has   *)
(* waited for, and where lines end.                                        *)

InLoop == {"loop", "select", "blind", "nap"}

\* Bytes the call read before the innermost read began.
Before(t) == IF pc[t] \in InLoop THEN Len(buf[t]) - got[t] ELSE Len(buf[t])

\* The lines that readlines has found in the first n bytes of b end at c.
LinesSoFar(b, c, n) ==
    \A i \in 1 .. Len(c) :
        /\ c[i] \in 1 .. n
        /\ EndsLikeEol(b, c[i])
        /\ i < Len(c) => c[i] < c[i + 1]

\* A call that reads: never more than it was asked for, one byte at a time
\* but for read, and no delimiter passed over.
ReadSoFar(t) ==
    /\ pc[t] \in InLoop => got[t] <= Want(t)
    /\ pc[t] \in InLoop \ {"loop"} => got[t] < Want(t)
    /\ pc[t] \in InRead =>
          /\ Before(t) \in 0 .. call[t].size - 1
          /\ call[t].op = "read" => Before(t) = 0
          /\ call[t].op = "readline" => NoEolBefore(buf[t], Before(t))
          /\ call[t].op = "readlines" => LinesSoFar(buf[t], cuts[t], Before(t))
    /\ pc[t] \notin InRead \cup {"return"} => cuts[t] = <<>>

\* The first wait of a write is before its first byte.
FirstIsFirst(t) ==
    /\ pc[t] = "wloop" /\ first[t] => got[t] = 0
    /\ pc[t] \in {"wselect", "wblind"} => ~first[t]

\* What a thread knows of its own call.
CallSound(t) ==
    /\ ReadSoFar(t)
    /\ FirstIsFirst(t)
    /\ WaitEndsInTime(t)
    /\ ShortIsLate(t)
    /\ LineEnds(t)
    /\ LinesWhole(t)

CallsSound == \A t \in Thread : CallSound(t)

-----------------------------------------------------------------------------
\* Whole milliseconds never exceed the ticks they are made of.
LEMMA DivBelow ==
    ASSUME NEW x \in Nat, NEW r \in Nat \ {0}
    PROVE  r * (x \div r) <= x /\ (x \div r <= 0 => x < r)
  <1> DEFINE q == x \div r
             m == x % r
  <1>1. q \in Int /\ m \in 0 .. r - 1 /\ x = r * q + m
    OBVIOUS
  <1>2. q = 0 => r * q = 0
    BY <1>1
  <1>3. q >= 0
    OBVIOUS
  <1> DEFINE p == r * q
  <1>4. p \in Int
    BY <1>1
  <1> HIDE DEF q, m, p
  <1>5. x = p + m
    BY <1>1 DEF p
  <1> QED
    BY <1>1, <1>2, <1>3, <1>4, <1>5 DEF p, q

\* A product of natural numbers grows with its factor.
LEMMA TimesMonotone ==
    ASSUME NEW a \in Nat, NEW b \in Nat, a <= b, NEW r \in Nat
    PROVE  r * a <= r * b
  OBVIOUS

\* The wait for the time left ends with it, unless that was negative.
LEMMA WaitFits ==
    ASSUME NEW x \in Int, ~(Remaining(x) < 0)
    PROVE  WaitTicks(Remaining(x)) <= x \/ WaitTicks(Remaining(x)) = 0
  <1> DEFINE m == Remaining(x)
  <1>1. m \in Nat
    BY Times
  <1>2. U32(m) \in Nat /\ U32(m) <= m
    BY <1>1, ClockAssumption DEF U32
  <1>3. CASE x >= 0
    <2>1. m = x \div Res
      BY <1>3 DEF Remaining
    <2>2. Res * m <= x
      BY <2>1, <1>3, DivBelow, ClockAssumption
    <2> DEFINE a == Res * U32(m)
               b == Res * m
    <2>3. a <= b /\ a \in Int /\ b \in Int
      BY <1>1, <1>2, TimesMonotone, ClockAssumption
    <2>4. b <= x /\ WaitTicks(m) = a
      BY <2>2 DEF WaitTicks
    <2> HIDE DEF a, b, m
    <2>5. WaitTicks(m) <= x
      BY <2>3, <2>4
    <2> QED
      BY <2>5 DEF m
  <1>4. CASE x < 0
    <2>1. m = -((-x) \div Res)
      BY <1>4 DEF Remaining
    <2>2. (-x) \div Res \in Nat
      BY <1>4, ClockAssumption
    <2>3. m = 0
      BY <2>1, <2>2, <1>1
    <2>4. U32(m) = 0
      BY <1>2, <2>3
    <2>5. WaitTicks(m) = 0
      BY <2>4, ClockAssumption DEF WaitTicks
    <2> QED
      BY <2>5
  <1> QED
    BY <1>3, <1>4

\* No whole millisecond is left: less than one is.
LEMMA NoneLeft ==
    ASSUME NEW x \in Int, Remaining(x) <= 0
    PROVE  x < Res
  <1>1. CASE x >= 0
    BY <1>1, DivBelow, ClockAssumption DEF Remaining
  <1>2. CASE x < 0
    BY <1>2, ClockAssumption
  <1> QED
    BY <1>1, <1>2

\* Bytes that come later do not change where delimiters end.
LEMMA EolKept ==
    ASSUME NEW a \in Seq(1 .. MaxRx), NEW d \in Seq(1 .. MaxRx), NEW i \in 1 .. Len(a)
    PROVE  /\ EndsLikeEol(a \o d, i) <=> EndsLikeEol(a, i)
           /\ EolAt(a \o d, i) <=> EolAt(a, i)
  <1>1. Len(a) \in Nat /\ Len(a \o d) = Len(a) + Len(d)
    BY LenProperties, ConcatProperties
  <1>2. \A j \in 1 .. Len(a) : (a \o d)[j] = a[j]
    BY <1>1, ConcatProperties
  <1>3. Len(Eol) \in Nat \ {0}
    BY StreamAssumption
  <1>4. \A k \in 1 .. Len(Eol) :
           i - Len(Eol) + k >= 1 => i - Len(Eol) + k \in 1 .. Len(a)
    BY <1>1, <1>3
  <1>5. EndsLikeEol(a \o d, i) <=> EndsLikeEol(a, i)
    BY <1>2, <1>3, <1>4 DEF EndsLikeEol
  <1> QED
    BY <1>5 DEF EolAt

\* So what was found in the bytes before stays found.
LEMMA SoFarKept ==
    ASSUME NEW a \in Seq(1 .. MaxRx), NEW d \in Seq(1 .. MaxRx),
           NEW n \in Nat, n <= Len(a), NEW c
    PROVE  /\ NoEolBefore(a, n) => NoEolBefore(a \o d, n)
           /\ LinesSoFar(a, c, n) => LinesSoFar(a \o d, c, n)
  <1>1. Len(a) \in Nat
    BY LenProperties
  <1>2. \A i \in 1 .. n : i \in 1 .. Len(a)
    BY <1>1
  <1>3. \A i \in 1 .. n : /\ EolAt(a \o d, i) <=> EolAt(a, i)
                          /\ EndsLikeEol(a \o d, i) <=> EndsLikeEol(a, i)
    BY <1>2, EolKept
  <1> QED
    BY <1>3, Zenon DEF NoEolBefore, LinesSoFar

\* What the comparison at the end of the bytes read can find.
LEMMA Compared ==
    ASSUME NEW b \in Seq(1 .. MaxRx), NEW e \in MayBeEol(b)
    PROVE  /\ e \in BOOLEAN
           /\ e => EndsLikeEol(b, Len(b))
           /\ ~e => ~EolAt(b, Len(b))
  BY Zenon DEF MayBeEol

\* A thread that a step leaves alone knows as much as before.
LEMMA CallSoundKept ==
    ASSUME NEW t \in Thread, CallSound(t),
           pc'[t] = pc[t], call'[t] = call[t], buf'[t] = buf[t], got'[t] = got[t],
           cuts'[t] = cuts[t], first'[t] = first[t], left'[t] = left[t],
           nap'[t] = nap[t], res'[t] = res[t]
    PROVE  CallSound(t)'
  BY DEF CallSound, ReadSoFar, Before, Want, FirstIsFirst, WaitEndsInTime, LateWrite,
     ByteSleep, NoInterval, ShortIsLate,
     ReturnsOk, LineEnds, LinesWhole, NoEolBefore, LinesSoFar, EolAt, EndsLikeEol, LastCut

\* What one thread has, from the invariant.
LEMMA Mine ==
    ASSUME IInv, NEW t \in Thread
    PROVE  /\ got[t] \in Nat /\ left[t] \in Int /\ nap[t] \in Nat
           /\ buf[t] \in Seq(1 .. MaxRx) /\ Len(buf[t]) \in Nat
           /\ cuts[t] \in Seq(Nat) /\ Len(cuts[t]) \in Nat
           /\ pc[t] # "idle" => call[t] \in Call /\ call[t].size \in Nat \ {0}
           /\ pc[t] # "idle" => Want(t) \in Nat \ {0}
           /\ pc[t] \in InRead => call[t].op \in Reading
           /\ pc[t] \notin InRead \cup {"return"} => buf[t] = <<>>
  <1>1. /\ got[t] \in Nat /\ left[t] \in Int /\ nap[t] \in Nat
        /\ buf[t] \in Seq(1 .. MaxRx) /\ cuts[t] \in Seq(Nat)
    BY DEF IInv, TypeOK
  <1>2. Len(buf[t]) \in Nat /\ Len(cuts[t]) \in Nat
    BY <1>1, LenProperties
  <1>3. pc[t] # "idle" => call[t] \in Call
    BY DEF IInv, CallFits
  <1>4. pc[t] # "idle" => call[t].size \in Nat \ {0}
    BY <1>3 DEF Call
  <1>5. pc[t] # "idle" => Want(t) \in Nat \ {0}
    BY <1>4 DEF Want
  <1>6. pc[t] \in InRead => call[t].op \in Reading
    BY DEF IInv, CallFits
  <1>7. pc[t] \notin InRead \cup {"return"} => buf[t] = <<>>
    BY DEF IInv, RunOfStream, HoldsRead, CallFits, Reading, ReadOps, BothOps
  <1> QED
    BY <1>1, <1>2, <1>3, <1>4, <1>5, <1>6, <1>7

\* Outside of the reading calls nothing is said but that no line is under way.
LEMMA Elsewhere ==
    ASSUME NEW t \in Thread, pc'[t] \notin InRead \cup {"return", "wloop", "wselect", "wblind"},
           cuts'[t] = <<>>
    PROVE  CallSound(t)'
  BY DEF CallSound, ReadSoFar, InRead, InLoop, FirstIsFirst, WaitEndsInTime, ShortIsLate,
     LineEnds, LinesWhole, ReturnsOk

\* A call that threw promises nothing.
LEMMA Thrown ==
    ASSUME NEW t \in Thread, pc'[t] = "return", res'[t] = "throw"
    PROVE  CallSound(t)'
  BY DEF CallSound, ReadSoFar, InRead, InLoop, FirstIsFirst, WaitEndsInTime, ShortIsLate,
     LineEnds, LinesWhole, ReturnsOk

\* A call that is no read has no lines.
LEMMA NoReader ==
    ASSUME NEW t \in Thread, pc'[t] = "return", call'[t].op \notin Reading
    PROVE  CallSound(t)'
  BY DEF CallSound, ReadSoFar, InRead, InLoop, FirstIsFirst, WaitEndsInTime, ShortIsLate,
     LineEnds, LinesWhole, ReturnsOk, Reading

\* A reading call begins with nothing.
LEMMA Fresh ==
    ASSUME NEW t \in Thread, pc'[t] = "enter", call'[t] \in Call, buf'[t] = <<>>, cuts'[t] = <<>>
    PROVE  CallSound(t)'
  <1>1. Len(buf'[t]) = 0 /\ Len(cuts'[t]) = 0 /\ call'[t].size \in Nat \ {0}
    BY EmptySeq, Zenon DEF Call
  <1>2. Before(t)' = 0
    BY <1>1 DEF Before, InLoop
  <1>3. ReadSoFar(t)'
    BY <1>1, <1>2 DEF ReadSoFar, InRead, InLoop, NoEolBefore, LinesSoFar
  <1> QED
    BY <1>3 DEF CallSound, FirstIsFirst, WaitEndsInTime, ShortIsLate, LineEnds,
       LinesWhole, ReturnsOk

\* The innermost read has taken n bytes of those it may take.
LEMMA BytesTaken ==
    ASSUME IInv, NEW t \in Thread, NEW n \in Nat, NEW g \in Nat, n <= seen - taken,
           pc[t] \in InRead, ReadSoFar(t), g + n <= Want(t),
           Before(t) = Len(buf[t]) - g,
           pc' = [pc EXCEPT ![t] = "loop"], UNCHANGED <<call, cuts>>,
           buf' = [buf EXCEPT ![t] = @ \o NextBytes(n)],
           got' = [got EXCEPT ![t] = g + n]
    PROVE  CallSound(t)'
  <1> DEFINE a == buf[t]
             d == NextBytes(n)
             m == Before(t)
  <1>1. /\ a \in Seq(1 .. MaxRx) /\ Len(a) \in Nat
        /\ d \in Seq(1 .. MaxRx) /\ Len(d) = n
    <2>1. TypeOK
      BY DEF IInv
    <2>2. a \in Seq(1 .. MaxRx) /\ Len(a) \in Nat
      BY Mine
    <2>3. d \in Seq(1 .. MaxRx) /\ Len(d) = n
      BY <2>1, NextBytesDef
    <2> QED
      BY <2>2, <2>3
  <1>2. Len(a \o d) = Len(a) + n
    <2>1. Len(a \o d) = Len(a) + Len(d)
      BY <1>1, ConcatProperties, Zenon
    <2> QED
      BY <2>1, <1>1
  <1>3. pc'[t] = "loop" /\ buf'[t] = a \o d /\ got'[t] = g + n /\ cuts'[t] = cuts[t]
    BY DEF IInv, TypeOK
  <1>4. m \in Nat /\ m <= Len(a)
    BY <1>1, Mine DEF ReadSoFar
  <1>5. Before(t)' = m
    <2>1. Before(t)' = Len(buf'[t]) - got'[t]
      BY <1>3 DEF Before, InLoop
    <2> QED
      BY <2>1, <1>1, <1>2, <1>3
  <1>6. /\ NoEolBefore(a, m) => NoEolBefore(a \o d, m)
        /\ LinesSoFar(a, cuts[t], m) => LinesSoFar(a \o d, cuts[t], m)
    BY <1>1, <1>4, SoFarKept
  <1>7. Want(t)' = Want(t)
    BY DEF Want
  <1>8. ReadSoFar(t)'
    <2>1. /\ m \in 0 .. call[t].size - 1
          /\ call[t].op = "read" => m = 0
          /\ call[t].op = "readline" => NoEolBefore(a, m)
          /\ call[t].op = "readlines" => LinesSoFar(a, cuts[t], m)
      BY DEF ReadSoFar
    <2>2. NoEolBefore(buf[t], Before(t))' <=> NoEolBefore(a \o d, m)
      BY <1>3, <1>5 DEF NoEolBefore, EolAt, EndsLikeEol
    <2>3. LinesSoFar(buf[t], cuts[t], Before(t))' <=> LinesSoFar(a \o d, cuts[t], m)
      <3>1. LinesSoFar(buf'[t], cuts'[t], Before(t)') <=> LinesSoFar(a \o d, cuts[t], m)
        BY <1>3, <1>5
      <3>2. LinesSoFar(buf[t], cuts[t], Before(t))'
              <=> LinesSoFar(buf'[t], cuts'[t], Before(t)')
        BY Zenon DEF LinesSoFar, EndsLikeEol
      <3> QED
        BY <3>1, <3>2, Zenon
    <2> HIDE DEF a, d, m
    <2> QED
      BY <2>1, <2>2, <2>3, <1>3, <1>5, <1>6, <1>7 DEF ReadSoFar, InLoop, InRead
  <1> QED
    BY <1>3, <1>8 DEF CallSound, FirstIsFirst, WaitEndsInTime, ShortIsLate, LineEnds,
       LinesWhole, ReturnsOk
-----------------------------------------------------------------------------
(* Every action keeps what the acting thread knows.                        *)

LEMMA BeginSound ==
    ASSUME IInv, NEW t \in Thread, CallSound(t), NEW c \in Calls[t], Begin(t, c)
    PROVE  CallSound(t)'
  <1>1. c.op \in Ops
    BY CallAssumption DEF Call
  <1>2. pc'[t] \in {"rlock", "wlock", "act"} /\ cuts'[t] = cuts[t]
    BY <1>1 DEF IInv, TypeOK, Begin, Goto, Ops
  <1>3. cuts[t] = <<>>
    BY DEF Begin, CallSound, ReadSoFar, InRead
  <1> QED
    BY <1>2, <1>3, Elsewhere DEF InRead, InLoop, CallSound, ReadSoFar, FirstIsFirst,
       WaitEndsInTime, ShortIsLate, LineEnds, LinesWhole, ReturnsOk

LEMMA LockSound ==
    ASSUME IInv, NEW t \in Thread, CallSound(t), ReadLock(t) \/ WriteLock(t)
    PROVE  CallSound(t)'
  <1>1. /\ pc'[t] \in {"wlock", "act", "wenter", "enter"} /\ call' = call
        /\ cuts'[t] = cuts[t] /\ buf'[t] = buf[t]
        /\ pc[t] \in {"rlock", "wlock"}
    BY DEF IInv, TypeOK, ReadLock, WriteLock, Goto
  <1>2. cuts[t] = <<>> /\ buf[t] = <<>> /\ call[t] \in Call
    BY <1>1, Mine DEF CallSound, ReadSoFar, InRead
  <1>3. CASE pc'[t] = "enter"
    BY <1>1, <1>2, <1>3, Fresh
  <1>4. CASE pc'[t] # "enter"
    <2>1. pc'[t] \notin InRead \cup {"return", "wloop", "wselect", "wblind"}
      BY <1>1, <1>4 DEF InRead
    <2> QED
      BY <2>1, <1>1, <1>2, Elsewhere
  <1> QED
    BY <1>3, <1>4

LEMMA ReturnSound ==
    ASSUME IInv, NEW t \in Thread, Return(t)
    PROVE  CallSound(t)'
  <1>1. pc'[t] = "idle" /\ cuts'[t] = <<>>
    BY DEF IInv, TypeOK, Return, Goto
  <1> QED
    BY <1>1, Elsewhere DEF InRead

\* The first bytes are those that were there.
LEMMA ReadEnterSound ==
    ASSUME IInv, NEW t \in Thread, CallSound(t), ReadEnter(t)
    PROVE  CallSound(t)'
  <1>1. CASE ~isOpen
    <2>1. pc'[t] = "return" /\ res'[t] = "throw"
      BY <1>1 DEF IInv, TypeOK, ReadEnter, Finish, Goto
    <2> QED
      BY <2>1, Thrown
  <1>2. CASE isOpen
    <2> DEFINE n == IF gone THEN 0 ELSE Min2(Want(t), seen - taken)
    <2>1. Want(t) \in Nat \ {0} /\ seen - taken \in Nat
      BY Mine, StreamAssumption DEF ReadEnter, IInv, TypeOK
    <2>2. n \in Nat /\ n <= seen - taken /\ n <= Want(t)
      BY <2>1 DEF Min2
    <2>3. /\ pc' = [pc EXCEPT ![t] = "loop"] /\ UNCHANGED <<call, cuts>>
          /\ buf' = [buf EXCEPT ![t] = @ \o NextBytes(n)]
          /\ got' = [got EXCEPT ![t] = n]
      BY <1>2 DEF ReadEnter, Goto
    <2>4. pc[t] \in InRead /\ ReadSoFar(t)
      BY DEF ReadEnter, InRead, CallSound
    <2>5. Before(t) = Len(buf[t]) - 0
      BY Mine DEF Before, ReadEnter, InLoop
    <2>6. 0 + n = n /\ n <= Want(t)
      BY <2>2
    <2> HIDE DEF n
    <2>7. got' = [got EXCEPT ![t] = 0 + n] /\ 0 + n <= Want(t) /\ 0 \in Nat
      BY <2>3, <2>6
    <2> QED
      BY <2>2, <2>3, <2>4, <2>5, <2>7, BytesTaken
  <1> QED
    BY <1>1, <1>2

\* Where only the place in the loop and the wait change.
LEMMA WaitSound ==
    ASSUME IInv, NEW t \in Thread, CallSound(t),
           pc[t] \in InLoop, NEW l \in InLoop, pc' = [pc EXCEPT ![t] = l],
           l # "loop" => got[t] < Want(t),
           nap'[t] = 0 \/ nap'[t] <= left'[t] \/ ByteSleep(t)', nap'[t] \in Nat,
           UNCHANGED <<call, buf, got, cuts, first, left, res>>
    PROVE  CallSound(t)'
  <1>1. pc'[t] = l
    BY DEF IInv, TypeOK
  <1>2. left'[t] \in Int
    BY Mine
  <1>3. Before(t)' = Before(t)
    BY <1>1 DEF Before
  <1>4. ReadSoFar(t)'
    BY <1>1, <1>3 DEF CallSound, ReadSoFar, Want, InLoop, InRead, NoEolBefore, LinesSoFar,
       EolAt, EndsLikeEol
  <1>5. WaitEndsInTime(t)'
    BY <1>1, <1>2 DEF WaitEndsInTime, InLoop
  <1> QED
    BY <1>1, <1>4, <1>5 DEF CallSound, InLoop, FirstIsFirst, ShortIsLate, LineEnds,
       LinesWhole, ReturnsOk

\* A wait lasts for what is left at most.
LEMMA ReadWaitSound ==
    ASSUME IInv, NEW t \in Thread, CallSound(t), ReadWait(t)
    PROVE  CallSound(t)'
  <1> DEFINE w == WaitTicks(Remaining(left[t]))
             v == WaitTicks(call[t].interval)
             l == IF isOpen THEN "select" ELSE "blind"
  <1>1. Remaining(left[t]) > 0 /\ Remaining(left[t]) \in Int /\ left[t] \in Int
    BY Mine, Times DEF ReadWait
  <1>2. w <= left[t] \/ w = 0
    BY <1>1, WaitFits
  <1>3. call[t].interval \in Int
    BY Mine, ClockAssumption DEF ReadWait, Call
  <1>4. w \in Nat /\ v \in Nat
    BY <1>1, <1>3, Times
  <1>5. /\ nap' = [nap EXCEPT ![t] = Min2(w, v)]
        /\ pc[t] \in InLoop /\ l \in InLoop
        /\ pc' = [pc EXCEPT ![t] = l] /\ got[t] < Want(t)
        /\ UNCHANGED <<call, buf, got, cuts, first, left, res>>
    BY DEF ReadWait, Goto, InLoop
  <1>6. nap'[t] = Min2(w, v)
    BY <1>5 DEF IInv, TypeOK
  <1> HIDE DEF w, v, l
  <1>7. nap'[t] \in Nat /\ (nap'[t] = 0 \/ nap'[t] <= left'[t])
    BY <1>1, <1>2, <1>4, <1>5, <1>6 DEF Min2
  <1> QED
    BY <1>5, <1>7, WaitSound

\* A signal or the end of a wait: back to the loop.
LEMMA BackSound ==
    ASSUME IInv, NEW t \in Thread, CallSound(t), SelectInterrupted(t) \/ SelectTimedOut(t)
    PROVE  CallSound(t)'
  <1>1. pc[t] \in {"select", "blind"} /\ BackToLoop(t)
    BY DEF SelectInterrupted, SelectTimedOut
  <1>2. nap'[t] = 0
    BY <1>1 DEF IInv, TypeOK, BackToLoop
  <1>3. /\ pc[t] \in InLoop /\ pc' = [pc EXCEPT ![t] = "loop"]
        /\ "loop" \in InLoop
        /\ UNCHANGED <<call, buf, got, cuts, first, left, res>>
    BY <1>1 DEF BackToLoop, Goto, InLoop
  <1>4. nap'[t] \in Nat
    BY <1>2
  <1> QED
    BY <1>2, <1>3, <1>4, WaitSound, Zenon

LEMMA SelectPatientSound ==
    ASSUME IInv, NEW t \in Thread, CallSound(t), SelectPatient(t)
    PROVE  CallSound(t)'
  <1>1. /\ pc[t] \in InLoop \ {"loop"} /\ "nap" \in InLoop
        /\ pc' = [pc EXCEPT ![t] = "nap"]
        /\ UNCHANGED <<call, buf, got, cuts, first, left, res>>
    BY DEF SelectPatient, Goto, InLoop
  <1>2. got[t] < Want(t)
    BY <1>1 DEF CallSound, ReadSoFar
  <1> DEFINE n == Want(t) - (Available + got[t])
  <1>3. n \in Nat /\ Want(t) \in Nat
    <2>1. Want(t) \in Nat /\ got[t] \in Nat
      BY Mine DEF SelectPatient
    <2>2. Available \in Nat
      BY StreamAssumption DEF IInv, TypeOK, Available
    <2> QED
      BY <2>1, <2>2 DEF SelectPatient, Patient
  <1>4. nap'[t] = ByteWait(n)
    BY DEF SelectPatient, IInv, TypeOK
  <1>5. nap'[t] \in Nat
    BY <1>3, <1>4, Times
  <1>6. ASSUME nap'[t] # 0
        PROVE  ByteSleep(t)'
    <2> DEFINE m == Want(t) - got[t]
    <2>1. nap'[t] = ByteTicks * n /\ ByteTicks * n < SecondTicks
      BY <1>4, <1>6 DEF ByteWait
    <2>2. m \in Nat /\ n <= m
      <3>1. got[t] \in Nat /\ Available \in Nat
        BY Mine, StreamAssumption DEF IInv, TypeOK, Available
      <3> QED
        BY <3>1, <1>2, <1>3
    <2>3. ByteTicks * n <= ByteTicks * m
      BY <2>2, <1>3, TimesMonotone, ClockAssumption
    <2>4. pc'[t] = "nap" /\ Want(t) > 1 /\ NoInterval(t)
      BY DEF SelectPatient, Patient, Goto, IInv, TypeOK
    <2>5. Want(t)' = Want(t) /\ NoInterval(t)' = NoInterval(t) /\ got'[t] = got[t]
      BY <1>1 DEF Want, NoInterval
    <2> HIDE DEF n
    <2> QED
      BY <2>1, <2>3, <2>4, <2>5 DEF ByteSleep
  <1> HIDE DEF n
  <1> QED
    BY <1>1, <1>2, <1>5, <1>6, WaitSound

\* The bytes of a read continue those it has.
LEMMA TakeSound ==
    ASSUME IInv, NEW t \in Thread, CallSound(t), Take(t)
    PROVE  CallSound(t)'
  <1> DEFINE n == IF gone \/ ~isOpen THEN 0 ELSE Min2(Want(t) - got[t], seen - taken)
  <1>1. pc[t] \in InLoop \ {"loop"} /\ pc[t] \in InRead /\ pc[t] # "idle"
    BY DEF Take, InLoop, InRead
  <1>2. got[t] < Want(t) /\ ReadSoFar(t)
    BY <1>1 DEF CallSound, ReadSoFar
  <1>3. got[t] \in Nat /\ Want(t) \in Nat /\ seen - taken \in Nat
    BY <1>1, Mine, StreamAssumption DEF IInv, TypeOK
  <1>4. n \in Nat /\ n <= seen - taken /\ got[t] + n <= Want(t)
    BY <1>2, <1>3 DEF Min2
  <1>5. \/ pc'[t] = "return" /\ res'[t] = "throw"
        \/ /\ pc' = [pc EXCEPT ![t] = "loop"] /\ UNCHANGED <<call, cuts>>
           /\ buf' = [buf EXCEPT ![t] = @ \o NextBytes(n)]
           /\ got' = [got EXCEPT ![t] = got[t] + n]
    BY DEF IInv, TypeOK, Take, Finish, Goto
  <1>6. Before(t) = Len(buf[t]) - got[t]
    BY <1>1 DEF Before
  <1> HIDE DEF n
  <1> QED
    BY <1>1, <1>2, <1>3, <1>4, <1>5, <1>6, Thrown, BytesTaken

\* read returns with its bytes or without time.
LEMMA ReadEndSound ==
    ASSUME IInv, NEW t \in Thread, CallSound(t), ReadEnd(t)
    PROVE  CallSound(t)'
  <1>1. /\ pc'[t] = "return" /\ call' = call /\ buf' = buf /\ got' = got /\ left' = left
        /\ call[t].op = "read" /\ pc[t] = "loop"
    BY DEF IInv, TypeOK, ReadEnd, Finish, Goto, ReadOver
  <1>2. Want(t) = call[t].size
    BY <1>1 DEF Want
  <1>3. Len(buf[t]) = got[t]
    <2>1. Before(t) = 0
      BY <1>1 DEF CallSound, ReadSoFar, InRead
    <2> QED
      BY <2>1, <1>1, Mine DEF Before, InLoop
  <1>4. Len(buf[t]) < call[t].size => left[t] < Res
    <2>1. Want(t) \in Nat /\ got[t] \in Nat /\ left[t] \in Int
      BY <1>1, Mine
    <2>2. got[t] >= Want(t) \/ Remaining(left[t]) <= 0
      BY DEF ReadEnd, ReadOver
    <2> QED
      BY <2>1, <2>2, <1>2, <1>3, NoneLeft
  <1> QED
    BY <1>1, <1>4 DEF CallSound, ReadSoFar, InRead, InLoop, FirstIsFirst, WaitEndsInTime,
       ShortIsLate, LineEnds, LinesWhole, ReturnsOk

\* readline goes on, or ends at the byte read last.
LEMMA LineEndSound ==
    ASSUME IInv, NEW t \in Thread, CallSound(t), LineEnd(t)
    PROVE  CallSound(t)'
  <1> DEFINE b == buf[t]
             s == call[t].size
  <1>1. /\ UNCHANGED <<call, buf, got, cuts, first, left, nap>>
        /\ call[t].op = "readline" /\ pc[t] = "loop"
    BY DEF LineEnd, ReadOver
  <1>2. /\ b \in Seq(1 .. MaxRx) /\ Len(b) \in Nat /\ s \in Nat \ {0}
        /\ Want(t) = 1 /\ got[t] \in Nat /\ left[t] \in Int
    BY <1>1, Mine DEF Want
  <1>3. /\ Before(t) = Len(b) - got[t] /\ Before(t) \in 0 .. s - 1
        /\ NoEolBefore(b, Before(t))
    BY <1>1 DEF CallSound, ReadSoFar, Before, InRead, InLoop
  <1>4. ASSUME pc'[t] = "return", res'[t] = "ok", Len(b) <= s, NoEolBefore(b, Len(b) - 1),
               \/ EndsLikeEol(b, Len(b)) \/ Len(b) = s
               \/ got[t] = 0 /\ left[t] < Res
        PROVE  CallSound(t)'
    <2>1. NoEolBefore(b, Len(b) - 1)' /\ (EndsLikeEol(b, Len(b))' <=> EndsLikeEol(b, Len(b)))
      BY <1>1, <1>4 DEF NoEolBefore, EolAt, EndsLikeEol
    <2> QED
      BY <1>1, <1>4, <2>1 DEF CallSound, ReadSoFar, InRead, InLoop, FirstIsFirst,
         WaitEndsInTime, ShortIsLate, LineEnds, LinesWhole, ReturnsOk
  <1>5. ASSUME got[t] = 0, Finish(t, "ok")
        PROVE  CallSound(t)'
    <2>1. pc'[t] = "return" /\ res'[t] = "ok"
      BY <1>5 DEF IInv, TypeOK, Finish, Goto
    <2>2. Len(b) <= s /\ left[t] < Res
      BY <1>2, <1>3, <1>5, NoneLeft DEF LineEnd, ReadOver
    <2>3. NoEolBefore(b, Len(b) - 1)
      BY <1>2, <1>3, <1>5 DEF NoEolBefore
    <2> QED
      BY <2>1, <2>2, <2>3, <1>4, <1>5
  <1>6. ASSUME got[t] = 1, NEW e \in MayBeEol(b), e \/ Len(b) = s, Finish(t, "ok")
        PROVE  CallSound(t)'
    <2>1. pc'[t] = "return" /\ res'[t] = "ok"
      BY <1>6 DEF IInv, TypeOK, Finish, Goto
    <2>2. Len(b) <= s /\ Before(t) = Len(b) - 1
      BY <1>2, <1>3, <1>6
    <2>3. NoEolBefore(b, Len(b) - 1)
      BY <2>2, <1>3
    <2>4. EndsLikeEol(b, Len(b)) \/ Len(b) = s
      BY <1>2, <1>6, Compared
    <2> QED
      BY <2>1, <2>2, <2>3, <2>4, <1>4
  <1>7. ASSUME got[t] = 1, NEW e \in MayBeEol(b), ~(e \/ Len(b) = s), Goto(t, "enter")
        PROVE  CallSound(t)'
    <2>1. pc'[t] = "enter"
      BY <1>7 DEF IInv, TypeOK, Goto
    <2>2. Before(t)' = Len(b)
      BY <2>1, <1>1 DEF Before, InLoop
    <2>3. Len(b) \in 0 .. s - 1 /\ Before(t) = Len(b) - 1
      BY <1>2, <1>3, <1>7
    <2>4. ~EolAt(b, Len(b))
      BY <1>2, <1>7, Compared
    <2>5. NoEolBefore(b, Len(b))
      <3>1. \A i \in 1 .. Len(b) : i \in 1 .. Len(b) - 1 \/ i = Len(b)
        BY <1>2
      <3> QED
        BY <3>1, <2>3, <2>4, <1>3 DEF NoEolBefore
    <2>6. NoEolBefore(buf[t], Before(t))'
      BY <2>2, <2>5, <1>1 DEF NoEolBefore, EolAt, EndsLikeEol
    <2> HIDE DEF b
    <2>7. ReadSoFar(t)'
      BY <2>1, <2>2, <2>3, <2>6, <1>1 DEF ReadSoFar, InRead, InLoop
    <2> QED
      BY <2>1, <2>7 DEF CallSound, FirstIsFirst, WaitEndsInTime, ShortIsLate, LineEnds,
         LinesWhole, ReturnsOk
  <1>8. \/ got[t] = 0 /\ Finish(t, "ok")
        \/ /\ got[t] = 1
           /\ \E e \in MayBeEol(b) :
                 \/ (e \/ Len(b) = s) /\ Finish(t, "ok")
                 \/ ~(e \/ Len(b) = s) /\ Goto(t, "enter")
    BY Zenon DEF LineEnd
  <1> QED
    BY <1>5, <1>6, <1>7, <1>8

\* What readlines hands over when it ends.
LEMMA LinesDone ==
    ASSUME NEW b \in Seq(1 .. MaxRx), NEW c \in Seq(Nat), NEW n \in Nat, n <= Len(b),
           LinesSoFar(b, c, n)
    PROVE  LET k == Cut(c, Len(b))
           IN  /\ LastCut(k) = Len(b)
               /\ \A i \in 1 .. Len(k) - 1 :
                     /\ k[i] < k[i + 1]
                     /\ EndsLikeEol(b, k[i])
  <1> DEFINE l == Len(c)
             m == Len(b)
             k == Cut(c, m)
  <1>1. l \in Nat /\ m \in Nat /\ (l = 0 <=> c = <<>>)
    BY LenProperties, EmptySeq
  <1>2. \A i \in 1 .. l : c[i] \in 1 .. n
    BY DEF LinesSoFar
  <1>3. \A i \in 1 .. l - 1 : c[i] < c[i + 1] /\ EndsLikeEol(b, c[i])
    BY <1>1 DEF LinesSoFar
  <1>4. CASE LastCut(c) = m
    BY <1>3, <1>4 DEF Cut
  <1>5. CASE LastCut(c) # m
    <2>1. k = Append(c, m)
      BY <1>5 DEF Cut
    <2>2. /\ Len(k) = l + 1 /\ k[l + 1] = m
          /\ \A i \in 1 .. l : k[i] = c[i]
      BY <2>1, <1>1, AppendProperties
    <2>3. k # <<>> /\ LastCut(k) = m
      <3>1. k \in Seq(Nat)
        BY <2>1, <1>1, AppendProperties
      <3>2. k # <<>>
        BY <3>1, <2>2, <1>1, EmptySeq
      <3> QED
        BY <3>2, <2>2 DEF LastCut
    <2>4. l > 0 => c[l] <= m /\ c[l] # m
      BY <1>1, <1>2, <1>5 DEF LastCut
    <2>5. ASSUME NEW i \in 1 .. l
          PROVE  k[i] < k[i + 1] /\ EndsLikeEol(b, k[i])
      <3>1. CASE i < l
        <4>1. i \in 1 .. l - 1 /\ i + 1 \in 1 .. l
          BY <3>1, <1>1
        <4>2. k[i] = c[i] /\ k[i + 1] = c[i + 1]
          BY <4>1, <2>2
        <4> QED
          BY <4>1, <4>2, <1>3
      <3>2. CASE i = l
        <4>1. k[i] = c[l] /\ k[i + 1] = m /\ l > 0
          BY <3>2, <2>2, <1>1
        <4>2. EndsLikeEol(b, c[l])
          BY <4>1, <1>1 DEF LinesSoFar
        <4>3. c[l] \in Int
          BY <4>1, <1>1, <1>2
        <4> QED
          BY <4>1, <4>2, <4>3, <2>4, <1>1
      <3> QED
        BY <3>1, <3>2, <1>1
    <2> HIDE DEF k
    <2>6. \A i \in 1 .. Len(k) - 1 : i \in 1 .. l
      BY <2>2, <1>1
    <2> QED
      BY <2>3, <2>5, <2>6 DEF k
  <1> QED
    BY <1>4, <1>5

\* A delimiter at the byte read last ends a line there.
LEMMA LineFound ==
    ASSUME NEW b \in Seq(1 .. MaxRx), NEW c \in Seq(Nat), Len(b) > 0,
           LinesSoFar(b, c, Len(b) - 1), EndsLikeEol(b, Len(b))
    PROVE  LinesSoFar(b, Append(c, Len(b)), Len(b))
  <1> DEFINE l == Len(c)
             m == Len(b)
             k == Append(c, m)
  <1>1. l \in Nat /\ m \in Nat
    BY LenProperties
  <1>2. /\ Len(k) = l + 1 /\ k[l + 1] = m
        /\ \A i \in 1 .. l : k[i] = c[i]
    BY <1>1, AppendProperties
  <1>3. \A i \in 1 .. l : c[i] \in 1 .. m - 1
    BY DEF LinesSoFar
  <1>4. \A i \in 1 .. l : i < l => c[i] < c[i + 1]
    BY DEF LinesSoFar
  <1>5. \A i \in 1 .. l : EndsLikeEol(b, c[i])
    BY DEF LinesSoFar
  <1>6. ASSUME NEW i \in 1 .. l + 1
        PROVE  /\ k[i] \in 1 .. m
               /\ EndsLikeEol(b, k[i])
               /\ i < l + 1 => k[i] < k[i + 1]
    <2>1. CASE i = l + 1
      BY <2>1, <1>1, <1>2
    <2>2. CASE i = l
      <3>1. k[i] = c[i] /\ k[i + 1] = m /\ i \in 1 .. l
        BY <2>2, <1>1, <1>2
      <3>2. c[i] \in 1 .. m - 1
        BY <3>1, <1>3
      <3> QED
        BY <3>1, <3>2, <1>1, <1>5
    <2>3. CASE i < l
      <3>1. k[i] = c[i] /\ k[i + 1] = c[i + 1] /\ i \in 1 .. l
        BY <2>3, <1>1, <1>2
      <3>2. c[i] \in 1 .. m - 1
        BY <3>1, <1>3
      <3> QED
        BY <3>1, <3>2, <2>3, <1>1, <1>4, <1>5
    <2> QED
      BY <2>1, <2>2, <2>3, <1>1
  <1> HIDE DEF k
  <1>7. LinesSoFar(b, k, m)
    BY <1>2, <1>6 DEF LinesSoFar
  <1> QED
    BY <1>7 DEF k

\* readlines goes on, or cuts off the last line.
LEMMA LinesEndSound ==
    ASSUME IInv, NEW t \in Thread, CallSound(t), LinesEnd(t)
    PROVE  CallSound(t)'
  <1> DEFINE b == buf[t]
             c == cuts[t]
             s == call[t].size
             n == Before(t)
  <1>1. /\ UNCHANGED <<call, buf, got, first, left, nap>>
        /\ call[t].op = "readlines" /\ pc[t] = "loop"
    BY DEF LinesEnd, ReadOver
  <1>2. /\ b \in Seq(1 .. MaxRx) /\ Len(b) \in Nat /\ s \in Nat \ {0}
        /\ c \in Seq(Nat) /\ got[t] \in Nat
    BY <1>1, Mine
  <1>3. n = Len(b) - got[t] /\ n \in 0 .. s - 1 /\ LinesSoFar(b, c, n)
    BY <1>1 DEF CallSound, ReadSoFar, Before, InRead, InLoop
  <1>4. ASSUME cuts' = [cuts EXCEPT ![t] = Cut(@, Len(b))], Finish(t, "ok")
        PROVE  CallSound(t)'
    <2>1. pc'[t] = "return" /\ cuts'[t] = Cut(c, Len(b))
      BY <1>4 DEF IInv, TypeOK, Finish, Goto
    <2>2. n \in Nat /\ n <= Len(b)
      BY <1>2, <1>3
    <2> DEFINE k == Cut(c, Len(b))
    <2>3. /\ LastCut(k) = Len(b)
          /\ \A i \in 1 .. Len(k) - 1 :
                k[i] < k[i + 1] /\ EndsLikeEol(b, k[i])
      BY <2>2, <1>2, <1>3, LinesDone
    <2> HIDE DEF k
    <2>4. cuts'[t] = k /\ buf' = buf
      BY <2>1, <1>1 DEF k
    <2>5. LinesWhole(t)'
      BY <2>3, <2>4 DEF LinesWhole, LastCut, EndsLikeEol
    <2> QED
      BY <2>1, <2>5, <1>1 DEF CallSound, ReadSoFar, InRead, InLoop, FirstIsFirst,
         WaitEndsInTime, ShortIsLate, LineEnds, ReturnsOk
  <1>5. ASSUME got[t] = 1, NEW e \in MayBeEol(b), Len(b) # s, Goto(t, "enter"),
               cuts' = [cuts EXCEPT ![t] = IF e THEN Append(@, Len(b)) ELSE @]
        PROVE  CallSound(t)'
    <2>1. pc'[t] = "enter" /\ cuts'[t] = IF e THEN Append(c, Len(b)) ELSE c
      BY <1>5 DEF IInv, TypeOK, Goto
    <2>2. Before(t)' = Len(b)
      BY <2>1, <1>1 DEF Before, InLoop
    <2>3. Len(b) \in 0 .. s - 1 /\ n = Len(b) - 1 /\ Len(b) > 0
      BY <1>2, <1>3, <1>5
    <2>4. LinesSoFar(b, cuts'[t], Len(b))
      <3>1. CASE e
        <4>1. EndsLikeEol(b, Len(b))
          BY <3>1, <1>2, <1>5, Compared
        <4> QED
          BY <4>1, <3>1, <2>1, <2>3, <1>2, <1>3, LineFound
      <3>2. CASE ~e
        <4>1. \A i : i \in 1 .. Len(b) - 1 => i \in 1 .. Len(b)
          BY <1>2
        <4> QED
          BY <4>1, <3>2, <2>1, <2>3, <1>3 DEF LinesSoFar
      <3> QED
        BY <3>1, <3>2
    <2>5. LinesSoFar(buf[t], cuts[t], Before(t))'
      BY <2>2, <2>4, <1>1 DEF LinesSoFar, EndsLikeEol
    <2> HIDE DEF b, c, n
    <2>6. ReadSoFar(t)'
      BY <2>1, <2>2, <2>3, <2>5, <1>1 DEF ReadSoFar, InRead, InLoop
    <2> QED
      BY <2>1, <2>6 DEF CallSound, FirstIsFirst, WaitEndsInTime, ShortIsLate, LineEnds,
         LinesWhole, ReturnsOk
  <1>6. \/ cuts' = [cuts EXCEPT ![t] = Cut(@, Len(b))] /\ Finish(t, "ok")
        \/ /\ got[t] = 1 /\ Len(b) # s /\ Goto(t, "enter")
           /\ \E e \in MayBeEol(b) :
                 cuts' = [cuts EXCEPT ![t] = IF e THEN Append(@, Len(b)) ELSE @]
    BY Zenon DEF LinesEnd
  <1> QED
    BY <1>4, <1>5, <1>6

\* Where a writer may be: nothing of it is about reading.
LEMMA WriterSound ==
    ASSUME NEW t \in Thread, pc'[t] \in {"wloop", "wselect", "wblind"}, cuts'[t] = <<>>,
           FirstIsFirst(t)', WaitEndsInTime(t)'
    PROVE  CallSound(t)'
  BY DEF CallSound, ReadSoFar, InRead, InLoop, ShortIsLate, LineEnds, LinesWhole, ReturnsOk

\* What a writer has, and that its call is a write.
LEMMA Writer ==
    ASSUME IInv, NEW t \in Thread, CallSound(t), pc[t] \in InWrite
    PROVE  cuts[t] = <<>> /\ call[t].op = "write" /\ call[t].op \notin Reading
  BY DEF IInv, CallFits, InWrite, CallSound, ReadSoFar, InRead, Reading

LEMMA WriteEnterSound ==
    ASSUME IInv, NEW t \in Thread, CallSound(t), WriteEnter(t)
    PROVE  CallSound(t)'
  <1>1. cuts'[t] = <<>>
    BY Writer DEF WriteEnter, InWrite
  <1>2. \/ pc'[t] = "return" /\ res'[t] = "throw"
        \/ pc'[t] = "wloop" /\ got'[t] = 0
    BY DEF IInv, TypeOK, WriteEnter, Finish, Goto
  <1>3. CASE pc'[t] = "return" /\ res'[t] = "throw"
    BY <1>3, Thrown
  <1>4. CASE pc'[t] = "wloop" /\ got'[t] = 0
    BY <1>1, <1>4, WriterSound DEF FirstIsFirst, WaitEndsInTime
  <1> QED
    BY <1>2, <1>3, <1>4

\* The first wait is the only one that may be set after the deadline.
LEMMA WriteLoopSound ==
    ASSUME IInv, NEW t \in Thread, CallSound(t), WriteLoop(t)
    PROVE  CallSound(t)'
  <1>1. cuts'[t] = <<>> /\ call'[t].op \notin Reading /\ left'[t] = left[t] /\ got'[t] = got[t]
    BY Writer DEF WriteLoop, InWrite
  <1>2. CASE WriteOver(t)
    <2>1. pc'[t] = "return"
      BY <1>2 DEF IInv, TypeOK, WriteLoop, Finish, Goto
    <2> QED
      BY <2>1, <1>1, NoReader
  <1>3. CASE ~WriteOver(t)
    <2> DEFINE w == WaitTicks(Remaining(left[t]))
    <2>1. pc'[t] \in {"wselect", "wblind"} /\ nap'[t] = w
      BY <1>3 DEF IInv, TypeOK, WriteLoop, Goto
    <2>2. left[t] \in Int /\ Remaining(left[t]) \in Int /\ w \in Nat
      BY Mine, Times
    <2>3. ASSUME w > 0, w > left[t]
          PROVE  got[t] = 0 /\ left[t] < 0
      <3>1. Remaining(left[t]) < 0
        BY <2>2, <2>3, WaitFits
      <3>2. first[t]
        BY <2>2, <3>1, <1>3 DEF WriteOver
      <3>3. got[t] = 0
        BY <3>2 DEF CallSound, FirstIsFirst, WriteLoop
      <3>4. left[t] < 0
        <4> SUFFICES ASSUME left[t] >= 0 PROVE FALSE
          BY <2>2
        <4>1. Remaining(left[t]) = left[t] \div Res
          BY DEF Remaining
        <4>2. left[t] \div Res >= 0
          BY <2>2, ClockAssumption
        <4> QED
          BY <3>1, <4>1, <4>2, <2>2
      <3> QED
        BY <3>3, <3>4
    <2> HIDE DEF w
    <2>4. WaitEndsInTime(t)'
      BY <2>1, <2>3, <1>1 DEF WaitEndsInTime, LateWrite
    <2>5. FirstIsFirst(t)'
      <3>1. first' = [first EXCEPT ![t] = FALSE]
        BY <1>3 DEF WriteLoop
      <3>2. ~first'[t]
        BY <3>1, Zenon DEF IInv, TypeOK
      <3> QED
        BY <2>1, <3>2 DEF FirstIsFirst
    <2> QED
      BY <2>1, <2>4, <2>5, <1>1, WriterSound
  <1> QED
    BY <1>2, <1>3

\* A signal ends the wait: the write asks how much time is left.
LEMMA WriteInterruptedSound ==
    ASSUME IInv, NEW t \in Thread, CallSound(t), WriteInterrupted(t)
    PROVE  CallSound(t)'
  <1>1. cuts'[t] = <<>> /\ pc'[t] = "wloop"
    BY Writer DEF WriteInterrupted, InWrite, IInv, TypeOK, Goto
  <1>2. ~first'[t]
    BY DEF WriteInterrupted, CallSound, FirstIsFirst
  <1> QED
    BY <1>1, <1>2, WriterSound DEF FirstIsFirst, WaitEndsInTime

LEMMA WriteTimedOutSound ==
    ASSUME IInv, NEW t \in Thread, CallSound(t), WriteTimedOut(t)
    PROVE  CallSound(t)'
  <1>1. pc'[t] = "return" /\ call' = call
    BY DEF IInv, TypeOK, WriteTimedOut, Finish, Goto
  <1>2. call[t].op \notin Reading
    BY Writer DEF WriteTimedOut, InWrite
  <1> QED
    BY <1>1, <1>2, NoReader

\* After the first bytes it is no longer the first time.
LEMMA PutSound ==
    ASSUME IInv, NEW t \in Thread, CallSound(t), Put(t)
    PROVE  CallSound(t)'
  <1>1. cuts'[t] = <<>> /\ first' = first /\ pc[t] = "wselect"
    BY Writer DEF Put, InWrite
  <1>2. \/ pc'[t] = "return" /\ res'[t] = "throw"
        \/ pc'[t] = "wloop"
    BY DEF IInv, TypeOK, Put, Finish, Goto
  <1>3. CASE pc'[t] = "return" /\ res'[t] = "throw"
    BY <1>3, Thrown
  <1>4. CASE pc'[t] = "wloop"
    <2>1. ~first'[t]
      BY <1>1 DEF CallSound, FirstIsFirst
    <2> QED
      BY <2>1, <1>1, <1>4, WriterSound DEF FirstIsFirst, WaitEndsInTime
  <1> QED
    BY <1>2, <1>3, <1>4

\* The calls without a loop.
LEMMA ActSound ==
    ASSUME IInv, NEW t \in Thread,
           FlushInput(t) \/ FlushOutput(t) \/ Flush(t) \/ SetPort(t) \/ Close(t)
    PROVE  CallSound(t)'
  <1>1. pc[t] = "act" /\ call' = call /\ pc' = [pc EXCEPT ![t] = "return"]
    BY DEF FlushInput, FlushOutput, Flush, SetPort, Close, Finish, Goto
  <1>2. call[t].op \notin Reading
    BY <1>1 DEF IInv, CallFits
  <1>3. pc'[t] = "return"
    BY <1>1 DEF IInv, TypeOK
  <1> QED
    BY <1>1, <1>2, <1>3, NoReader

\* A wait and the time to its deadline grow shorter together.
LEMMA TickSound ==
    ASSUME IInv, NEW t \in Thread, CallSound(t), Tick
    PROVE  CallSound(t)'
  <1>1. UNCHANGED <<pc, call, buf, got, cuts, first, res>>
    BY DEF Tick
  <1>2. /\ left'[t] = IF pc[t] \in Timed THEN Lower(left[t]) ELSE left[t]
        /\ nap'[t] = IF nap[t] > 0 THEN nap[t] - 1 ELSE 0
    BY DEF Tick
  <1>3. left[t] \in Int /\ nap[t] \in Nat
    BY Mine
  <1>4. WaitEndsInTime(t)'
    <2> SUFFICES ASSUME pc[t] \in {"select", "blind", "nap", "wselect", "wblind"},
                        nap'[t] > 0, nap'[t] > left'[t]
                 PROVE  LateWrite(t)' \/ ByteSleep(t)'
      BY <1>1 DEF WaitEndsInTime
    <2>1. left'[t] = Lower(left[t]) /\ nap[t] > 0 /\ nap'[t] = nap[t] - 1
      BY <1>2, <1>3 DEF Timed
    <2>2. left'[t] <= left[t] /\ (left'[t] = left[t] - 1 \/ left[t] <= -Res)
      BY <2>1, <1>3, ClockAssumption DEF Lower
    <2>3. nap[t] > left[t]
      BY <2>1, <2>2, <1>3, ClockAssumption
    <2>4. LateWrite(t) \/ ByteSleep(t)
      BY <2>1, <2>3 DEF CallSound, WaitEndsInTime
    <2>5. CASE LateWrite(t)
      BY <2>2, <2>5, <1>1, <1>3, <2>1, ClockAssumption DEF LateWrite, Lower
    <2>6. CASE ByteSleep(t)
      <3> DEFINE w == ByteTicks * (Want(t) - got[t])
      <3>1. nap[t] <= w /\ nap[t] < SecondTicks /\ pc[t] = "nap"
        BY <2>6 DEF ByteSleep
      <3>2. got[t] \in Nat /\ Want(t) \in Nat
        BY <3>1, Mine
      <3>3. w \in Int
        BY <3>2, ClockAssumption
      <3>4. Want(t)' = Want(t) /\ got'[t] = got[t] /\ NoInterval(t)' = NoInterval(t)
        BY <1>1 DEF Want, NoInterval
      <3> HIDE DEF w
      <3>5. nap'[t] <= w /\ nap'[t] < SecondTicks
        BY <2>1, <3>1, <3>3, <1>3, ClockAssumption
      <3>6. NoInterval(t) /\ Want(t) > 1
        BY <2>6 DEF ByteSleep
      <3> QED
        BY <3>1, <3>4, <3>5, <3>6, <1>1 DEF ByteSleep, w
    <2> QED
      BY <2>4, <2>5, <2>6
  <1>5. pc[t] = "return" => left'[t] = left[t]
    BY <1>2 DEF Timed
  <1>6. ReadSoFar(t)'
    BY <1>1 DEF CallSound, ReadSoFar, Before, Want, NoEolBefore, LinesSoFar,
       EolAt, EndsLikeEol
  <1>7. FirstIsFirst(t)'
    BY <1>1 DEF CallSound, FirstIsFirst
  <1>8. ShortIsLate(t)' /\ LineEnds(t)' /\ LinesWhole(t)'
    <2>1. CASE pc[t] = "return"
      BY <2>1, <1>1, <1>5 DEF CallSound, ShortIsLate, ReturnsOk, LineEnds, LinesWhole,
         NoEolBefore, EolAt, EndsLikeEol, LastCut
    <2>2. CASE pc[t] # "return"
      BY <2>2, <1>1 DEF ShortIsLate, ReturnsOk, LineEnds, LinesWhole
    <2> QED
      BY <2>1, <2>2
  <1> QED
    BY <1>4, <1>6, <1>7, <1>8 DEF CallSound

\* The thread that acts.
LEMMA ActorSound ==
    ASSUME IInv, NEW t \in Thread, CallSound(t),
           \/ \E c \in Calls[t] : Begin(t, c)
           \/ ReadLock(t) \/ WriteLock(t) \/ Step(t) \/ Interrupted(t)
    PROVE  CallSound(t)'
  <1>1. CASE Step(t)
    BY <1>1, ReturnSound, ReadEnterSound, ReadWaitSound, BackSound, SelectPatientSound,
       TakeSound, ReadEndSound, LineEndSound, LinesEndSound, WriteEnterSound,
       WriteLoopSound, WriteTimedOutSound, PutSound, ActSound DEF Step
  <1>2. CASE Interrupted(t)
    BY <1>2, BackSound, WriteInterruptedSound DEF Interrupted
  <1> QED
    BY <1>1, <1>2, BeginSound, LockSound

\* The other threads: their calls are their own.
LEMMA OthersKept ==
    ASSUME IInv, NEW t \in Thread, NEW u \in Thread, u # t, CallSound(u),
           \/ \E c \in Calls[t] : Begin(t, c)
           \/ ReadLock(t) \/ WriteLock(t) \/ Step(t) \/ Interrupted(t)
    PROVE  CallSound(u)'
  <1> DEFINE Same == /\ pc'[u] = pc[u] /\ call'[u] = call[u] /\ buf'[u] = buf[u]
                     /\ got'[u] = got[u] /\ cuts'[u] = cuts[u] /\ first'[u] = first[u]
                     /\ left'[u] = left[u] /\ nap'[u] = nap[u] /\ res'[u] = res[u]
  <1> USE DEF Goto, Finish
  <1>1. (\E c \in Calls[t] : Begin(t, c)) \/ ReadLock(t) \/ WriteLock(t) => Same
    BY DEF IInv, TypeOK, Begin, ReadLock, WriteLock
  <1>2. Return(t) \/ ReadEnter(t) \/ ReadWait(t) => Same
    BY DEF IInv, TypeOK, Return, ReadEnter, ReadWait
  <1>3. SelectTimedOut(t) \/ SelectInterrupted(t) \/ SelectPatient(t) \/ Take(t) => Same
    BY DEF IInv, TypeOK, SelectTimedOut, SelectInterrupted, BackToLoop, SelectPatient, Take
  <1>4. ReadEnd(t) \/ LineEnd(t) \/ LinesEnd(t) => Same
    BY DEF IInv, TypeOK, ReadEnd, LineEnd, LinesEnd
  <1>5. WriteEnter(t) \/ WriteLoop(t) \/ WriteInterrupted(t) \/ WriteTimedOut(t) \/ Put(t)
          => Same
    BY DEF IInv, TypeOK, WriteEnter, WriteLoop, WriteInterrupted, WriteTimedOut, Put
  <1>6. FlushInput(t) \/ FlushOutput(t) \/ Flush(t) \/ SetPort(t) \/ Close(t) => Same
    BY DEF IInv, TypeOK, FlushInput, FlushOutput, Flush, SetPort, Close
  <1>7. Same
    BY <1>1, <1>2, <1>3, <1>4, <1>5, <1>6 DEF Step, Interrupted
  <1> QED
    BY <1>7, CallSoundKept

LEMMA NextSound == IInv /\ CallsSound /\ [Next]_vars => CallsSound'
  <1> SUFFICES ASSUME IInv, CallsSound, [Next]_vars, NEW u \in Thread
               PROVE  CallSound(u)'
    BY DEF CallsSound
  <1>0. CallSound(u)
    BY DEF CallsSound
  <1>1. ASSUME NEW t \in Thread,
               \/ \E c \in Calls[t] : Begin(t, c)
               \/ ReadLock(t) \/ WriteLock(t) \/ Step(t) \/ Interrupted(t)
        PROVE  CallSound(u)'
    BY <1>0, <1>1, ActorSound, OthersKept
  <1>2. CASE Tick
    BY <1>0, <1>2, TickSound
  <1>3. CASE Arrive \/ Transmit \/ Unplug \/ UNCHANGED vars
    BY <1>0, <1>3, CallSoundKept DEF Arrive, Transmit, Unplug, vars, threadVars
  <1> QED
    BY <1>1, <1>2, <1>3 DEF Next
-----------------------------------------------------------------------------
(* The theorems.                                                           *)

\* What every thread knows of its own call, together with the locks.
THEOREM CallsAreSound == Spec => []CallsSound
  <1>1. Init => CallsSound
    <2> SUFFICES ASSUME Init, NEW t \in Thread PROVE CallSound(t)
      BY DEF CallsSound
    <2>1. pc[t] = "idle" /\ cuts[t] = <<>>
      BY DEF Init
    <2> QED
      BY <2>1 DEF CallSound, ReadSoFar, InRead, InLoop, FirstIsFirst, WaitEndsInTime,
         ShortIsLate, LineEnds, LinesWhole, ReturnsOk
  <1>2. IInv /\ CallsSound /\ [Next]_vars => CallsSound'
    BY NextSound
  <1> QED
    BY <1>1, <1>2, Invariance, PTL DEF Spec

\* Whatever signals come and however slowly bytes arrive, a read that returns
\* fewer bytes than asked for has used up its total time-out, to less than a
\* millisecond (the loop of SerialImpl::read of unix.cc).
THEOREM ShortReadsAreLate == Spec => []ShortOnlyLate
  <1>1. CallsSound => ShortOnlyLate
    BY DEF CallsSound, CallSound, ShortOnlyLate
  <1> QED
    BY <1>1, CallsAreSound, PTL

\* Lines end at delimiters, whatever the delimiter is, and none is lost
\* (readline and readlines of serial.cc).
THEOREM LinesAreRight == Spec => []LinesRight
  <1>1. CallsSound => LinesRight
    BY DEF CallsSound, CallSound, LinesRight
  <1> QED
    BY <1>1, CallsAreSound, PTL

\* For any time-outs, and any width of the unsigned in which they are
\* computed, no wait is set to end after the deadline of its call, but for
\* the first of a write that is late before it begins (unix.cc:634) and the
\* sleep for the bytes a read lacks, which is late by their time at most, and
\* by less than a second (unix.cc:526-530, 572).
THEOREM WaitsAreWithinDeadline == Spec => []WaitsWithinDeadline
  <1>1. CallsSound => WaitsWithinDeadline
    BY DEF CallsSound, CallSound, WaitsWithinDeadline
  <1> QED
    BY <1>1, CallsAreSound, PTL
=============================================================================

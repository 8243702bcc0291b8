----------------------------- MODULE SerialPort -----------------------------
(***************************************************************************)
(* The life of a Serial object: construction, open, the setters, close,    *)
(* setPort and destruction, over the two implementations of SerialImpl     *)
(* (impl/unix.cc, impl/win.cc).  Any system call may fail, and tcsetattr    *)
(* may make some of the settings only.  A port keeps its line settings     *)
(* between openings; on a Unix system a new setting is made from the bits  *)
(* of the old one.                                                         *)
(***************************************************************************)
EXTENDS Integers, FiniteSets

CONSTANTS
    System,     \* implementations: a subset of {"unix", "windows"}
    NoPort,     \* the empty port name
    Port,       \* names of ports
    Second,     \* time units in a second: nanoseconds, 10^9, in the source
    Baudrate,   \* rates a caller may set
    StandardBaud, \* those with a constant of their own (the switch of reconfigurePort)
    Bytesize,   \* character lengths a caller may set, among them invalid ones
    Parity, Stopbits, Flowcontrol,
    Built,      \* configurations the constructor is called with
    Timeout,    \* values of timeout_; the first one set is DefaultTimeout
    DefaultTimeout,
    MaxHandles  \* bound: descriptors of the process

ValidBytesize == 5 .. 8

ASSUME PortAssumption == NoPort \notin Port
ASSUME ValueAssumption ==
    /\ System \subseteq {"unix", "windows"}
    /\ Second \in Nat
    /\ 38400 \in StandardBaud
    /\ Bytesize \subseteq Nat
    /\ Parity \subseteq {"none", "odd", "even", "mark", "space"}
    /\ Stopbits \subseteq {"one", "two", "one_point_five"}
    /\ Flowcontrol \subseteq {"none", "software", "hardware"}
    /\ DefaultTimeout \in Timeout
    /\ MaxHandles \in Nat \ {0}

\* At rate 0, which hangs up, unix.cc:447 divides by zero; below four baud the
\* products of unix.cc:448 do not fit a uint32_t.  From four on all do.
ASSUME RateAssumption == \A b \in Baudrate : b \in Nat /\ b >= 4

VARIABLES
    os,         \* the implementation the build chose
    exists,     \* the object is constructed
    obj,        \* its fields; cfg is what the getters report
    dev,        \* the kernel's side: open descriptors and port settings
    last        \* how the last call ended; sets: it is one that configures

vars == <<os, exists, obj, dev, last>>

NoHandle == -1

Config == [baud : Baudrate, bytesize : Bytesize, parity : Parity,
           stopbits : Stopbits, flow : Flowcontrol]

ASSUME BuiltAssumption == Built # {} /\ Built \subseteq Config

\* bytes: byte_time_ns_.  made is history: the line took all the settings that
\* reconfigurePort last asked for.
Object == [port : Port \cup {NoPort}, fd : -1 .. MaxHandles, isOpen : BOOLEAN,
           cfg : Config, timeout : Timeout, bytes : Nat, made : BOOLEAN]

\* Line settings.  cust: the driver divides its base clock (ASYNC_SPD_CUST);
\* the other fields are the bits of c_cflag and c_iflag.
Line == [speed : StandardBaud \cup Baudrate, cust : BOOLEAN, size : ValidBytesize,
         cstopb : BOOLEAN, half : BOOLEAN, parenb : BOOLEAN, parodd : BOOLEAN,
         cmspar : BOOLEAN, xon : BOOLEAN, rtscts : BOOLEAN]

\* comm: the time-outs of the open handle (Windows).  The levels of the modem
\* lines are left out.
Device == [live : SUBSET (0 .. MaxHandles), line : [Port -> Line], comm : Timeout]

\* A port nobody has touched: 38400 baud, 8N1 without flow control.
FreshLine == [speed |-> 38400, cust |-> FALSE, size |-> 8, cstopb |-> FALSE,
              half |-> FALSE, parenb |-> FALSE, parodd |-> FALSE,
              cmspar |-> FALSE, xon |-> FALSE, rtscts |-> FALSE]

\* A call maps the object and the device to the set of its possible ends.
End(ok, o, d) == [ok |-> ok, obj |-> o, dev |-> d]

Returns(o, d) == End(TRUE, o, d)
Throws(o, d) == End(FALSE, o, d)
-----------------------------------------------------------------------------
(* reconfigurePort, impl/unix.cc.                                          *)

\* The rate.  One without a constant sets a divisor in the driver at once and
\* leaves the speed of the settings alone.
UnixDivisor(c, l) == IF c.baud \in StandardBaud THEN l ELSE [l EXCEPT !.cust = TRUE]

UnixSpeed(c, l) == IF c.baud \in StandardBaud THEN [l EXCEPT !.speed = c.baud] ELSE l

UnixStopbits(c, l) == [l EXCEPT !.cstopb = c.stopbits # "one"]

\* Mutant: space parity keeps the bit of an odd one.
MutUnixParity(c, l) ==
    [l EXCEPT !.parenb = c.parity # "none",
              !.parodd = c.parity \in {"odd", "mark"} \/ (@ /\ c.parity = "space"),
              !.cmspar = @ \/ c.parity \in {"mark", "space"}]

UnixParity(c, l) ==
    CASE c.parity = "none"  -> [l EXCEPT !.parenb = FALSE, !.parodd = FALSE]
      [] c.parity = "even"  -> [l EXCEPT !.parenb = TRUE, !.parodd = FALSE]
      [] c.parity = "odd"   -> [l EXCEPT !.parenb = TRUE, !.parodd = TRUE]
      [] c.parity = "mark"  -> [l EXCEPT !.parenb = TRUE, !.parodd = TRUE, !.cmspar = TRUE]
      [] c.parity = "space" -> [l EXCEPT !.parenb = TRUE, !.parodd = FALSE, !.cmspar = TRUE]

UnixFlow(c, l) ==
    [l EXCEPT !.xon = c.flow = "software", !.rtscts = c.flow = "hardware"]

UnixLine(c, l) ==
    LET sized == [UnixSpeed(c, l) EXCEPT !.size = c.bytesize]
    IN  UnixFlow(c, UnixParity(c, UnixStopbits(c, sized)))

\* The values of the enumerations.
ParityValue(p) ==
    CASE p = "none" -> 0 [] p = "odd" -> 1 [] p = "even" -> 2
      [] p = "mark" -> 3 [] p = "space" -> 4

StopbitsValue(s) == CASE s = "one" -> 1 [] s = "two" -> 2 [] s = "one_point_five" -> 3

\* bit_time_ns: the conversion to uint32_t drops the fraction.
UnixBitTime(c) == Second \div c.baud

\* The values of the enumerations added up as if they were bits.
UnixBits(c) == 1 + c.bytesize + ParityValue(c.parity) + StopbitsValue(c.stopbits)

\* Mutant: the start bit is forgotten.
MutUnixByteTime(c) ==
    UnixBitTime(c) * (c.bytesize + ParityValue(c.parity) + StopbitsValue(c.stopbits))

\* byte_time_ns_: the three that stand for one and a half stop bits are put
\* right in floating point, of which the fraction is dropped again.
UnixByteTime(c) ==
    LET whole == UnixBitTime(c) * UnixBits(c)
    IN  IF c.stopbits = "one_point_five"
        THEN (2 * whole - 3 * UnixBitTime(c)) \div 2 ELSE whole

\* reconfigurePort, impl/win.cc: every field of the DCB is assigned.
WindowsLine(c) ==
    [speed |-> c.baud, cust |-> FALSE, size |-> c.bytesize,
     cstopb |-> c.stopbits = "two", half |-> c.stopbits = "one_point_five",
     parenb |-> c.parity # "none", parodd |-> c.parity \in {"odd", "mark"},
     cmspar |-> c.parity \in {"mark", "space"},
     xon |-> c.flow = "software", rtscts |-> c.flow = "hardware"]

\* Mutant: any length is accepted.
MutUnixReconfigure(o, d) ==
    {Throws(o, d)} \cup
    (IF o.fd \notin d.live
     THEN {}
     ELSE {Returns([o EXCEPT !.bytes = UnixByteTime(o.cfg)],
                   [d EXCEPT !.line[o.port] = UnixLine(o.cfg, UnixDivisor(o.cfg, @))])})

\* The lines tcsetattr may leave when n is asked for on a line l: it succeeds
\* when it made any one of the settings, and leaves them all when it fails.
Partly(l, n) ==
    [speed : {l.speed, n.speed}, cust : {l.cust}, size : {l.size, n.size},
     cstopb : {l.cstopb, n.cstopb}, half : {l.half}, parenb : {l.parenb, n.parenb},
     parodd : {l.parodd, n.parodd}, cmspar : {l.cmspar, n.cmspar},
     xon : {l.xon, n.xon}, rtscts : {l.rtscts, n.rtscts}]

\* tcgetattr may fail; then, after the divisor is set, the checks of the
\* fields.  The result of tcsetattr is not looked at: whatever it did, the
\* call returns, with the time of the character that was asked for.
UnixReconfigure(o, d) ==
    LET c == o.cfg
        l == UnixDivisor(c, d.line[o.port])
        divided == [d EXCEPT !.line[o.port] = l]
        asked == UnixLine(c, l)
    IN  {Throws(o, d)} \cup
        (CASE o.fd \notin d.live -> {}
           [] o.fd \in d.live /\ c.bytesize \notin ValidBytesize -> {Throws(o, divided)}
           [] o.fd \in d.live /\ c.bytesize \in ValidBytesize ->
                {Returns([o EXCEPT !.bytes = UnixByteTime(c), !.made = (m = asked)],
                         [d EXCEPT !.line[o.port] = m]) : m \in Partly(l, asked)})

\* A refused SetCommState closes the handle and keeps its number in fd_; a
\* refused SetCommTimeouts comes after the settings were made.
WindowsReconfigure(o, d) ==
    LET set == [d EXCEPT !.line[o.port] = WindowsLine(o.cfg)]
    IN  {Throws(o, d)} \cup
        (IF o.fd \notin d.live \/ o.cfg.bytesize \notin ValidBytesize
         THEN {}
         ELSE {Throws(o, [d EXCEPT !.live = @ \ {o.fd}]), Throws(o, set),
               Returns(o, [set EXCEPT !.comm = o.timeout])})

Reconfigure(o, d) ==
    IF os = "unix" THEN UnixReconfigure(o, d) ELSE WindowsReconfigure(o, d)
-----------------------------------------------------------------------------
(* The calls.                                                              *)

\* ::open takes a number that is free.
NewHandle(d) == CHOOSE h \in 0 .. MaxHandles : h \notin d.live

\* Mutant: a port that is open is opened again.
MutOpen(o, d) ==
    IF o.port = NoPort \/ Cardinality(d.live) = MaxHandles
    THEN {Throws(o, d)}
    ELSE LET h == NewHandle(d)
         IN  {IF e.ok THEN [e EXCEPT !.obj.isOpen = TRUE] ELSE e :
                e \in Reconfigure([o EXCEPT !.fd = h], [d EXCEPT !.live = @ \cup {h}])}

\* open.  A descriptor whose configuration fails is not closed again.
Open(o, d) ==
    IF o.port = NoPort \/ o.isOpen
    THEN {Throws(o, d)}
    ELSE {Throws([o EXCEPT !.fd = NoHandle], d)} \cup
         (IF Cardinality(d.live) = MaxHandles
          THEN {}
          ELSE LET h == NewHandle(d)
               IN  {IF e.ok THEN [e EXCEPT !.obj.isOpen = TRUE] ELSE e :
                      e \in Reconfigure([o EXCEPT !.fd = h],
                                        [d EXCEPT !.live = @ \cup {h}])})

\* Mutant: is_open_ is not reset.
MutClosed(o, d, failed) ==
    IF o.fd \in d.live
    THEN {Returns([o EXCEPT !.fd = NoHandle], [d EXCEPT !.live = @ \ {o.fd}])}
    ELSE {Returns(o, d)}

\* close.  When the system call fails the object goes on as if it were open;
\* after a failed ::close the descriptor is gone all the same.
Closed(o, d, failed) ==
    CASE ~o.isOpen -> {Returns(o, d)}
      [] o.isOpen /\ o.fd = NoHandle -> {Returns([o EXCEPT !.isOpen = FALSE], d)}
      [] o.isOpen /\ o.fd # NoHandle ->
           {Throws(o, failed)} \cup
           (IF o.fd \notin d.live
            THEN {}
            ELSE {Returns([o EXCEPT !.isOpen = FALSE, !.fd = NoHandle],
                          [d EXCEPT !.live = @ \ {o.fd}])})

UnixClose(o, d) == Closed(o, d, [d EXCEPT !.live = @ \ {o.fd}])
WindowsClose(o, d) == Closed(o, d, d)
Close(o, d) == IF os = "unix" THEN UnixClose(o, d) ELSE WindowsClose(o, d)

\* setBaudrate, setBytesize, setParity, setStopbits, setFlowcontrol: the field
\* is assigned first, then an open port is configured anew.
SetConfig(c, o, d) ==
    LET set == [o EXCEPT !.cfg = c]
    IN  IF o.isOpen THEN Reconfigure(set, d) ELSE {Returns(set, d)}

\* setTimeout: on a Unix system the next read or write uses it.
SetTimeout(t, o, d) ==
    LET set == [o EXCEPT !.timeout = t]
    IN  IF os = "windows" /\ o.isOpen THEN Reconfigure(set, d) ELSE {Returns(set, d)}

\* setPort: an open port is closed, renamed and opened.
SetPort(p, o, d) ==
    IF ~o.isOpen
    THEN {Returns([o EXCEPT !.port = p], d)}
    ELSE UNION {IF e.ok THEN Open([e.obj EXCEPT !.port = p], e.dev) ELSE {e} :
                  e \in Close(o, d)}

\* A call whose system call may fail: getCTS, getDSR, getRI, getCD.
Ask(o, d) ==
    {Throws(o, d)} \cup (IF o.isOpen /\ o.fd \in d.live THEN {Returns(o, d)} ELSE {})

\* A call that does not look at the result of its system call.
Tell(o, d) == IF o.isOpen THEN {Returns(o, d)} ELSE {Throws(o, d)}

\* setBreak, setRTS, setDTR.
UnixDrive(o, d) == Ask(o, d)
WindowsDrive(o, d) == Tell(o, d)

\* sendBreak is not supported on Windows.
UnixSendBreak(o, d) == Tell(o, d)
WindowsSendBreak(o, d) == {Throws(o, d)}

\* waitForChange: a Unix system is asked whether the port is open or not;
\* Windows reports a failed wait as "no change".
UnixWaitForChange(o, d) ==
    {Throws(o, d)} \cup (IF o.fd \in d.live THEN {Returns(o, d)} ELSE {})
WindowsWaitForChange(o, d) == Tell(o, d)

\* ReadFile and WriteFile, with the time-outs of the handle, and available;
\* on a Unix system these have a module of their own, SerialIo.
WindowsTransfer(o, d) == Ask(o, d)
WindowsAvailable(o, d) == IF o.isOpen THEN Ask(o, d) ELSE {Returns(o, d)}

\* flush, flushInput and flushOutput.
WindowsFlush(o, d) == Tell(o, d)

\* waitReadable and waitByteTimes are not implemented on Windows.
WindowsWaitReadable(o, d) == {Throws(o, d)}

\* The constructor opens a port it is given; then the time-outs are set.
New(p, c) == [port |-> p, fd |-> NoHandle, isOpen |-> FALSE, cfg |-> c,
              timeout |-> DefaultTimeout, bytes |-> 0, made |-> TRUE]

Construct(p, c, t, d) ==
    UNION {IF e.ok THEN SetTimeout(t, e.obj, e.dev) ELSE {e} :
             e \in IF p = NoPort THEN {Returns(New(p, c), d)} ELSE Open(New(p, c), d)}

\* Stands for the fields of an object that does not exist.
NoObject == New(NoPort, CHOOSE c \in Built : TRUE)
-----------------------------------------------------------------------------
Init ==
    /\ os \in System
    /\ exists = FALSE
    /\ obj = NoObject
    /\ dev = [live |-> {}, line |-> [p \in Port |-> FreshLine], comm |-> DefaultTimeout]
    /\ last = [ok |-> TRUE, sets |-> FALSE]

Done(sets, e) ==
    /\ obj' = e.obj /\ dev' = e.dev
    /\ last' = [ok |-> e.ok, sets |-> sets]
    /\ UNCHANGED os

\* What a constructor that throws leaves behind stays behind.
ConstructorCall ==
    /\ ~exists
    /\ \E p \in Port \cup {NoPort}, c \in Built, t \in Timeout :
          \E e \in Construct(p, c, t, dev) :
             /\ exists' = e.ok
             /\ Done(TRUE, IF e.ok THEN e ELSE [e EXCEPT !.obj = NoObject])

Calls(sets, ends) == exists /\ UNCHANGED exists /\ \E e \in ends : Done(sets, e)

OpenCall == Calls(TRUE, Open(obj, dev))
CloseCall == Calls(FALSE, Close(obj, dev))
SetPortCall == \E p \in Port \cup {NoPort} : Calls(TRUE, SetPort(p, obj, dev))

Configure(c) == Calls(TRUE, SetConfig(c, obj, dev))

SetBaudrateCall == \E v \in Baudrate : Configure([obj.cfg EXCEPT !.baud = v])
SetBytesizeCall == \E v \in Bytesize : Configure([obj.cfg EXCEPT !.bytesize = v])
SetParityCall == \E v \in Parity : Configure([obj.cfg EXCEPT !.parity = v])
SetStopbitsCall == \E v \in Stopbits : Configure([obj.cfg EXCEPT !.stopbits = v])
SetFlowcontrolCall == \E v \in Flowcontrol : Configure([obj.cfg EXCEPT !.flow = v])

SetTimeoutCall == \E t \in Timeout : Calls(os = "windows", SetTimeout(t, obj, dev))

AskCall == Calls(FALSE, Ask(obj, dev))
DriveCall ==
    Calls(FALSE, IF os = "unix" THEN UnixDrive(obj, dev) ELSE WindowsDrive(obj, dev))
SendBreakCall ==
    Calls(FALSE, IF os = "unix" THEN UnixSendBreak(obj, dev)
                 ELSE WindowsSendBreak(obj, dev))
WaitForChangeCall ==
    Calls(FALSE, IF os = "unix" THEN UnixWaitForChange(obj, dev)
                 ELSE WindowsWaitForChange(obj, dev))
TransferCall ==
    /\ os = "windows"
    /\ \/ Calls(FALSE, WindowsTransfer(obj, dev))
       \/ Calls(FALSE, WindowsAvailable(obj, dev))
       \/ Calls(FALSE, WindowsFlush(obj, dev))
       \/ Calls(FALSE, WindowsWaitReadable(obj, dev))

\* The destructor closes the port; an exception there ends the process, and
\* the kernel takes its descriptors back.
DestructorCall ==
    /\ exists /\ exists' = FALSE
    /\ \E e \in Close(obj, dev) :
          Done(FALSE, [ok |-> e.ok, obj |-> NoObject,
                       dev |-> IF e.ok THEN e.dev ELSE [e.dev EXCEPT !.live = {}]])

Next ==
    \/ ConstructorCall \/ OpenCall \/ CloseCall \/ SetPortCall
    \/ SetBaudrateCall \/ SetBytesizeCall \/ SetParityCall
    \/ SetStopbitsCall \/ SetFlowcontrolCall
    \/ SetTimeoutCall \/ AskCall \/ DriveCall \/ SendBreakCall
    \/ WaitForChangeCall \/ TransferCall \/ DestructorCall

Spec == Init /\ [][Next]_vars
-----------------------------------------------------------------------------
(* Properties.                                                             *)

\* Type invariant.
TypeOK ==
    /\ os \in System /\ exists \in BOOLEAN
    /\ obj \in Object /\ dev \in Device
    /\ last \in [ok : BOOLEAN, sets : BOOLEAN]

\* The port is open with fields the last call has just put into force.
InForce == exists /\ obj.isOpen /\ last.ok /\ last.sets

Shown == dev.line[obj.port]

\* The parity on the line, as the bits of c_cflag say it.
ShownParity(l) ==
    CASE ~l.parenb -> "none"
      [] l.parenb /\ ~l.cmspar -> IF l.parodd THEN "odd" ELSE "even"
      [] l.parenb /\ l.cmspar -> IF l.parodd THEN "mark" ELSE "space"

\* Whatever was set before, on this object or on another that had the port,
\* and however little of it was made, the line then has the length, stop bits,
\* parity and flow control the getters report, with three exceptions on a Unix
\* system: tcsetattr did not make all that it was asked for, of which nobody
\* hears (unix.cc:444); one and a half stop bits are sent as two; and the
\* parity is another after a mark or a space parity was set, whose bit
\* reconfigurePort never clears.
LineAsReported ==
    InForce /\ obj.made =>
        /\ Shown.size = obj.cfg.bytesize
        /\ Shown.xon <=> obj.cfg.flow = "software"
        /\ Shown.rtscts <=> obj.cfg.flow = "hardware"
        /\ Shown.cstopb \/ Shown.half <=> obj.cfg.stopbits # "one"
        /\ \/ ShownParity(Shown) = obj.cfg.parity
           \/ os = "unix" /\ Shown.cmspar /\ obj.cfg.parity \in {"odd", "even"}

\* Half bits of a character on the line: start bit, character, parity, stop.
HalfBits(c) ==
    2 * (1 + c.bytesize)
    + (IF c.parity = "none" THEN 0 ELSE 2)
    + (CASE c.stopbits = "one" -> 2 [] c.stopbits = "two" -> 4
         [] c.stopbits = "one_point_five" -> 3)

\* Half bits that the number of the parity counts too many: a bit for even, two
\* for mark and three for space parity.
ParityExcess(p) ==
    CASE p \in {"none", "odd"} -> 0 [] p = "even" -> 2 [] p = "mark" -> 4 [] p = "space" -> 6

\* A time t for a character of c is that of its bits and of the excess of its
\* parity, cut short by less than a unit of time for every two half bits and
\* half a unit more, and never longer.
TimeFits(c, t) ==
    LET n == HalfBits(c) + ParityExcess(c.parity)
        taken == 2 * c.baud * t
    IN  taken <= n * Second /\ taken > n * Second - (n + 1) * c.baud

\* waitByteTimes is to wait for "a period of time corresponding to the
\* transmission time" (serial.h:229).  The fraction of a bit's time is dropped
\* before it is multiplied, so that for no and odd parity the time taken may
\* be less than the transmission's, by 5.5 ns in a character of ten bits at
\* 115200 baud; for the other parities it is up to three bits longer.
ByteTimeClose == InForce /\ os = "unix" => TimeFits(obj.cfg, obj.bytes)

\* A call that returns never leaves an object that says it is open without a
\* descriptor of its own: that takes a close or a SetCommState that threw.
HandleLostByThrow ==
    [][exists' /\ obj'.isOpen /\ obj'.fd \notin dev'.live =>
         ~last'.ok \/ (obj.isOpen /\ obj.fd \notin dev.live)]_vars

Orphans(e, o, d) == IF e /\ o.isOpen THEN d.live \ {o.fd} ELSE d.live

\* A descriptor is left behind by a call that threw after the open system
\* call, by nothing else; and such a call leaves one at most.
OrphansByThrow ==
    [][LET new == Orphans(exists', obj', dev') \ Orphans(exists, obj, dev)
       IN  new # {} => ~last'.ok /\ Cardinality(new) = 1]_vars
=============================================================================

-------------------------- MODULE SerialPortProofs --------------------------
(***************************************************************************)
(* The life of a Serial object for any ports, rates, time-outs and number  *)
(* of descriptors.                                                         *)
(***************************************************************************)
EXTENDS SerialPort, FiniteSetTheorems, TLAPS

\* The values a caller may set.
LEMMA Values ==
    ASSUME NEW c \in Config
    PROVE  /\ c.bytesize \in Nat
           /\ c.parity \in {"none", "odd", "even", "mark", "space"}
           /\ c.stopbits \in {"one", "two", "one_point_five"}
  <1>1. c.bytesize \in Bytesize /\ c.parity \in Parity /\ c.stopbits \in Stopbits
    BY DEF Config
  <1>2. /\ Bytesize \subseteq Nat
        /\ Parity \subseteq {"none", "odd", "even", "mark", "space"}
        /\ Stopbits \subseteq {"one", "two", "one_point_five"}
    BY ValueAssumption
  <1> QED
    BY <1>1, <1>2

\* A quotient leaves a remainder.
LEMMA DivRest ==
    ASSUME NEW x \in Nat, NEW b \in Nat, b >= 1
    PROVE  /\ x \div b \in Nat
           /\ b * (x \div b) <= x /\ x < b * (x \div b) + b
  OBVIOUS
-----------------------------------------------------------------------------
(* Line settings: reconfigurePort field by field.                          *)

\* A line agrees with a configuration as LineAsReported asks of it.
LineAgrees(c, l) ==
    /\ l.size = c.bytesize
    /\ l.xon <=> c.flow = "software"
    /\ l.rtscts <=> c.flow = "hardware"
    /\ l.cstopb \/ l.half <=> c.stopbits # "one"
    /\ \/ ShownParity(l) = c.parity
       \/ os = "unix" /\ l.cmspar /\ c.parity \in {"odd", "even"}

\* The rate does not touch the other settings.
LEMMA UnixSpeedDef ==
    ASSUME NEW c \in Config, NEW l \in Line
    PROVE  /\ UnixDivisor(c, l) \in Line
           /\ UnixSpeed(c, l) \in Line
           /\ UnixDivisor(c, l).half = l.half
           /\ UnixSpeed(c, l).half = l.half
  BY DEF UnixDivisor, UnixSpeed, Line, Config

\* One bit tells one stop bit from more.
LEMMA UnixStopbitsDef ==
    ASSUME NEW c \in Config, NEW l \in Line
    PROVE  LET m == UnixStopbits(c, l) IN
           /\ m \in Line /\ m.size = l.size /\ m.half = l.half
           /\ m.cstopb <=> c.stopbits # "one"
  BY DEF UnixStopbits, Line

\* The parity that the bits of a line show.
LEMMA ShownParityDef ==
    ASSUME NEW m \in Line
    PROVE  /\ ~m.parenb => ShownParity(m) = "none"
           /\ m.parenb /\ ~m.cmspar /\ m.parodd => ShownParity(m) = "odd"
           /\ m.parenb /\ ~m.cmspar /\ ~m.parodd => ShownParity(m) = "even"
           /\ m.parenb /\ m.cmspar /\ m.parodd => ShownParity(m) = "mark"
           /\ m.parenb /\ m.cmspar /\ ~m.parodd => ShownParity(m) = "space"
  BY DEF ShownParity

\* Three bits tell the parity, but one of them is never cleared.
LEMMA UnixParityDef ==
    ASSUME NEW c \in Config, NEW l \in Line
    PROVE  LET m == UnixParity(c, l) IN
           /\ m \in Line /\ m.size = l.size /\ m.cstopb = l.cstopb /\ m.half = l.half
           /\ ShownParity(m) = c.parity \/ (m.cmspar /\ c.parity \in {"odd", "even"})
  <1> DEFINE m == UnixParity(c, l)
  <1>1. c.parity \in {"none", "odd", "even", "mark", "space"}
    BY Values
  <1>2. CASE c.parity = "none"
    <2>1. m = [l EXCEPT !.parenb = FALSE, !.parodd = FALSE]
      BY <1>2 DEF UnixParity
    <2> HIDE DEF m
    <2>2. /\ m \in Line /\ m.size = l.size /\ m.cstopb = l.cstopb /\ m.half = l.half
          /\ ~m.parenb
      BY <2>1 DEF Line
    <2>3. ShownParity(m) = c.parity \/ (m.cmspar /\ c.parity \in {"odd", "even"})
      BY <1>2, <2>2, ShownParityDef
    <2> QED
      BY <2>2, <2>3 DEF m
  <1>3. CASE c.parity = "even"
    <2>1. m = [l EXCEPT !.parenb = TRUE, !.parodd = FALSE]
      BY <1>3 DEF UnixParity
    <2> HIDE DEF m
    <2>2. /\ m \in Line /\ m.size = l.size /\ m.cstopb = l.cstopb /\ m.half = l.half
          /\ m.parenb /\ ~m.parodd
      BY <2>1 DEF Line
    <2>3. ShownParity(m) = c.parity \/ (m.cmspar /\ c.parity \in {"odd", "even"})
      BY <1>3, <2>2, ShownParityDef
    <2> QED
      BY <2>2, <2>3 DEF m
  <1>4. CASE c.parity = "odd"
    <2>1. m = [l EXCEPT !.parenb = TRUE, !.parodd = TRUE]
      BY <1>4 DEF UnixParity
    <2> HIDE DEF m
    <2>2. /\ m \in Line /\ m.size = l.size /\ m.cstopb = l.cstopb /\ m.half = l.half
          /\ m.parenb /\ m.parodd
      BY <2>1 DEF Line
    <2>3. ShownParity(m) = c.parity \/ (m.cmspar /\ c.parity \in {"odd", "even"})
      BY <1>4, <2>2, ShownParityDef
    <2> QED
      BY <2>2, <2>3 DEF m
  <1>5. CASE c.parity = "mark"
    <2>1. m = [l EXCEPT !.parenb = TRUE, !.parodd = TRUE, !.cmspar = TRUE]
      BY <1>5 DEF UnixParity
    <2> HIDE DEF m
    <2>2. /\ m \in Line /\ m.size = l.size /\ m.cstopb = l.cstopb /\ m.half = l.half
          /\ m.parenb /\ m.parodd /\ m.cmspar
      BY <2>1 DEF Line
    <2>3. ShownParity(m) = c.parity \/ (m.cmspar /\ c.parity \in {"odd", "even"})
      BY <1>5, <2>2, ShownParityDef
    <2> QED
      BY <2>2, <2>3 DEF m
  <1>6. CASE c.parity = "space"
    <2>1. m = [l EXCEPT !.parenb = TRUE, !.parodd = FALSE, !.cmspar = TRUE]
      BY <1>6 DEF UnixParity
    <2> HIDE DEF m
    <2>2. /\ m \in Line /\ m.size = l.size /\ m.cstopb = l.cstopb /\ m.half = l.half
          /\ m.parenb /\ ~m.parodd /\ m.cmspar
      BY <2>1 DEF Line
    <2>3. ShownParity(m) = c.parity \/ (m.cmspar /\ c.parity \in {"odd", "even"})
      BY <1>6, <2>2, ShownParityDef
    <2> QED
      BY <2>2, <2>3 DEF m
  <1> HIDE DEF m
  <1> QED
    BY <1>1, <1>2, <1>3, <1>4, <1>5, <1>6 DEF m

\* Flow control is told by two bits of its own.
LEMMA UnixFlowDef ==
    ASSUME NEW c \in Config, NEW l \in Line
    PROVE  LET m == UnixFlow(c, l) IN
           /\ m \in Line /\ m.size = l.size /\ m.cstopb = l.cstopb /\ m.half = l.half
           /\ m.parenb = l.parenb /\ m.parodd = l.parodd /\ m.cmspar = l.cmspar
           /\ m.xon <=> c.flow = "software"
           /\ m.rtscts <=> c.flow = "hardware"
  BY DEF UnixFlow, Line, Config

\* reconfigurePort of unix.cc, all fields together: the settings are those of
\* the configuration whatever they were, but for the bit that is never cleared.
LEMMA UnixLineDef ==
    ASSUME NEW c \in Config, c.bytesize \in ValidBytesize, NEW l \in Line, ~l.half,
           os = "unix"
    PROVE  /\ UnixLine(c, l) \in Line /\ ~UnixLine(c, l).half
           /\ LineAgrees(c, UnixLine(c, l))
  <1> DEFINE sized == [UnixSpeed(c, l) EXCEPT !.size = c.bytesize]
             stops == UnixStopbits(c, sized)
             par == UnixParity(c, stops)
             m == UnixFlow(c, par)
  <1>1. sized \in Line /\ sized.size = c.bytesize /\ ~sized.half
    BY UnixSpeedDef DEF Line
  <1> HIDE DEF sized
  <1>2. /\ stops \in Line /\ stops.size = c.bytesize /\ ~stops.half
        /\ stops.cstopb <=> c.stopbits # "one"
    BY <1>1, UnixStopbitsDef
  <1> HIDE DEF stops
  <1>3. /\ par \in Line /\ par.size = c.bytesize /\ ~par.half
        /\ par.cstopb <=> c.stopbits # "one"
        /\ ShownParity(par) = c.parity \/ (par.cmspar /\ c.parity \in {"odd", "even"})
    BY <1>2, UnixParityDef
  <1> HIDE DEF par
  <1>4. /\ m \in Line /\ m.size = c.bytesize /\ ~m.half
        /\ m.cstopb <=> c.stopbits # "one"
        /\ m.xon <=> c.flow = "software"
        /\ m.rtscts <=> c.flow = "hardware"
        /\ m.parenb = par.parenb /\ m.parodd = par.parodd /\ m.cmspar = par.cmspar
    BY <1>3, UnixFlowDef
  <1>5. UnixLine(c, l) = m
    BY DEF UnixLine, m, par, stops, sized
  <1> HIDE DEF m
  <1>6. ShownParity(m) = ShownParity(par)
    BY <1>4 DEF ShownParity
  <1> QED
    BY <1>3, <1>4, <1>5, <1>6 DEF LineAgrees

\* reconfigurePort of win.cc.
LEMMA WindowsLineDef ==
    ASSUME NEW c \in Config, c.bytesize \in ValidBytesize
    PROVE  WindowsLine(c) \in Line /\ LineAgrees(c, WindowsLine(c))
  <1>1. WindowsLine(c) \in Line
    BY DEF WindowsLine, Line, Config
  <1>2. c.parity \in {"none", "odd", "even", "mark", "space"}
    BY Values
  <1>3. ShownParity(WindowsLine(c)) = c.parity
    <2>1. /\ WindowsLine(c).parenb <=> c.parity # "none"
          /\ WindowsLine(c).parodd <=> c.parity \in {"odd", "mark"}
          /\ WindowsLine(c).cmspar <=> c.parity \in {"mark", "space"}
      BY DEF WindowsLine
    <2> QED
      BY <1>1, <1>2, <2>1, ShownParityDef
  <1>4. c.stopbits \in {"one", "two", "one_point_five"}
    BY Values
  <1>5. /\ WindowsLine(c).size = c.bytesize
        /\ WindowsLine(c).xon <=> c.flow = "software"
        /\ WindowsLine(c).rtscts <=> c.flow = "hardware"
        /\ WindowsLine(c).cstopb <=> c.stopbits = "two"
        /\ WindowsLine(c).half <=> c.stopbits = "one_point_five"
    BY DEF WindowsLine
  <1> QED
    BY <1>1, <1>3, <1>4, <1>5 DEF LineAgrees

\* The fraction that a quotient drops, many times over: q of b goes into S, and
\* half of n times q is taken.
LEMMA Truncated ==
    ASSUME NEW S \in Nat, NEW b \in Nat, b >= 1, NEW n \in Nat, n >= 1, NEW t \in Int,
           NEW q \in Nat, q = S \div b, 2 * t <= n * q, n * q <= 2 * t + 1
    PROVE  2 * b * t <= n * S /\ 2 * b * t > n * S - (n + 1) * b
  <1>1. b * q <= S /\ S < b * q + b
    BY DivRest
  <1> DEFINE p == b * q
  <1>2. p \in Nat /\ p <= S /\ S - b < p
    BY <1>1
  <1>3. n * p <= n * S /\ n * (S - b) < n * p
    <2> HIDE DEF p
    <2>1. n * p <= n * S
      BY <1>2
    <2>2. n * (S - b + 1) <= n * p
      BY <1>2
    <2>3. n * (S - b + 1) = n * (S - b) + n
      OBVIOUS
    <2> QED
      BY <1>2, <2>1, <2>2, <2>3
  <1>4. n * p = b * (n * q)
    OBVIOUS
  <1> DEFINE r == n * q
  <1>5. b * (2 * t) <= b * r /\ b * r <= b * (2 * t) + b
    <2>1. r \in Nat /\ 2 * t <= r /\ r <= 2 * t + 1
      OBVIOUS
    <2> HIDE DEF r
    <2>2. b * (2 * t) <= b * r
      BY <2>1
    <2>3. b * r <= b * (2 * t + 1)
      BY <2>1
    <2>4. b * (2 * t + 1) = b * (2 * t) + b
      OBVIOUS
    <2> QED
      BY <2>1, <2>2, <2>3, <2>4
  <1>6. n * (S - b) = n * S - n * b /\ (n + 1) * b = n * b + b /\ 2 * b * t = b * (2 * t)
    OBVIOUS
  <1> DEFINE x == n * S
             y == n * b
             z == b * (2 * t)
             u == n * p
             w == b * r
             v == n * (S - b)
             nb == (n + 1) * b
             bt == 2 * b * t
  <1>7. /\ x \in Int /\ y \in Int /\ z \in Int /\ u \in Int /\ w \in Int /\ v \in Int
        /\ nb \in Int /\ bt \in Int
    BY <1>2
  <1>8. /\ u <= x /\ v < u /\ u = w /\ z <= w /\ w <= z + b
        /\ v = x - y /\ nb = y + b /\ bt = z
    BY <1>3, <1>4, <1>5, <1>6
  <1> HIDE DEF x, y, z, u, w, v, nb, bt
  <1>9. bt <= x /\ bt > x - nb
    BY <1>7, <1>8
  <1> QED
    BY <1>9 DEF bt, x, nb

\* The numbers of the enumerations, corrected for one and a half stop bits, are
\* the half bits of the character and the excess of its parity.
LEMMA BitsDef ==
    ASSUME NEW c \in Config
    PROVE  /\ UnixBits(c) \in Nat
           /\ HalfBits(c) + ParityExcess(c.parity) \in Nat
           /\ HalfBits(c) + ParityExcess(c.parity) >= 2
           /\ HalfBits(c) + ParityExcess(c.parity)
                = 2 * UnixBits(c) - (IF c.stopbits = "one_point_five" THEN 3 ELSE 0)
  <1>1. c.bytesize \in Nat
    BY Values
  <1>2. c.parity \in {"none", "odd", "even", "mark", "space"}
    BY Values
  <1>3. c.stopbits \in {"one", "two", "one_point_five"}
    BY Values
  <1> DEFINE p == ParityValue(c.parity)
             x == ParityExcess(c.parity)
             i == IF c.parity = "none" THEN 0 ELSE 2
             h == HalfBits(c)
             s == StopbitsValue(c.stopbits)
  <1>4. p \in Nat /\ x \in Nat /\ i \in Nat /\ 2 * p = x + i
    BY <1>2 DEF ParityValue, ParityExcess
  <1>5. UnixBits(c) = 1 + c.bytesize + p + s
    BY DEF UnixBits
  <1> HIDE DEF p, x
  <1>6. CASE c.stopbits = "one"
    <2>1. s = 1 /\ h = 2 * (1 + c.bytesize) + i + 2
      BY <1>6 DEF StopbitsValue, HalfBits
    <2> HIDE DEF s, h, i
    <2> QED
      BY <1>1, <1>4, <1>5, <1>6, <2>1 DEF h, x
  <1>7. CASE c.stopbits = "two"
    <2>1. s = 2 /\ h = 2 * (1 + c.bytesize) + i + 4
      BY <1>7 DEF StopbitsValue, HalfBits
    <2> HIDE DEF s, h, i
    <2> QED
      BY <1>1, <1>4, <1>5, <1>7, <2>1 DEF h, x
  <1>8. CASE c.stopbits = "one_point_five"
    <2>1. s = 3 /\ h = 2 * (1 + c.bytesize) + i + 3
      BY <1>8 DEF StopbitsValue, HalfBits
    <2> HIDE DEF s, h, i
    <2> QED
      BY <1>1, <1>4, <1>5, <1>8, <2>1 DEF h, x
  <1> QED
    BY <1>3, <1>6, <1>7, <1>8

\* The time of a character is that of its bits, short of what was dropped.
LEMMA ByteTimeDef ==
    ASSUME NEW c \in Config
    PROVE  /\ UnixByteTime(c) \in Nat
           /\ TimeFits(c, UnixByteTime(c))
  <1> DEFINE n == HalfBits(c) + ParityExcess(c.parity)
             q == UnixBitTime(c)
             t == UnixByteTime(c)
             u == UnixBits(c)
             half == c.stopbits = "one_point_five"
  <1>1. c.baud \in Nat /\ c.baud >= 4 /\ Second \in Nat
    BY RateAssumption, ValueAssumption DEF Config
  <1>2. q \in Nat /\ q = Second \div c.baud
    BY <1>1, DivRest DEF UnixBitTime
  <1>3. n \in Nat /\ n >= 2 /\ u \in Nat /\ n = 2 * u - (IF half THEN 3 ELSE 0)
    BY BitsDef
  <1>4. t = IF half THEN (2 * (q * u) - 3 * q) \div 2 ELSE q * u
    BY DEF UnixByteTime
  <1> HIDE DEF n, q, t, u, half
  <1> DEFINE m == n * q
             w == q * u
  <1>5. m \in Nat /\ w \in Nat /\ m = IF half THEN 2 * w - 3 * q ELSE 2 * w
    <2>1. CASE half
      <3>1. n = 2 * u - 3
        BY <1>3, <2>1
      <3>2. (2 * u - 3) * q = 2 * (q * u) - 3 * q
        BY <1>2, <1>3
      <3> QED
        BY <1>2, <1>3, <2>1, <3>1, <3>2
    <2>2. CASE ~half
      <3>1. n = 2 * u
        BY <1>3, <2>2
      <3>2. (2 * u) * q = 2 * (q * u)
        BY <1>2, <1>3
      <3> QED
        BY <1>2, <1>3, <2>2, <3>1, <3>2
    <2> QED
      BY <2>1, <2>2
  <1>6. t \in Nat /\ 2 * t <= m /\ m <= 2 * t + 1
    <2>1. t = IF half THEN (2 * w - 3 * q) \div 2 ELSE w
      BY <1>4
    <2> HIDE DEF m, w
    <2>2. CASE half
      <3>1. t = m \div 2
        BY <1>5, <2>1, <2>2
      <3> QED
        BY <1>5, <3>1
    <2>3. CASE ~half
      BY <1>5, <2>1, <2>3
    <2> QED
      BY <2>2, <2>3
  <1>7. 2 * t <= n * q /\ n * q <= 2 * t + 1
    BY <1>6
  <1> HIDE DEF m, w
  <1> DEFINE b == c.baud
  <1>8. b \in Nat /\ b >= 1 /\ n >= 1 /\ t \in Int /\ q = Second \div b
    BY <1>1, <1>2, <1>3, <1>6
  <1> HIDE DEF b
  <1>9. 2 * b * t <= n * Second /\ 2 * b * t > n * Second - (n + 1) * b
    BY ONLY <1>1, <1>2, <1>3, <1>7, <1>8, Truncated
  <1> QED
    BY <1>6, <1>9 DEF b, t, n, TimeFits

-----------------------------------------------------------------------------
(* The ends of a call.                                                     *)

\* A Unix system has no bit for one and a half stop bits.
LinesPlain(d) == os = "unix" => \A p \in Port : ~d.line[p].half

\* States of an object and the kernel a call may start from.
Starts(o, d) ==
    /\ o \in Object /\ d \in Device /\ LinesPlain(d)
    /\ Cardinality(d.live) <= MaxHandles
    /\ o.isOpen => o.port \in Port

Lost(o, d) == o.isOpen /\ o.fd \notin d.live

Ends == [ok : BOOLEAN, obj : Object, dev : Device]

\* What a call may do to descriptors, from o and d.
EndFits(o, d, e) ==
    /\ e \in Ends /\ Starts(e.obj, e.dev)
    /\ Lost(e.obj, e.dev) => ~e.ok \/ Lost(o, d)
    /\ \E h \in 0 .. MaxHandles :
          Orphans(TRUE, e.obj, e.dev) \subseteq Orphans(TRUE, o, d) \cup {h}
    /\ e.ok => Orphans(TRUE, e.obj, e.dev) \subseteq Orphans(TRUE, o, d)

\* The line is as the fields say, if all of it was made, and so is the time.
Agrees(o, d) ==
    /\ o.made => LineAgrees(o.cfg, d.line[o.port])
    /\ os = "unix" => TimeFits(o.cfg, o.bytes)

EndSets(e) == e.ok /\ e.obj.isOpen => Agrees(e.obj, e.dev)

\* Setting one line leaves the others and the descriptors alone.
LEMMA SetLine ==
    ASSUME NEW d \in Device, NEW p \in Port, NEW l \in Line
    PROVE  LET n == [d EXCEPT !.line[p] = l] IN
           /\ n \in Device /\ n.live = d.live /\ n.line[p] = l
           /\ \A q \in Port : q # p => n.line[q] = d.line[q]
           /\ n.comm = d.comm
  BY DEF Device

\* Whatever tcsetattr makes of the settings it is asked for, they are those of
\* a line without a bit for one and a half stop bits.
LEMMA PartlyDef ==
    ASSUME NEW l \in Line, NEW n \in Line, ~l.half, NEW m \in Partly(l, n)
    PROVE  m \in Line /\ ~m.half
  BY DEF Partly, Line

\* reconfigurePort of unix.cc keeps the object's descriptor and, when it
\* returns, has set the line or knows nothing of what it did not set.
LEMMA UnixReconfigureDef ==
    ASSUME os = "unix", NEW o \in Object, NEW d \in Device, LinesPlain(d),
           o.port \in Port, NEW e \in UnixReconfigure(o, d)
    PROVE  /\ e \in Ends /\ e.ok \in BOOLEAN /\ e.obj \in Object /\ e.dev \in Device
           /\ LinesPlain(e.dev)
           /\ e.obj.fd = o.fd /\ e.obj.isOpen = o.isOpen /\ e.obj.port = o.port
           /\ e.dev.live = d.live
           /\ e.ok => o.fd \in d.live /\ Agrees(e.obj, e.dev)
  <1> DEFINE c == o.cfg
             l == UnixDivisor(c, d.line[o.port])
             asked == UnixLine(c, l)
             divided == [d EXCEPT !.line[o.port] = l]
             set(m) == [d EXCEPT !.line[o.port] = m]
             timed(m) == [o EXCEPT !.bytes = UnixByteTime(c), !.made = (m = asked)]
  <1>1. \/ e = Throws(o, d)
        \/ c.bytesize \notin ValidBytesize /\ e = Throws(o, divided)
        \/ /\ c.bytesize \in ValidBytesize /\ o.fd \in d.live
           /\ \E m \in Partly(l, asked) : e = Returns(timed(m), set(m))
    BY DEF UnixReconfigure
  <1>2. c \in Config
    BY DEF Object
  <1>3. d.line[o.port] \in Line /\ ~d.line[o.port].half
    BY DEF Device, LinesPlain
  <1>4. l \in Line /\ ~l.half
    BY <1>2, <1>3, UnixSpeedDef
  <1> HIDE DEF l
  <1>5. CASE e = Throws(o, d)
    BY <1>5 DEF Throws, End, Ends
  <1>6. CASE e = Throws(o, divided)
    <2>1. /\ divided \in Device /\ divided.live = d.live /\ LinesPlain(divided)
      BY <1>4, SetLine DEF LinesPlain
    <2> QED
      BY <1>6, <2>1 DEF Throws, End, Ends
  <1>7. CASE /\ c.bytesize \in ValidBytesize /\ o.fd \in d.live
             /\ \E m \in Partly(l, asked) : e = Returns(timed(m), set(m))
    <2>1. PICK m \in Partly(l, asked) : e = Returns(timed(m), set(m))
      BY <1>7
    <2>2. asked \in Line /\ ~asked.half /\ LineAgrees(c, asked)
      BY <1>2, <1>4, <1>7, UnixLineDef
    <2> HIDE DEF asked
    <2>3. m \in Line /\ ~m.half
      BY <1>4, <2>1, <2>2, PartlyDef
    <2> DEFINE dm == set(m)
               om == timed(m)
    <2>4. /\ dm \in Device /\ dm.live = d.live /\ LinesPlain(dm) /\ dm.line[o.port] = m
      BY <2>3, SetLine DEF LinesPlain
    <2>5. UnixByteTime(c) \in Nat /\ TimeFits(c, UnixByteTime(c))
      BY <1>2, ByteTimeDef
    <2>6. /\ om \in Object /\ om.fd = o.fd /\ om.isOpen = o.isOpen /\ om.port = o.port
          /\ om.cfg = c /\ om.bytes = UnixByteTime(c) /\ (om.made <=> m = asked)
      BY <2>5 DEF Object
    <2>7. Agrees(om, dm)
      <3> HIDE DEF c, dm, om
      <3> QED
        BY <2>2, <2>4, <2>5, <2>6 DEF Agrees
    <2>8. e.ok = TRUE /\ e.obj = om /\ e.dev = dm
      BY <2>1 DEF Returns, End
    <2>9. e \in Ends
      BY <2>1, <2>4, <2>6 DEF Returns, End, Ends
    <2> HIDE DEF c, dm, om
    <2> QED
      BY <1>7, <2>4, <2>6, <2>7, <2>8, <2>9
  <1> QED
    BY <1>1, <1>5, <1>6, <1>7

\* reconfigurePort of win.cc may in addition close the descriptor and throw.
LEMMA WindowsReconfigureDef ==
    ASSUME os = "windows", NEW o \in Object, NEW d \in Device,
           o.port \in Port, NEW e \in WindowsReconfigure(o, d)
    PROVE  /\ e \in Ends /\ e.ok \in BOOLEAN /\ e.obj = o /\ e.dev \in Device
           /\ e.dev.live = d.live \/ e.dev.live = d.live \ {o.fd}
           /\ e.ok => o.fd \in d.live /\ e.dev.live = d.live /\ Agrees(e.obj, e.dev)
  <1> DEFINE c == o.cfg
             set == [d EXCEPT !.line[o.port] = WindowsLine(c)]
             shut == [d EXCEPT !.live = @ \ {o.fd}]
             timed == [set EXCEPT !.comm = o.timeout]
  <1>1. \/ e = Throws(o, d)
        \/ /\ c.bytesize \in ValidBytesize /\ o.fd \in d.live
           /\ e = Throws(o, shut) \/ e = Throws(o, set) \/ e = Returns(o, timed)
    BY DEF WindowsReconfigure
  <1>2. c \in Config /\ o.timeout \in Timeout
    BY DEF Object
  <1>3. shut \in Device /\ shut.live = d.live \ {o.fd}
    BY DEF Device
  <1>4. ASSUME c.bytesize \in ValidBytesize
        PROVE  /\ set \in Device /\ set.live = d.live
               /\ timed \in Device /\ timed.live = d.live
               /\ LineAgrees(c, timed.line[o.port])
    <2>1. WindowsLine(c) \in Line /\ LineAgrees(c, WindowsLine(c))
      BY <1>2, <1>4, WindowsLineDef
    <2>2. set \in Device /\ set.live = d.live /\ set.line[o.port] = WindowsLine(c)
      BY <2>1, SetLine
    <2> HIDE DEF set
    <2>3. timed \in Device /\ timed.live = d.live /\ timed.line = set.line
      BY <1>2, <2>2 DEF Device
    <2> QED
      BY <2>1, <2>2, <2>3
  <1> HIDE DEF c, set, shut, timed
  <1>5. CASE e = Throws(o, d)
    BY <1>5 DEF Throws, End, Ends
  <1>6. CASE e = Throws(o, shut)
    BY <1>3, <1>6 DEF Throws, End, Ends
  <1>7. CASE c.bytesize \in ValidBytesize /\ e = Throws(o, set)
    BY <1>4, <1>7 DEF Throws, End, Ends
  <1>8. CASE c.bytesize \in ValidBytesize /\ o.fd \in d.live /\ e = Returns(o, timed)
    BY <1>4, <1>8 DEF Returns, End, Ends, Agrees, c
  <1> QED
    BY <1>1, <1>5, <1>6, <1>7, <1>8

\* reconfigurePort of either system.
LEMMA ReconfigureDef ==
    ASSUME os \in {"unix", "windows"}, NEW o \in Object, NEW d \in Device, LinesPlain(d),
           o.port \in Port, NEW e \in Reconfigure(o, d)
    PROVE  /\ e \in Ends /\ e.ok \in BOOLEAN /\ e.obj \in Object /\ e.dev \in Device
           /\ LinesPlain(e.dev)
           /\ e.obj.fd = o.fd /\ e.obj.isOpen = o.isOpen /\ e.obj.port = o.port
           /\ e.dev.live = d.live \/ e.dev.live = d.live \ {o.fd}
           /\ e.ok => o.fd \in d.live /\ e.dev.live = d.live /\ Agrees(e.obj, e.dev)
  <1>1. CASE os = "unix"
    BY <1>1, UnixReconfigureDef DEF Reconfigure
  <1>2. CASE os = "windows"
    BY <1>2, WindowsReconfigureDef DEF Reconfigure, LinesPlain
  <1> QED
    BY <1>1, <1>2

\* Sets of descriptors are finite, and a free number is left while fewer than
\* MaxHandles are taken.
LEMMA Handles ==
    ASSUME NEW L \in SUBSET (0 .. MaxHandles), Cardinality(L) <= MaxHandles
    PROVE  /\ IsFiniteSet(L) /\ Cardinality(L) \in Nat
           /\ \E h \in 0 .. MaxHandles : h \notin L
           /\ \A x : Cardinality(L \ {x}) <= MaxHandles
           /\ Cardinality(L) # MaxHandles =>
                 \A h : Cardinality(L \cup {h}) <= MaxHandles
  <1>1. MaxHandles \in Nat \ {0}
    BY ValueAssumption
  <1>2. IsFiniteSet(0 .. MaxHandles) /\ Cardinality(0 .. MaxHandles) = MaxHandles + 1
    BY <1>1, FS_Interval
  <1>3. IsFiniteSet(L) /\ Cardinality(L) \in Nat
    BY <1>2, FS_Subset, FS_CardinalityType
  <1>4. L # 0 .. MaxHandles
    BY <1>1, <1>2
  <1>5. \A x : Cardinality(L \ {x}) <= MaxHandles
    BY <1>1, <1>3, FS_RemoveElement
  <1>6. \A h : Cardinality(L \cup {h}) <= Cardinality(L) + 1
    BY <1>3, FS_AddElement
  <1>7. ASSUME NEW h
        PROVE  Cardinality(L \cup {h}) \in Nat
    BY <1>3, FS_AddElement, FS_CardinalityType
  <1>8. \E h \in 0 .. MaxHandles : h \notin L
    BY <1>4
  <1>9. ASSUME Cardinality(L) # MaxHandles, NEW h
        PROVE  Cardinality(L \cup {h}) <= MaxHandles
    <2>1. Cardinality(L \cup {h}) \in Nat /\ Cardinality(L \cup {h}) <= Cardinality(L) + 1
      BY <1>6, <1>7
    <2> QED
      BY <1>1, <1>3, <1>9, <2>1
  <1> QED
    BY <1>3, <1>5, <1>8, <1>9

\* The number ::open takes was free.
LEMMA NewHandleDef ==
    ASSUME NEW d \in Device, Cardinality(d.live) <= MaxHandles
    PROVE  NewHandle(d) \in 0 .. MaxHandles /\ NewHandle(d) \notin d.live
  <1>1. d.live \in SUBSET (0 .. MaxHandles)
    BY DEF Device
  <1>2. \E h \in 0 .. MaxHandles : h \notin d.live
    BY <1>1, Handles
  <1> QED
    BY <1>2 DEF NewHandle

\* A call that leaves the object and the kernel alone.
LEMMA NothingDone ==
    ASSUME NEW o, NEW d, Starts(o, d), NEW e \in Ends, e.obj = o, e.dev = d
    PROVE  EndFits(o, d, e)
  <1>1. 0 \in 0 .. MaxHandles
    BY ValueAssumption
  <1> QED
    BY <1>1 DEF EndFits

\* One call after another that returned.
LEMMA ThenFits ==
    ASSUME NEW o, NEW d, NEW e, EndFits(o, d, e), e.ok,
           NEW p, NEW f, EndFits([e.obj EXCEPT !.port = p], e.dev, f)
    PROVE  EndFits(o, d, f)
  <1> DEFINE q == [e.obj EXCEPT !.port = p]
  <1>1. q.isOpen = e.obj.isOpen /\ q.fd = e.obj.fd
    BY DEF EndFits, Starts, Object
  <1>2. Orphans(TRUE, q, e.dev) = Orphans(TRUE, e.obj, e.dev) /\ Lost(q, e.dev) = Lost(e.obj, e.dev)
    BY <1>1 DEF Orphans, Lost
  <1> HIDE DEF q
  <1>3. /\ f \in Ends /\ Starts(f.obj, f.dev)
        /\ Lost(f.obj, f.dev) => ~f.ok \/ Lost(q, e.dev)
        /\ f.ok => Orphans(TRUE, f.obj, f.dev) \subseteq Orphans(TRUE, q, e.dev)
    BY DEF EndFits, q
  <1>4. PICK h \in 0 .. MaxHandles :
          Orphans(TRUE, f.obj, f.dev) \subseteq Orphans(TRUE, q, e.dev) \cup {h}
    BY DEF EndFits, q
  <1>5. /\ Lost(e.obj, e.dev) => Lost(o, d)
        /\ Orphans(TRUE, e.obj, e.dev) \subseteq Orphans(TRUE, o, d)
    BY DEF EndFits
  <1> QED
    BY <1>2, <1>3, <1>4, <1>5 DEF EndFits

\* A call on an open port that configures it anew.
LEMMA ReconfigureFits ==
    ASSUME os \in {"unix", "windows"}, NEW o, NEW d, Starts(o, d), o.isOpen,
           NEW q \in Object, q.fd = o.fd, q.isOpen = o.isOpen, q.port = o.port,
           NEW e \in Reconfigure(q, d)
    PROVE  EndFits(o, d, e) /\ EndSets(e) /\ e.dev.live \subseteq d.live
  <1>1. /\ o \in Object /\ d \in Device /\ LinesPlain(d) /\ q.port \in Port
        /\ Cardinality(d.live) <= MaxHandles
    BY DEF Starts
  <1>2. /\ e \in Ends /\ e.ok \in BOOLEAN /\ e.obj \in Object /\ e.dev \in Device
        /\ LinesPlain(e.dev)
        /\ e.obj.fd = o.fd /\ e.obj.isOpen = o.isOpen /\ e.obj.port = o.port
        /\ e.dev.live = d.live \/ e.dev.live = d.live \ {o.fd}
        /\ e.ok => o.fd \in d.live /\ e.dev.live = d.live /\ Agrees(e.obj, e.dev)
    <2>1. /\ e \in Ends /\ e.ok \in BOOLEAN /\ e.obj \in Object /\ e.dev \in Device
          /\ LinesPlain(e.dev)
          /\ e.obj.fd = q.fd /\ e.obj.isOpen = q.isOpen /\ e.obj.port = q.port
          /\ e.dev.live = d.live \/ e.dev.live = d.live \ {q.fd}
          /\ e.ok => q.fd \in d.live /\ e.dev.live = d.live /\ Agrees(e.obj, e.dev)
      BY <1>1, ReconfigureDef
    <2> QED
      BY <2>1
  <1>3. Cardinality(e.dev.live) <= MaxHandles
    BY <1>1, <1>2, Handles DEF Device
  <1>4. Starts(e.obj, e.dev)
    BY <1>1, <1>2, <1>3 DEF Starts
  <1>5. Orphans(TRUE, e.obj, e.dev) \subseteq Orphans(TRUE, o, d)
    BY <1>2 DEF Orphans
  <1>6. Lost(e.obj, e.dev) => ~e.ok
    BY <1>2 DEF Lost
  <1>7. 0 \in 0 .. MaxHandles
    BY ValueAssumption
  <1> QED
    BY <1>2, <1>4, <1>5, <1>6, <1>7 DEF EndFits, EndSets

\* open: a descriptor that is not the object's is left only by a throw.
LEMMA OpenFits ==
    ASSUME os \in {"unix", "windows"}, NEW o, NEW d, Starts(o, d), NEW e \in Open(o, d)
    PROVE  /\ EndFits(o, d, e) /\ EndSets(e)
           /\ \E k \in 0 .. MaxHandles : e.dev.live \subseteq d.live \cup {k}
  <1> DEFINE h == NewHandle(d)
             q == [o EXCEPT !.fd = h]
             b == [d EXCEPT !.live = @ \cup {h}]
             none == [o EXCEPT !.fd = NoHandle]
  <1>1. /\ o \in Object /\ d \in Device /\ LinesPlain(d)
        /\ Cardinality(d.live) <= MaxHandles /\ d.live \in SUBSET (0 .. MaxHandles)
        /\ 0 \in 0 .. MaxHandles
    BY ValueAssumption DEF Starts, Device
  <1>2. CASE e = Throws(o, d)
    <2>1. e \in Ends /\ e.ok = FALSE /\ e.obj = o /\ e.dev = d
      BY <1>1, <1>2 DEF Throws, End, Ends
    <2>2. EndFits(o, d, e)
      BY <2>1, NothingDone
    <2> QED
      BY <1>1, <2>1, <2>2 DEF EndSets
  <1>3. CASE ~o.isOpen /\ e = Throws(none, d)
    <2>0. none \in Object
      BY <1>1, ValueAssumption DEF Object, NoHandle
    <2>1. e \in Ends /\ e.ok = FALSE /\ e.obj = none /\ e.dev = d
      BY <1>1, <1>3, <2>0 DEF Throws, End, Ends
    <2>2. none \in Object /\ none.isOpen = o.isOpen
      BY <1>1, ValueAssumption DEF Object, NoHandle
    <2>3. Starts(none, d) /\ ~none.isOpen
      BY <1>1, <1>3, <2>2 DEF Starts
    <2> HIDE DEF none
    <2> QED
      BY <1>1, <1>3, <2>1, <2>3 DEF EndFits, EndSets, Lost, Orphans
  <1>4. ASSUME o.port # NoPort, ~o.isOpen, Cardinality(d.live) # MaxHandles,
               NEW r \in Reconfigure(q, b),
               e = IF r.ok THEN [r EXCEPT !.obj.isOpen = TRUE] ELSE r
        PROVE  /\ EndFits(o, d, e) /\ EndSets(e)
               /\ \E k \in 0 .. MaxHandles : e.dev.live \subseteq d.live \cup {k}
    <2>1. h \in 0 .. MaxHandles /\ h \notin d.live
      BY <1>1, NewHandleDef
    <2> HIDE DEF h
    <2>2. q \in Object /\ q.fd = h /\ q.isOpen = o.isOpen /\ q.port = o.port
      BY <1>1, <2>1, ValueAssumption DEF Object
    <2>3. b \in Device /\ b.live = d.live \cup {h} /\ b.line = d.line
      BY <1>1, <2>1 DEF Device
    <2>4. Cardinality(b.live) <= MaxHandles
      BY <1>1, <1>4, <2>3, Handles
    <2>5. LinesPlain(b) /\ o.port \in Port
      BY <1>1, <1>4, <2>3 DEF LinesPlain, Object
    <2> HIDE DEF q, b
    <2>6. /\ r \in Ends /\ r.ok \in BOOLEAN /\ r.obj \in Object /\ r.dev \in Device
          /\ LinesPlain(r.dev)
          /\ r.obj.fd = q.fd /\ r.obj.isOpen = q.isOpen /\ r.obj.port = q.port
          /\ r.dev.live = b.live \/ r.dev.live = b.live \ {q.fd}
          /\ r.ok => q.fd \in b.live /\ r.dev.live = b.live /\ Agrees(r.obj, r.dev)
      BY <2>2, <2>3, <2>5, ReconfigureDef
    <2>7. Cardinality(r.dev.live) <= MaxHandles
      BY <2>3, <2>4, <2>6, Handles DEF Device
    <2>8. r.dev.live \subseteq d.live \cup {h}
      BY <2>3, <2>6
    <2>9. CASE ~r.ok
      <3>1. e = r
        BY <1>4, <2>9
      <3>2. Starts(r.obj, r.dev) /\ ~r.obj.isOpen
        BY <1>4, <2>2, <2>6, <2>7 DEF Starts
      <3> QED
        BY <1>4, <2>1, <2>6, <2>8, <2>9, <3>1, <3>2 DEF EndFits, EndSets, Lost, Orphans
    <2>10. CASE r.ok
      <3> DEFINE u == [r.obj EXCEPT !.isOpen = TRUE]
      <3>1. e.ok = r.ok /\ e.obj = u /\ e.dev = r.dev /\ e \in Ends
        BY <1>4, <2>6, <2>10 DEF Ends, Object
      <3>2. /\ u \in Object /\ u.fd = h /\ u.port = o.port /\ u.isOpen = TRUE
            /\ u.cfg = r.obj.cfg /\ u.bytes = r.obj.bytes /\ u.made = r.obj.made
        BY <2>2, <2>6 DEF Object
      <3> HIDE DEF u
      <3>3. Starts(u, r.dev)
        BY <2>5, <2>6, <2>7, <3>2 DEF Starts
      <3>4. Agrees(u, r.dev)
        BY <2>2, <2>6, <2>10, <3>2 DEF Agrees
      <3>5. /\ ~Lost(u, r.dev) /\ Orphans(TRUE, u, r.dev) \subseteq Orphans(TRUE, o, d)
        BY <1>4, <2>2, <2>3, <2>6, <2>10, <3>2 DEF Lost, Orphans
      <3> QED
        BY <2>1, <2>6, <2>8, <3>1, <3>3, <3>4, <3>5 DEF EndFits, EndSets
    <2> QED
      BY <2>6, <2>9, <2>10
  <1>5. \/ e = Throws(o, d)
        \/ ~o.isOpen /\ e = Throws(none, d)
        \/ /\ o.port # NoPort /\ ~o.isOpen /\ Cardinality(d.live) # MaxHandles
           /\ \E r \in Reconfigure(q, b) :
                 e = IF r.ok THEN [r EXCEPT !.obj.isOpen = TRUE] ELSE r
    BY DEF Open
  <1> HIDE DEF h, q, b, none
  <1> QED
    BY <1>2, <1>3, <1>4, <1>5

\* close: an object that has returned from it is closed.
LEMMA CloseFits ==
    ASSUME os \in {"unix", "windows"}, NEW o, NEW d, Starts(o, d), NEW e \in Close(o, d)
    PROVE  /\ EndFits(o, d, e) /\ e.dev.live \subseteq d.live
           /\ e.ok => ~e.obj.isOpen
  <1> DEFINE gone == [d EXCEPT !.live = @ \ {o.fd}]
             shut == [o EXCEPT !.isOpen = FALSE]
             both == [o EXCEPT !.isOpen = FALSE, !.fd = NoHandle]
  <1>1. /\ o \in Object /\ d \in Device /\ LinesPlain(d)
        /\ Cardinality(d.live) <= MaxHandles /\ d.live \in SUBSET (0 .. MaxHandles)
        /\ 0 \in 0 .. MaxHandles
    BY ValueAssumption DEF Starts, Device
  <1>2. /\ gone \in Device /\ gone.live = d.live \ {o.fd} /\ LinesPlain(gone)
        /\ Cardinality(gone.live) <= MaxHandles
    <2>1. gone \in Device /\ gone.live = d.live \ {o.fd} /\ gone.line = d.line
      BY <1>1 DEF Device
    <2> HIDE DEF gone
    <2> QED
      BY <1>1, <2>1, Handles DEF LinesPlain
  <1>3. shut \in Object /\ ~shut.isOpen
    BY <1>1 DEF Object
  <1>4. both \in Object /\ ~both.isOpen
    <2>1. NoHandle \in -1 .. MaxHandles
      BY ValueAssumption DEF NoHandle
    <2> QED
      BY <1>1, <2>1 DEF Object
  <1>5. \/ e = Throws(o, d)
        \/ ~o.isOpen /\ e = Returns(o, d)
        \/ o.fd = NoHandle /\ e = Returns(shut, d)
        \/ o.isOpen /\ e = Throws(o, gone)
        \/ o.isOpen /\ e = Returns(both, gone)
    <2>1. CASE os = "unix"
      BY <2>1 DEF Close, UnixClose, Closed
    <2>2. CASE os = "windows"
      BY <2>2 DEF Close, WindowsClose, Closed
    <2> QED
      BY <2>1, <2>2
  <1>6. NoHandle \notin d.live
    BY <1>1, ValueAssumption DEF NoHandle
  <1> HIDE DEF gone, shut, both
  <1>7. CASE e = Throws(o, d)
    <2>1. e \in Ends /\ e.ok = FALSE /\ e.obj = o /\ e.dev = d
      BY <1>1, <1>7 DEF Throws, End, Ends
    <2> QED
      BY <2>1, NothingDone
  <1>8. CASE ~o.isOpen /\ e = Returns(o, d)
    <2>1. e \in Ends /\ e.ok = TRUE /\ e.obj = o /\ e.dev = d
      BY <1>1, <1>8 DEF Returns, End, Ends
    <2> QED
      BY <1>8, <2>1, NothingDone
  <1>9. CASE o.fd = NoHandle /\ e = Returns(shut, d)
    <2>1. e \in Ends /\ e.ok = TRUE /\ e.obj = shut /\ e.dev = d
      BY <1>1, <1>3, <1>9 DEF Returns, End, Ends
    <2>2. Starts(shut, d)
      BY <1>1, <1>3 DEF Starts
    <2>3. /\ ~Lost(shut, d)
          /\ Orphans(TRUE, shut, d) \subseteq Orphans(TRUE, o, d)
      BY <1>3, <1>6, <1>9 DEF Lost, Orphans
    <2> QED
      BY <1>1, <1>3, <2>1, <2>2, <2>3 DEF EndFits
  <1>10. CASE o.isOpen /\ e = Throws(o, gone)
    <2>1. e \in Ends /\ e.ok = FALSE /\ e.obj = o /\ e.dev = gone
      BY <1>1, <1>2, <1>10 DEF Throws, End, Ends
    <2>2. Starts(o, gone)
      BY <1>2 DEF Starts
    <2>3. Orphans(TRUE, o, gone) \subseteq Orphans(TRUE, o, d)
      BY <1>2 DEF Orphans
    <2>4. gone.live \subseteq d.live
      BY <1>2
    <2> QED
      BY <1>1, <2>1, <2>2, <2>3, <2>4 DEF EndFits
  <1>11. CASE o.isOpen /\ e = Returns(both, gone)
    <2>1. e \in Ends /\ e.ok = TRUE /\ e.obj = both /\ e.dev = gone
      BY <1>2, <1>4, <1>11 DEF Returns, End, Ends
    <2>2. Starts(both, gone)
      BY <1>2, <1>4 DEF Starts
    <2>3. /\ ~Lost(both, gone)
          /\ Orphans(TRUE, both, gone) \subseteq Orphans(TRUE, o, d)
      BY <1>2, <1>4, <1>11 DEF Lost, Orphans
    <2>4. gone.live \subseteq d.live
      BY <1>2
    <2> QED
      BY <1>1, <1>4, <2>1, <2>2, <2>3, <2>4 DEF EndFits
  <1> QED
    BY <1>5, <1>7, <1>8, <1>9, <1>10, <1>11

\* A setter on a closed port.
LEMMA SetClosed ==
    ASSUME NEW o, NEW d, Starts(o, d), ~o.isOpen,
           NEW q \in Object, ~q.isOpen, NEW e, e = Returns(q, d)
    PROVE  EndFits(o, d, e) /\ EndSets(e) /\ e.dev.live \subseteq d.live
  <1>1. /\ d \in Device /\ LinesPlain(d) /\ Cardinality(d.live) <= MaxHandles
        /\ 0 \in 0 .. MaxHandles
    BY ValueAssumption DEF Starts
  <1>2. e \in Ends /\ e.ok = TRUE /\ e.obj = q /\ e.dev = d
    BY <1>1 DEF Returns, End, Ends
  <1>3. Starts(q, d)
    BY <1>1 DEF Starts
  <1>4. ~Lost(q, d) /\ Orphans(TRUE, q, d) = Orphans(TRUE, o, d)
    BY DEF Lost, Orphans
  <1> QED
    BY <1>1, <1>2, <1>3, <1>4 DEF EndFits, EndSets

\* The five setters of the configuration.
LEMMA SetConfigFits ==
    ASSUME os \in {"unix", "windows"}, NEW o, NEW d, Starts(o, d), NEW c \in Config,
           NEW e \in SetConfig(c, o, d)
    PROVE  EndFits(o, d, e) /\ EndSets(e)
  <1> DEFINE q == [o EXCEPT !.cfg = c]
  <1>1. q \in Object /\ q.fd = o.fd /\ q.isOpen = o.isOpen /\ q.port = o.port
    BY DEF Starts, Object
  <1>2. /\ o.isOpen => e \in Reconfigure(q, d)
        /\ ~o.isOpen => e = Returns(q, d)
    BY DEF SetConfig
  <1> HIDE DEF q
  <1>3. CASE o.isOpen
    BY <1>1, <1>2, <1>3, ReconfigureFits
  <1>4. CASE ~o.isOpen
    BY <1>1, <1>2, <1>4, SetClosed
  <1> QED
    BY <1>3, <1>4

\* setTimeout.
LEMMA SetTimeoutFits ==
    ASSUME os \in {"unix", "windows"}, NEW o, NEW d, Starts(o, d), NEW t \in Timeout,
           NEW e \in SetTimeout(t, o, d)
    PROVE  /\ EndFits(o, d, e) /\ e.dev.live \subseteq d.live
           /\ os = "windows" \/ (o.isOpen => Agrees(o, d)) => EndSets(e)
  <1> DEFINE q == [o EXCEPT !.timeout = t]
  <1>1. /\ q \in Object /\ q.fd = o.fd /\ q.isOpen = o.isOpen /\ q.port = o.port
        /\ q.cfg = o.cfg /\ q.bytes = o.bytes /\ q.made = o.made
    BY DEF Starts, Object
  <1>2. /\ os = "windows" /\ o.isOpen => e \in Reconfigure(q, d)
        /\ ~(os = "windows" /\ o.isOpen) => e = Returns(q, d)
    BY DEF SetTimeout
  <1> HIDE DEF q
  <1>3. CASE ~o.isOpen
    BY <1>1, <1>2, <1>3, SetClosed
  <1>4. CASE os = "windows" /\ o.isOpen
    BY <1>1, <1>2, <1>4, ReconfigureFits
  <1>5. CASE os = "unix" /\ o.isOpen
    <2>1. /\ d \in Device /\ LinesPlain(d) /\ Cardinality(d.live) <= MaxHandles
          /\ 0 \in 0 .. MaxHandles /\ o.port \in Port
      BY <1>5, ValueAssumption DEF Starts
    <2>2. e = Returns(q, d)
      BY <1>2, <1>5
    <2>3. e \in Ends /\ e.ok = TRUE /\ e.obj = q /\ e.dev = d
      BY <1>1, <2>1, <2>2 DEF Returns, End, Ends
    <2>4. Starts(q, d)
      BY <1>1, <2>1 DEF Starts
    <2>5. Lost(q, d) = Lost(o, d) /\ Orphans(TRUE, q, d) = Orphans(TRUE, o, d)
      BY <1>1 DEF Lost, Orphans
    <2>6. Agrees(o, d) => Agrees(q, d)
      BY <1>1 DEF Agrees
    <2>7. EndFits(o, d, e)
      BY <2>1, <2>3, <2>4, <2>5 DEF EndFits
    <2> QED
      BY <1>5, <2>3, <2>6, <2>7 DEF EndSets
  <1> QED
    BY <1>3, <1>4, <1>5

\* setPort.
LEMMA SetPortFits ==
    ASSUME os \in {"unix", "windows"}, NEW o, NEW d, Starts(o, d),
           NEW p \in Port \cup {NoPort}, NEW e \in SetPort(p, o, d)
    PROVE  EndFits(o, d, e) /\ EndSets(e)
  <1>1. CASE ~o.isOpen
    <2> DEFINE q == [o EXCEPT !.port = p]
    <2>1. q \in Object /\ ~q.isOpen
      BY <1>1 DEF Starts, Object
    <2>2. e = Returns(q, d)
      BY <1>1 DEF SetPort
    <2> HIDE DEF q
    <2> QED
      BY <1>1, <2>1, <2>2, SetClosed
  <1>2. CASE o.isOpen
    <2>1. PICK r \in Close(o, d) :
            e \in IF r.ok THEN Open([r.obj EXCEPT !.port = p], r.dev) ELSE {r}
      BY <1>2 DEF SetPort
    <2>2. EndFits(o, d, r) /\ (r.ok => ~r.obj.isOpen)
      BY CloseFits
    <2>3. CASE ~r.ok
      <3>1. e = r
        BY <2>1, <2>3
      <3> QED
        BY <2>2, <2>3, <3>1 DEF EndSets
    <2>4. CASE r.ok
      <3> DEFINE q == [r.obj EXCEPT !.port = p]
      <3>1. e \in Open(q, r.dev)
        BY <2>1, <2>4
      <3>2. Starts(r.obj, r.dev)
        BY <2>2 DEF EndFits
      <3>3. q \in Object /\ ~q.isOpen
        BY <2>2, <2>4, <3>2 DEF Starts, Object
      <3> HIDE DEF q
      <3>4. Starts(q, r.dev)
        BY <3>2, <3>3 DEF Starts
      <3>5. EndFits(q, r.dev, e) /\ EndSets(e)
        BY <3>1, <3>4, OpenFits
      <3>6. EndFits([r.obj EXCEPT !.port = p], r.dev, e)
        BY <3>5 DEF q
      <3> QED
        BY <2>2, <2>4, <3>5, <3>6, ThenFits
    <2> QED
      BY <2>3, <2>4
  <1> QED
    BY <1>1, <1>2

\* The constructor.
LEMMA ConstructFits ==
    ASSUME os \in {"unix", "windows"}, NEW d \in Device, LinesPlain(d),
           Cardinality(d.live) <= MaxHandles,
           NEW p \in Port \cup {NoPort}, NEW c \in Config, NEW t \in Timeout,
           NEW e \in Construct(p, c, t, d)
    PROVE  /\ e \in Ends /\ Starts(e.obj, e.dev) /\ EndSets(e)
           /\ Lost(e.obj, e.dev) => ~e.ok
           /\ e.ok => Orphans(TRUE, e.obj, e.dev) \subseteq d.live
           /\ \E k \in 0 .. MaxHandles : e.dev.live \subseteq d.live \cup {k}
  <1> DEFINE n == New(p, c)
             first == IF p = NoPort THEN {Returns(n, d)} ELSE Open(n, d)
  <1>1. n \in Object /\ ~n.isOpen /\ n.port = p
    <2>1. NoHandle \in -1 .. MaxHandles /\ DefaultTimeout \in Timeout /\ 0 \in Nat
      BY ValueAssumption DEF NoHandle
    <2> QED
      BY <2>1 DEF New, Object
  <1>2. Starts(n, d)
    BY <1>1 DEF Starts
  <1>3. ~Lost(n, d) /\ Orphans(TRUE, n, d) = d.live
    BY <1>1 DEF Lost, Orphans
  <1>4. PICK r \in first : e \in IF r.ok THEN SetTimeout(t, r.obj, r.dev) ELSE {r}
    BY DEF Construct
  <1> HIDE DEF n
  <1>5. /\ EndFits(n, d, r) /\ EndSets(r)
        /\ \E k \in 0 .. MaxHandles : r.dev.live \subseteq d.live \cup {k}
    <2>1. CASE p = NoPort
      <3>1. r = Returns(n, d)
        BY <2>1, <1>4
      <3>2. EndFits(n, d, r) /\ EndSets(r) /\ r.dev.live \subseteq d.live
        BY <1>1, <1>2, <3>1, SetClosed
      <3>3. 0 \in 0 .. MaxHandles
        BY ValueAssumption
      <3> QED
        BY <3>2, <3>3
    <2>2. CASE p # NoPort
      <3>1. r \in Open(n, d)
        BY <2>2, <1>4
      <3> QED
        BY <1>2, <3>1, OpenFits
    <2> QED
      BY <2>1, <2>2
  <1> HIDE DEF first
  <1>6. PICK k \in 0 .. MaxHandles : r.dev.live \subseteq d.live \cup {k}
    BY <1>5
  <1>7. /\ r \in Ends /\ Starts(r.obj, r.dev)
        /\ Lost(r.obj, r.dev) => ~r.ok
        /\ r.ok => Orphans(TRUE, r.obj, r.dev) \subseteq d.live
    BY <1>3, <1>5 DEF EndFits
  <1>8. CASE ~r.ok
    <2>1. e = r
      BY <1>4, <1>8
    <2> QED
      BY <1>5, <1>6, <1>7, <1>8, <2>1
  <1>9. CASE r.ok
    <2>1. e \in SetTimeout(t, r.obj, r.dev)
      BY <1>4, <1>9
    <2>2. r.obj.isOpen => Agrees(r.obj, r.dev)
      BY <1>5, <1>9 DEF EndSets
    <2>3. EndFits(r.obj, r.dev, e) /\ e.dev.live \subseteq r.dev.live /\ EndSets(e)
      BY <1>7, <2>1, <2>2, SetTimeoutFits
    <2>4. /\ e \in Ends /\ Starts(e.obj, e.dev)
          /\ Lost(e.obj, e.dev) => ~e.ok \/ Lost(r.obj, r.dev)
          /\ e.ok => Orphans(TRUE, e.obj, e.dev) \subseteq Orphans(TRUE, r.obj, r.dev)
      BY <2>3 DEF EndFits
    <2>5. e.dev.live \subseteq d.live \cup {k}
      BY <1>6, <2>3
    <2> QED
      BY <1>7, <1>9, <2>3, <2>4, <2>5
  <1> QED
    BY <1>8, <1>9

\* The calls that only ask or tell the system something.
LEMMA NothingSet ==
    ASSUME NEW o, NEW d, Starts(o, d),
           NEW e \in Ask(o, d) \cup Tell(o, d) \cup WindowsSendBreak(o, d)
                     \cup UnixWaitForChange(o, d) \cup WindowsAvailable(o, d)
    PROVE  EndFits(o, d, e)
  <1>1. e = Returns(o, d) \/ e = Throws(o, d)
    BY DEF Ask, Tell, WindowsSendBreak, UnixWaitForChange, WindowsAvailable
  <1>2. e \in Ends /\ e.obj = o /\ e.dev = d
    <2>1. o \in Object /\ d \in Device
      BY DEF Starts
    <2>2. CASE e = Returns(o, d)
      BY <2>1, <2>2 DEF Returns, End, Ends
    <2>3. CASE e = Throws(o, d)
      BY <2>1, <2>3 DEF Throws, End, Ends
    <2> QED
      BY <1>1, <2>2, <2>3
  <1> QED
    BY <1>2, NothingDone
-----------------------------------------------------------------------------
(* The inductive invariant.                                                *)

\* LineAsReported and ByteTimeClose follow from Agrees; the others say where
\* every call starts.
IInv ==
    /\ TypeOK
    /\ Starts(obj, dev)
    /\ ~exists => ~obj.isOpen
    /\ InForce => Agrees(obj, dev)

\* What a step does to descriptors.
StepFits ==
    /\ exists' /\ Lost(obj', dev') => ~last'.ok \/ (exists /\ Lost(obj, dev))
    /\ \E h \in 0 .. MaxHandles :
          Orphans(exists', obj', dev') \subseteq Orphans(exists, obj, dev) \cup {h}
    /\ last'.ok => Orphans(exists', obj', dev') \subseteq Orphans(exists, obj, dev)

LEMMA Systems == ASSUME IInv PROVE os \in {"unix", "windows"}
  BY ValueAssumption DEF IInv, TypeOK

\* The line stays in agreement when the system does not change.
LEMMA AgreesNext ==
    ASSUME NEW e, Agrees(e.obj, e.dev), os' = os, obj' = e.obj, dev' = e.dev
    PROVE  Agrees(obj, dev)'
  BY DEF Agrees, LineAgrees, ShownParity, TimeFits, HalfBits, ParityExcess

\* Where a step ends is where the next one starts.
LEMMA StartsNext ==
    ASSUME NEW o, NEW d, Starts(o, d), os' = os, obj' = o, dev' = d
    PROVE  Starts(obj, dev)'
  BY DEF Starts, LinesPlain

\* A method of an object that exists.
LEMMA CallStep ==
    ASSUME IInv, NEW s \in BOOLEAN, NEW ends, Calls(s, ends),
           \A e \in ends : EndFits(obj, dev, e) /\ (s => EndSets(e))
    PROVE  IInv' /\ StepFits
  <1>1. exists /\ exists' = exists
    BY DEF Calls
  <1>2. PICK e \in ends : Done(s, e)
    BY DEF Calls
  <1>3. EndFits(obj, dev, e) /\ (s => EndSets(e))
    OBVIOUS
  <1>4. /\ obj' = e.obj /\ dev' = e.dev /\ os' = os
        /\ last' = [ok |-> e.ok, sets |-> s]
    BY <1>2 DEF Done
  <1>5. e \in Ends /\ Starts(e.obj, e.dev)
    BY <1>3 DEF EndFits
  <1>6. TypeOK'
    <2>1. e.ok \in BOOLEAN /\ e.obj \in Object /\ e.dev \in Device
      BY <1>5 DEF Ends
    <2> QED
      BY <1>1, <1>4, <2>1 DEF IInv, TypeOK
  <1>7. Starts(obj, dev)'
    BY <1>4, <1>5, StartsNext
  <1>8. (InForce => Agrees(obj, dev))'
    <2> SUFFICES ASSUME InForce'
                 PROVE  Agrees(obj, dev)'
      OBVIOUS
    <2>1. e.ok /\ s /\ e.obj.isOpen
      BY <1>4 DEF InForce
    <2>2. Agrees(e.obj, e.dev)
      BY <1>3, <2>1 DEF EndSets
    <2> QED
      BY <1>4, <2>2, AgreesNext
  <1>9. IInv'
    BY <1>1, <1>6, <1>7, <1>8 DEF IInv
  <1>10. StepFits
    <2>1. /\ Lost(e.obj, e.dev) => ~e.ok \/ Lost(obj, dev)
          /\ \E h \in 0 .. MaxHandles :
                Orphans(TRUE, e.obj, e.dev) \subseteq Orphans(TRUE, obj, dev) \cup {h}
          /\ e.ok => Orphans(TRUE, e.obj, e.dev) \subseteq Orphans(TRUE, obj, dev)
      BY <1>3 DEF EndFits
    <2>2. exists = TRUE /\ exists' = TRUE
      BY <1>1 DEF IInv, TypeOK
    <2> QED
      BY <1>4, <2>1, <2>2 DEF StepFits
  <1> QED
    BY <1>9, <1>10

\* The object that does not exist is closed.
LEMMA NoObjectDef == NoObject \in Object /\ ~NoObject.isOpen
  <1>1. \E c \in Built : TRUE
    BY BuiltAssumption
  <1>2. (CHOOSE c \in Built : TRUE) \in Config
    BY <1>1, BuiltAssumption
  <1>3. NoHandle \in -1 .. MaxHandles /\ DefaultTimeout \in Timeout /\ 0 \in Nat
    BY ValueAssumption DEF NoHandle
  <1> QED
    BY <1>2, <1>3 DEF NoObject, New, Object

LEMMA InitInv == Init => IInv
  <1> SUFFICES ASSUME Init
               PROVE  IInv
    OBVIOUS
  <1> USE DEF Init
  <1>1. FreshLine \in Line /\ ~FreshLine.half
    <2>1. 38400 \in StandardBaud /\ 8 \in ValidBytesize
      BY ValueAssumption DEF ValidBytesize
    <2> QED
      BY <2>1 DEF FreshLine, Line
  <1>2. dev \in Device /\ LinesPlain(dev) /\ dev.live = {}
    <2>1. DefaultTimeout \in Timeout
      BY ValueAssumption
    <2> QED
      BY <1>1, <2>1 DEF Device, LinesPlain
  <1>3. Cardinality(dev.live) <= MaxHandles
    BY <1>2, FS_EmptySet, ValueAssumption
  <1>4. obj \in Object /\ ~obj.isOpen
    BY NoObjectDef
  <1>5. TypeOK
    BY <1>2, <1>4 DEF TypeOK
  <1> QED
    BY <1>2, <1>3, <1>4, <1>5 DEF IInv, Starts, InForce

LEMMA ConstructorStep ==
    ASSUME IInv, ConstructorCall
    PROVE  IInv' /\ StepFits
  <1>1. PICK p \in Port \cup {NoPort}, c \in Built, t \in Timeout :
          \E e \in Construct(p, c, t, dev) :
             /\ exists' = e.ok
             /\ Done(TRUE, IF e.ok THEN e ELSE [e EXCEPT !.obj = NoObject])
    BY DEF ConstructorCall
  <1>2. PICK e \in Construct(p, c, t, dev) :
          /\ exists' = e.ok
          /\ Done(TRUE, IF e.ok THEN e ELSE [e EXCEPT !.obj = NoObject])
    BY <1>1
  <1>3. ~exists /\ c \in Config /\ os \in {"unix", "windows"}
    BY BuiltAssumption, Systems DEF ConstructorCall
  <1>4. dev \in Device /\ LinesPlain(dev) /\ Cardinality(dev.live) <= MaxHandles
    BY DEF IInv, Starts
  <1>5. /\ e \in Ends /\ Starts(e.obj, e.dev) /\ EndSets(e)
        /\ Lost(e.obj, e.dev) => ~e.ok
        /\ e.ok => Orphans(TRUE, e.obj, e.dev) \subseteq dev.live
        /\ \E k \in 0 .. MaxHandles : e.dev.live \subseteq dev.live \cup {k}
    BY <1>3, <1>4, ConstructFits
  <1>6. Orphans(exists, obj, dev) = dev.live
    BY <1>3 DEF Orphans
  <1>7. CASE e.ok
    <2>1. /\ exists' = TRUE /\ obj' = e.obj /\ dev' = e.dev /\ os' = os
          /\ last' = [ok |-> TRUE, sets |-> TRUE]
      BY <1>2, <1>5, <1>7 DEF Done, Ends
    <2>2. TypeOK'
      <3>1. e.obj \in Object /\ e.dev \in Device
        BY <1>5 DEF Ends
      <3> QED
        BY <2>1, <3>1 DEF IInv, TypeOK
    <2>3. Starts(obj, dev)'
      BY <1>5, <2>1, StartsNext
    <2>4. (InForce => Agrees(obj, dev))'
      <3> SUFFICES ASSUME InForce'
                   PROVE  Agrees(obj, dev)'
        OBVIOUS
      <3>1. Agrees(e.obj, e.dev)
        BY <1>5, <1>7, <2>1 DEF InForce, EndSets
      <3> QED
        BY <2>1, <3>1, AgreesNext
    <2>5. IInv'
      BY <2>1, <2>2, <2>3, <2>4 DEF IInv
    <2>6. ~Lost(obj', dev') /\ Orphans(exists', obj', dev') \subseteq dev.live
      BY <1>5, <1>7, <2>1
    <2>7. 0 \in 0 .. MaxHandles
      BY ValueAssumption
    <2> QED
      BY <1>6, <2>5, <2>6, <2>7 DEF StepFits
  <1>8. CASE ~e.ok
    <2>1. /\ exists' = FALSE /\ obj' = NoObject /\ dev' = e.dev /\ os' = os
          /\ last' = [ok |-> FALSE, sets |-> TRUE]
      <3>1. e.ok = FALSE
        BY <1>5, <1>8 DEF Ends
      <3>2. LET f == [e EXCEPT !.obj = NoObject] IN
            f.ok = FALSE /\ f.obj = NoObject /\ f.dev = e.dev
        BY <1>5, <3>1 DEF Ends
      <3> QED
        BY <1>2, <3>1, <3>2 DEF Done
    <2>2. NoObject \in Object /\ ~NoObject.isOpen
      BY NoObjectDef
    <2>3. TypeOK'
      <3>1. e.dev \in Device
        BY <1>5 DEF Ends
      <3> QED
        BY <2>1, <2>2, <3>1 DEF IInv, TypeOK
    <2>4. Starts(NoObject, e.dev)
      BY <1>5, <2>2 DEF Starts
    <2>5. Starts(obj, dev)'
      BY <2>1, <2>4, StartsNext
    <2>6. IInv'
      BY <2>1, <2>2, <2>3, <2>5 DEF IInv, InForce
    <2>7. Orphans(exists', obj', dev') = e.dev.live
      BY <2>1 DEF Orphans
    <2> QED
      BY <1>5, <1>6, <2>1, <2>6, <2>7 DEF StepFits
  <1> QED
    BY <1>7, <1>8

LEMMA DestructorStep ==
    ASSUME IInv, DestructorCall
    PROVE  IInv' /\ StepFits
  <1> DEFINE after(e) == IF e.ok THEN e.dev ELSE [e.dev EXCEPT !.live = {}]
  <1>1. PICK e \in Close(obj, dev) :
          Done(FALSE, [ok |-> e.ok, obj |-> NoObject, dev |-> after(e)])
    BY DEF DestructorCall
  <1>2. /\ EndFits(obj, dev, e) /\ e.dev.live \subseteq dev.live
        /\ e.ok => ~e.obj.isOpen
    BY Systems, CloseFits DEF IInv
  <1>3. /\ e \in Ends /\ Starts(e.obj, e.dev)
        /\ e.ok => Orphans(TRUE, e.obj, e.dev) \subseteq Orphans(TRUE, obj, dev)
    BY <1>2 DEF EndFits
  <1>4. /\ e.dev \in Device /\ LinesPlain(e.dev)
        /\ Cardinality(e.dev.live) <= MaxHandles
    BY <1>3 DEF Starts
  <1>5. after(e) \in Device /\ LinesPlain(after(e)) /\ Cardinality(after(e).live) <= MaxHandles
    <2>1. CASE e.ok
      BY <1>4, <2>1
    <2>2. CASE ~e.ok
      <3>1. /\ after(e) \in Device /\ after(e).line = e.dev.line
            /\ after(e).live = {}
        BY <1>4, <2>2 DEF Device
      <3>2. Cardinality({}) <= MaxHandles
        BY FS_EmptySet, ValueAssumption
      <3> HIDE DEF after
      <3> QED
        BY <1>4, <3>1, <3>2 DEF LinesPlain
    <2> QED
      BY <2>1, <2>2
  <1>6. after(e).live \subseteq Orphans(TRUE, obj, dev)
    <2>1. CASE e.ok
      BY <1>2, <1>3, <2>1 DEF Orphans
    <2>2. CASE ~e.ok
      BY <1>4, <2>2 DEF Device
    <2> QED
      BY <2>1, <2>2
  <1> HIDE DEF after
  <1>7. /\ exists' = FALSE /\ obj' = NoObject /\ dev' = after(e) /\ os' = os
        /\ last' = [ok |-> e.ok, sets |-> FALSE]
    BY <1>1 DEF Done, DestructorCall
  <1>8. exists = TRUE
    BY DEF IInv, TypeOK, DestructorCall
  <1>9. NoObject \in Object /\ ~NoObject.isOpen
    BY NoObjectDef
  <1>10. TypeOK'
    <2>1. e.ok \in BOOLEAN
      BY <1>3 DEF Ends
    <2> QED
      BY <1>5, <1>7, <1>9, <2>1 DEF IInv, TypeOK
  <1>11. Starts(NoObject, after(e))
    BY <1>5, <1>9 DEF Starts
  <1>12. Starts(obj, dev)'
    BY <1>7, <1>11, StartsNext
  <1>13. IInv'
    BY <1>7, <1>9, <1>10, <1>12 DEF IInv, InForce
  <1>14. Orphans(exists', obj', dev') \subseteq Orphans(exists, obj, dev)
    BY <1>6, <1>7, <1>8 DEF Orphans
  <1>15. 0 \in 0 .. MaxHandles
    BY ValueAssumption
  <1> QED
    BY <1>7, <1>13, <1>14, <1>15 DEF StepFits

\* A setter of the configuration, whatever it sets.
LEMMA ConfigureStep ==
    ASSUME IInv, NEW c \in Config, Configure(c)
    PROVE  IInv' /\ StepFits
  <1>1. \A e \in SetConfig(c, obj, dev) : EndFits(obj, dev, e) /\ EndSets(e)
    BY Systems, SetConfigFits DEF IInv
  <1> QED
    BY <1>1, CallStep DEF Configure

\* One field is set, the others are kept.
LEMMA FieldSet ==
    ASSUME IInv
    PROVE  /\ \A v \in Baudrate : [obj.cfg EXCEPT !.baud = v] \in Config
           /\ \A v \in Bytesize : [obj.cfg EXCEPT !.bytesize = v] \in Config
           /\ \A v \in Parity : [obj.cfg EXCEPT !.parity = v] \in Config
           /\ \A v \in Stopbits : [obj.cfg EXCEPT !.stopbits = v] \in Config
           /\ \A v \in Flowcontrol : [obj.cfg EXCEPT !.flow = v] \in Config
  <1>1. obj.cfg \in Config
    BY DEF IInv, TypeOK, Object
  <1> QED
    BY <1>1 DEF Config

\* A call that configures nothing.
LEMMA QuietStep ==
    ASSUME IInv, NEW ends, Calls(FALSE, ends),
           \A e \in ends : e \in Ask(obj, dev) \cup Tell(obj, dev)
                                \cup WindowsSendBreak(obj, dev)
                                \cup UnixWaitForChange(obj, dev)
                                \cup WindowsAvailable(obj, dev)
    PROVE  IInv' /\ StepFits
  <1>1. \A e \in ends : EndFits(obj, dev, e)
    BY NothingSet DEF IInv
  <1> QED
    BY <1>1, CallStep

LEMMA NextInv ==
    ASSUME IInv, Next
    PROVE  IInv' /\ StepFits
  <1>1. Starts(obj, dev) /\ os \in {"unix", "windows"}
    BY Systems DEF IInv
  <1>2. CASE ConstructorCall
    BY <1>2, ConstructorStep
  <1>3. CASE OpenCall
    <2>1. \A e \in Open(obj, dev) : EndFits(obj, dev, e) /\ EndSets(e)
      BY <1>1, OpenFits
    <2> QED
      BY <1>3, <2>1, CallStep DEF OpenCall
  <1>4. CASE CloseCall
    <2>1. \A e \in Close(obj, dev) : EndFits(obj, dev, e)
      BY <1>1, CloseFits
    <2> QED
      BY <1>4, <2>1, CallStep DEF CloseCall
  <1>5. CASE SetPortCall
    <2>1. PICK p \in Port \cup {NoPort} : Calls(TRUE, SetPort(p, obj, dev))
      BY <1>5 DEF SetPortCall
    <2>2. \A e \in SetPort(p, obj, dev) : EndFits(obj, dev, e) /\ EndSets(e)
      BY <1>1, SetPortFits
    <2> QED
      BY <2>1, <2>2, CallStep
  <1>6. CASE SetBaudrateCall
    BY <1>6, FieldSet, ConfigureStep DEF SetBaudrateCall
  <1>7. CASE SetBytesizeCall
    BY <1>7, FieldSet, ConfigureStep DEF SetBytesizeCall
  <1>8. CASE SetParityCall
    BY <1>8, FieldSet, ConfigureStep DEF SetParityCall
  <1>9. CASE SetStopbitsCall
    BY <1>9, FieldSet, ConfigureStep DEF SetStopbitsCall
  <1>10. CASE SetFlowcontrolCall
    BY <1>10, FieldSet, ConfigureStep DEF SetFlowcontrolCall
  <1>11. CASE SetTimeoutCall
    <2>1. PICK t \in Timeout : Calls(os = "windows", SetTimeout(t, obj, dev))
      BY <1>11 DEF SetTimeoutCall
    <2>2. \A e \in SetTimeout(t, obj, dev) :
             EndFits(obj, dev, e) /\ (os = "windows" => EndSets(e))
      BY <1>1, SetTimeoutFits
    <2>3. (os = "windows") \in BOOLEAN
      OBVIOUS
    <2> QED
      BY <2>1, <2>2, <2>3, CallStep
  <1>12. CASE AskCall
    BY <1>12, QuietStep DEF AskCall
  <1>13. CASE DriveCall
    BY <1>13, QuietStep DEF DriveCall, UnixDrive, WindowsDrive
  <1>14. CASE SendBreakCall
    BY <1>14, QuietStep DEF SendBreakCall, UnixSendBreak
  <1>15. CASE WaitForChangeCall
    BY <1>15, QuietStep DEF WaitForChangeCall, WindowsWaitForChange
  <1>16. CASE TransferCall
    <2>1. CASE Calls(FALSE, WindowsTransfer(obj, dev))
      BY <2>1, QuietStep DEF WindowsTransfer
    <2>2. CASE Calls(FALSE, WindowsAvailable(obj, dev))
      BY <2>2, QuietStep
    <2>3. CASE Calls(FALSE, WindowsFlush(obj, dev))
      BY <2>3, QuietStep DEF WindowsFlush
    <2>4. CASE Calls(FALSE, WindowsWaitReadable(obj, dev))
      BY <2>4, QuietStep DEF WindowsWaitReadable, WindowsSendBreak
    <2> QED
      BY <1>16, <2>1, <2>2, <2>3, <2>4 DEF TransferCall
  <1>17. CASE DestructorCall
    BY <1>17, DestructorStep
  <1> QED
    BY <1>2, <1>3, <1>4, <1>5, <1>6, <1>7, <1>8, <1>9, <1>10, <1>11, <1>12, <1>13,
       <1>14, <1>15, <1>16, <1>17 DEF Next

LEMMA StutterInv == ASSUME IInv, UNCHANGED vars PROVE IInv'
  <1>1. os' = os /\ exists' = exists /\ obj' = obj /\ dev' = dev /\ last' = last
    BY DEF vars
  <1>2. TypeOK'
    BY <1>1 DEF IInv, TypeOK
  <1>3. Starts(obj, dev)'
    BY <1>1, StartsNext DEF IInv
  <1>4. (InForce => Agrees(obj, dev))'
    BY <1>1 DEF IInv, InForce, Agrees, LineAgrees, ShownParity, TimeFits, HalfBits, ParityExcess
  <1> QED
    BY <1>1, <1>2, <1>3, <1>4 DEF IInv

\* The inductive invariant holds in every state.
THEOREM Invariance == Spec => []IInv
  <1>1. Init => IInv
    BY InitInv
  <1>2. IInv /\ [Next]_vars => IInv'
    BY NextInv, StutterInv
  <1> QED
    BY <1>1, <1>2, PTL DEF Spec
-----------------------------------------------------------------------------
(* What follows from it.                                                   *)

\* The fields of the object and the kernel's tables keep their types.
THEOREM TypeCorrect == Spec => []TypeOK
  <1>1. IInv => TypeOK
    BY DEF IInv
  <1> QED
    BY <1>1, Invariance, PTL

\* After any sequence of opens, failures and setters the line is as the
\* getters report it, but for the three exceptions LineAsReported names.
THEOREM LineAgreesWithReport == Spec => []LineAsReported
  <1>1. IInv => LineAsReported
    BY DEF IInv, LineAsReported, Agrees, LineAgrees, Shown
  <1> QED
    BY <1>1, Invariance, PTL

\* The time waitByteTimes takes for a character is that of its bits and of the
\* excess of its parity, less the fractions that unix.cc:447 drops: for any
\* rate from four baud on, any length, and any clock.
THEOREM ByteTimeIsClose == Spec => []ByteTimeClose
  <1>1. IInv => ByteTimeClose
    BY DEF IInv, ByteTimeClose, Agrees
  <1> QED
    BY <1>1, Invariance, PTL

\* Only a call that throws leaves an object that says it is open without its
\* descriptor.
THEOREM HandleIsLostByThrow == Spec => HandleLostByThrow
  <1>1. IInv /\ Next =>
          (exists' /\ obj'.isOpen /\ obj'.fd \notin dev'.live =>
             ~last'.ok \/ (obj.isOpen /\ obj.fd \notin dev.live))
    BY NextInv DEF StepFits, Lost
  <1>2. IInv /\ UNCHANGED vars =>
          (exists' /\ obj'.isOpen /\ obj'.fd \notin dev'.live =>
             ~last'.ok \/ (obj.isOpen /\ obj.fd \notin dev.live))
    BY DEF vars
  <1> QED
    BY <1>1, <1>2, Invariance, PTL DEF Spec, HandleLostByThrow

\* Only a call that throws leaves a descriptor nobody will close, and one at
\* most.
THEOREM OrphansAreLeftByThrow == Spec => OrphansByThrow
  <1> DEFINE new == Orphans(exists', obj', dev') \ Orphans(exists, obj, dev)
  <1>1. IInv /\ Next => (new # {} => ~last'.ok /\ Cardinality(new) = 1)
    <2> SUFFICES ASSUME IInv, Next, new # {}
                 PROVE  ~last'.ok /\ Cardinality(new) = 1
      OBVIOUS
    <2>1. StepFits
      BY NextInv
    <2>2. PICK h : new \subseteq {h}
      BY <2>1 DEF StepFits
    <2>3. new = {h}
      BY <2>2
    <2>4. ~last'.ok
      BY <2>1 DEF StepFits
    <2>5. Cardinality({h}) = 1
      BY FS_Singleton
    <2> QED
      BY <2>3, <2>4, <2>5
  <1>2. UNCHANGED vars => (new # {} => ~last'.ok /\ Cardinality(new) = 1)
    BY DEF vars, Orphans
  <1> QED
    BY <1>1, <1>2, Invariance, PTL DEF Spec, OrphansByThrow
=============================================================================

------------------------- MODULE DuplexPortsProofs -------------------------
(***************************************************************************)
(* When the ports of udp_duplex are distinct, for any numbers of shards    *)
(* and connections, any offsets and any width of a port.                   *)
(***************************************************************************)
EXTENDS DuplexPorts, TLAPS

\* The connections of all shards are numbered without gaps or repetitions.
LEMMA IndexRange ==
  ASSUME NEW s \in 0 .. Smp - 1, NEW i \in Tasks
  PROVE  Index(s, i) \in 0 .. Smp * Connections - 1
<1>1. s \in Nat /\ i \in Nat /\ Smp \in Nat /\ Connections \in Nat /\ i <= Connections - 1 /\ s + 1 <= Smp
  BY PortsAssumption DEF Tasks
<1>2. (s + 1) * Connections <= Smp * Connections
  <2>1. Smp * Connections = (s + 1) * Connections + (Smp - (s + 1)) * Connections
    BY <1>1
  <2>2. (Smp - (s + 1)) * Connections \in Nat
    <3>1. Smp - (s + 1) \in Nat
      BY <1>1
    <3> QED
      BY <1>1, <3>1
  <2>3. (s + 1) * Connections \in Nat
    BY <1>1
  <2> QED
    BY <2>1, <2>2, <2>3
<1>3. (s + 1) * Connections = s * Connections + Connections /\ s * Connections \in Nat
  BY <1>1
<1>4. Smp * Connections \in Nat
  BY <1>1
<1> QED
  BY <1>1, <1>2, <1>3, <1>4 DEF Index

LEMMA IndexInjective ==
  ASSUME NEW s \in 0 .. Smp - 1, NEW i \in Tasks, NEW t \in 0 .. Smp - 1, NEW j \in Tasks,
         Index(s, i) = Index(t, j)
  PROVE  s = t /\ i = j
<1>1. /\ s \in Nat /\ t \in Nat /\ i \in 0 .. Connections - 1 /\ j \in 0 .. Connections - 1
      /\ Connections \in Nat
  BY PortsAssumption DEF Tasks
<1>2. ASSUME NEW a \in Nat, NEW b \in Nat, NEW x \in 0 .. Connections - 1, NEW y \in 0 .. Connections - 1,
             a < b
      PROVE  a * Connections + x < b * Connections + y
  <2>1. b * Connections = a * Connections + Connections + (b - (a + 1)) * Connections
    BY <1>1, <1>2
  <2>2. (b - (a + 1)) * Connections \in Nat
    <3>1. b - (a + 1) \in Nat
      BY <1>2
    <3> QED
      BY <1>1, <3>1
  <2>3. a * Connections \in Nat /\ b * Connections \in Nat
    BY <1>1
  <2> QED
    BY <1>1, <2>1, <2>2, <2>3
<1>3. ~(s < t) /\ ~(t < s)
  <2>1. s * Connections \in Nat /\ t * Connections \in Nat
    BY <1>1
  <2>2. Index(s, i) = s * Connections + i /\ Index(t, j) = t * Connections + j
    BY DEF Index
  <2>3. s < t => Index(s, i) < Index(t, j)
    BY <1>1, <1>2, <2>2
  <2>4. t < s => Index(t, j) < Index(s, i)
    BY <1>1, <1>2, <2>2
  <2> QED
    BY <1>1, <2>1, <2>2, <2>3, <2>4
<1>4. s = t
  BY <1>1, <1>3
<1>5. s * Connections \in Nat
  BY <1>1
<1> QED
  BY <1>1, <1>4, <1>5 DEF Index

\* A multiple of PortT is 0, or at least PortT away from it.
LEMMA Multiples ==
  ASSUME NEW d \in Int
  PROVE  /\ PortT * d \in Int
         /\ d = 0 => PortT * d = 0
         /\ d > 0 => PortT * d >= PortT
         /\ d < 0 => PortT * d <= -PortT
<1>1. PortT \in Nat
  BY PortsAssumption
<1>2. ASSUME NEW n \in Nat PROVE PortT * n \in Nat
  BY <1>1
<1>3. CASE d > 0
  <2>1. d - 1 \in Nat /\ PortT * d = PortT + PortT * (d - 1)
    BY <1>1, <1>3
  <2> QED
    BY <1>1, <1>2, <1>3, <2>1
<1>4. CASE d < 0
  <2>1. -(d + 1) \in Nat /\ PortT * d = -PortT - PortT * (-(d + 1))
    BY <1>1, <1>4
  <2> QED
    BY <1>1, <1>2, <1>4, <2>1
<1>5. CASE d = 0
  BY <1>1, <1>5
<1> QED
  BY <1>3, <1>4, <1>5

LEMMA Division ==
  ASSUME NEW x \in Nat
  PROVE  /\ x \div PortT \in Int /\ x % PortT \in 0 .. PortT - 1
         /\ x = PortT * (x \div PortT) + (x % PortT)
  BY PortsAssumption

\* Numbers with the same remainder are equal or at least PortT apart.
LEMMA SameRemainder ==
  ASSUME NEW x \in Nat, NEW y \in Nat, x % PortT = y % PortT
  PROVE  x = y \/ x - y >= PortT \/ y - x >= PortT
<1> DEFINE d == x \div PortT - y \div PortT
<1>1. d \in Int
  BY Division
<1>2. PortT \in Nat
  BY PortsAssumption
<1>3. x - y = PortT * d
  <2>1. PortT * d = PortT * (x \div PortT) - PortT * (y \div PortT)
    BY Division, <1>2
  <2>2. x = PortT * (x \div PortT) + (x % PortT) /\ y = PortT * (y \div PortT) + (y % PortT)
    BY Division
  <2>3. PortT * (x \div PortT) \in Int /\ PortT * (y \div PortT) \in Int /\ x % PortT \in Int
    BY Division, <1>2
  <2> QED
    BY <2>1, <2>2, <2>3
<1> HIDE DEF d
<1> QED
  BY <1>1, <1>2, <1>3, Multiples

\* A remainder may be taken before a sum as well as after it.
LEMMA RemainderOfSum ==
  ASSUME NEW x \in Nat, NEW y \in Nat
  PROVE  ((x % PortT) + y) % PortT = (x + y) % PortT
<1> DEFINE r == x % PortT
           a == (r + y) % PortT
           b == (x + y) % PortT
           d == ((x + y) \div PortT - (r + y) \div PortT) - x \div PortT
<1>1. PortT \in Nat /\ r \in Nat /\ r + y \in Nat /\ x + y \in Nat
  BY PortsAssumption, Division
<1>2. a \in 0 .. PortT - 1 /\ b \in 0 .. PortT - 1 /\ d \in Int
  BY <1>1, Division
<1>3. a - b = PortT * d
  <2> DEFINE p == x \div PortT
             q == (r + y) \div PortT
             t == (x + y) \div PortT
  <2>1. p \in Int /\ q \in Int /\ t \in Int
    BY <1>1, Division
  <2>2. x = PortT * p + r
    BY Division
  <2>3. r + y = PortT * q + a
    BY <1>1, Division
  <2>4. x + y = PortT * t + b
    BY <1>1, Division
  <2>5. d = (t - q) - p
    OBVIOUS
  <2> HIDE DEF p, q, t, d, a, b, r
  <2>6. PortT * d = (PortT * t - PortT * q) - PortT * p
    BY <1>1, <2>1, <2>5
  <2>7. PortT * p \in Int /\ PortT * q \in Int /\ PortT * t \in Int
    BY <1>1, <2>1
  <2> QED
    BY <1>1, <1>2, <2>2, <2>3, <2>4, <2>6, <2>7
<1>4. a = b
  <2> HIDE DEF a, b, d
  <2> QED
    BY <1>1, <1>2, <1>3, Multiples
<1> QED
  BY <1>4

LEMMA PortOfIndex ==
  ASSUME NEW s \in 0 .. Smp - 1, NEW i \in Tasks
  PROVE  /\ Index(s, i) \in Nat
         /\ MyPort(s, i) = (StartPort + MyOffset + Index(s, i)) % PortT
         /\ OtherPort(s, i) = (StartPort + OtherOffset + Index(s, i)) % PortT
<1>1. Index(s, i) \in Nat
  <2>1. Smp * Connections \in Int
    BY PortsAssumption
  <2> QED
    BY <2>1, IndexRange
<1>2. ASSUME NEW offset \in Nat
      PROVE  (TargetPort(s, i) + offset) % PortT = (StartPort + offset + Index(s, i)) % PortT
  <2> DEFINE x == StartPort + Index(s, i)
             y == StartPort + offset + Index(s, i)
  <2>1. x \in Nat /\ x + offset = y
    BY <1>1, PortsAssumption
  <2>2. TargetPort(s, i) = x % PortT
    BY DEF TargetPort
  <2> HIDE DEF x, y
  <2>3. ((x % PortT) + offset) % PortT = (x + offset) % PortT
    BY <2>1, RemainderOfSum
  <2> QED
    BY <2>1, <2>2, <2>3 DEF y
<1>3. MyOffset \in Nat /\ OtherOffset \in Nat
  BY PortsAssumption
<1> QED
  BY <1>1, <1>2, <1>3 DEF MyPort, OtherPort

\* Two connections of a process share a port only if they are so far from
\* each other that a uint16_t wraps in between.
LEMMA SharedPortsAreFar ==
  ASSUME NEW s \in 0 .. Smp - 1, NEW i \in Tasks, NEW t \in 0 .. Smp - 1, NEW j \in Tasks,
         MyPort(s, i) = MyPort(t, j)
  PROVE  \/ s = t /\ i = j
         \/ Index(s, i) - Index(t, j) >= PortT
         \/ Index(t, j) - Index(s, i) >= PortT
<1> DEFINE base == StartPort + MyOffset
           m == Index(s, i)
           n == Index(t, j)
<1>1. base \in Nat /\ m \in Nat /\ n \in Nat /\ PortT \in Nat
  BY PortOfIndex, PortsAssumption
<1>2. (base + m) % PortT = (base + n) % PortT
  BY PortOfIndex
<1>3. m = n => s = t /\ i = j
  BY IndexInjective
<1> HIDE DEF base, m, n
<1> DEFINE x == base + m
           y == base + n
<1>4. x \in Nat /\ y \in Nat /\ x % PortT = y % PortT
  BY <1>1, <1>2
<1>5. x = y \/ x - y >= PortT \/ y - x >= PortT
  <2> HIDE DEF x, y
  <2> QED
    BY <1>4, SameRemainder
<1>6. base + m = base + n \/ (base + m) - (base + n) >= PortT \/ (base + n) - (base + m) >= PortT
  BY <1>5
<1>7. m = n \/ m - n >= PortT \/ n - m >= PortT
  BY <1>1, <1>6
<1> QED
  BY <1>3, <1>7 DEF m, n

\* The distance of the offsets of the two processes of a benchmark.
Distance == IF MyOffset <= OtherOffset THEN OtherOffset - MyOffset ELSE MyOffset - OtherOffset

\* No port of a process is a port of the other one if the distance of their
\* offsets has room for the connections of one process, on either side.
THEOREM ProcessesApart ==
  ASSUME Smp * Connections <= Distance, Distance + Smp * Connections <= PortT,
         NEW s \in 0 .. Smp - 1, NEW i \in Tasks
  PROVE  MyPort(s, i) \notin OtherPorts
<1> SUFFICES ASSUME NEW t \in 0 .. Smp - 1, NEW j \in Tasks, MyPort(s, i) = OtherPort(t, j)
             PROVE  FALSE
  BY DEF OtherPorts
<1> DEFINE x == (StartPort + MyOffset) + Index(s, i)
           y == (StartPort + OtherOffset) + Index(t, j)
           n == Smp * Connections
<1>1. n \in Int /\ Index(s, i) \in 0 .. n - 1 /\ Index(t, j) \in 0 .. n - 1
  <2>1. n \in Int
    BY PortsAssumption
  <2> QED
    BY <2>1, IndexRange
<1>2. x \in Nat /\ y \in Nat /\ x % PortT = y % PortT
  <2>1. x \in Nat /\ y \in Nat
    <3>1. Index(s, i) \in Nat /\ Index(t, j) \in Nat
      BY PortOfIndex
    <3> QED
      BY <3>1, PortsAssumption
  <2>2. MyPort(s, i) = x % PortT
    BY PortOfIndex
  <2>3. OtherPort(t, j) = y % PortT
    BY PortOfIndex
  <2> QED
    BY <2>1, <2>2, <2>3
<1>3. x = y \/ x - y >= PortT \/ y - x >= PortT
  <2> HIDE DEF x, y
  <2> QED
    BY <1>2, SameRemainder
<1>4. n <= Distance /\ Distance + n <= PortT
  OBVIOUS
<1> QED
  <2> HIDE DEF n
  <2> QED
    BY <1>1, <1>3, <1>4, PortsAssumption DEF Distance
=============================================================================

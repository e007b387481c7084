-------------------------- MODULE DiagnosticsProofs --------------------------
(***************************************************************************)
(* The verdict of the diagnostics mode: what "PASSED" rules out, for every *)
(* fault of a single line or pair of lines, and whatever the CPU writes.   *)
(***************************************************************************)
EXTENDS Diagnostics, SequenceTheorems, TLAPS

-----------------------------------------------------------------------------
\* How far the monitor is in the test program, from its phase and indices.
Position ==
    IF phase = "DataBus" THEN pattern_index
    ELSE IF phase = "AddressBus" THEN 16 + address_index
    ELSE IF phase = "HighAddress" THEN 16 + ADDRESS_COUNT + high_index
    ELSE 16 + ADDRESS_COUNT + 4

\* What the levels of a bus look like behind a fault of this bus.
Fits(f, v) ==
    /\ f.kind = "stuck" => \A m \in f.lines : Bit(v, m) = f.level
    /\ f.kind = "short" => \A m, n \in f.lines : Bit(v, m) = Bit(v, n)

Carries(f, w) ==
    /\ f.bus = "addr" => Fits(f, w.addr)
    /\ f.bus = "data" => Fits(f, w.value)

\* The monitor follows the program write by write; once it has a verdict no
\* further bus cycle is run.
Follows ==
    /\ phase = "DataBus" => address_index = 0
    /\ phase \in {"DataBus", "AddressBus"} => high_index = 0
    /\ phase = "AddressBus" => address_index < ADDRESS_COUNT
    /\ ~halted => matched = Position
    /\ done => matched = Len(ROM_CODE)
    /\ halted => at \in {"loop", "report"}
    /\ at \in {"low", "high"} => i < CYCLES_PER_LOOP

Cycles == [rw : {"read", "write"}, addr : Int, value : Int]

\* Whatever arrived, and whatever of the program was seen, went over the
\* faulty wiring.
OverTheWires ==
    /\ fault \in Faults
    /\ cycle \in Cycles
    /\ cycle.rw = "write" => Carries(fault, cycle)
    /\ \A k \in 1 .. Len(ROM_CODE) : k <= matched => Carries(fault, ROM_CODE[k])

IInv == GTypeOK /\ Follows /\ OverTheWires

------------------------------------------------------------------------------
\* Bits.

Weights ==
    <<1, 2, 4, 8, 16, 32, 64, 128, 256, 512, 1024, 2048, 4096, 8192, 16384, 32768>>
\* The weights of the bits of a uint16_t.
LEMMA Weight ==
    ASSUME NEW m \in 0 .. 15
    PROVE  2^m = Weights[m + 1]
<1>1. m \in {0,1,2,3,4,5,6,7,8,9,10,11,12,13,14,15}
  OBVIOUS
<1>2. /\ 2^0 = Weights[0 + 1] /\ 2^1 = Weights[1 + 1] /\ 2^2 = Weights[2 + 1] /\ 2^3 = Weights[3 + 1]
      /\ 2^4 = Weights[4 + 1] /\ 2^5 = Weights[5 + 1] /\ 2^6 = Weights[6 + 1] /\ 2^7 = Weights[7 + 1]
      /\ 2^8 = Weights[8 + 1] /\ 2^9 = Weights[9 + 1] /\ 2^10 = Weights[10 + 1] /\ 2^11 = Weights[11 + 1]
      /\ 2^12 = Weights[12 + 1] /\ 2^13 = Weights[13 + 1] /\ 2^14 = Weights[14 + 1] /\ 2^15 = Weights[15 + 1]
  BY DEF Weights
<1> QED
  BY <1>1, <1>2, Zenon

\* Division has one result.
LEMMA Unique ==
  ASSUME NEW p \in Nat \ {0}, NEW a \in Int, NEW b \in Int, NEW r \in 0 .. p - 1, NEW s \in 0 .. p - 1,
         p * a + r = p * b + s
  PROVE  a = b
<1>1. ASSUME NEW x \in Int, NEW y \in Int, x > y PROVE p * x >= p * y + p
  <2>1. x - y >= 1 /\ x - y \in Nat
    BY <1>1
  <2>2. p * (x - y) >= p
    BY <2>1
  <2>3. p * (x - y) = p * x - p * y
    OBVIOUS
  <2>4. p * x \in Int /\ p * y \in Int
    OBVIOUS
  <2> QED
    BY <2>2, <2>3, <2>4
<1>2. p * a \in Int /\ p * b \in Int
  OBVIOUS
<1>3. CASE a > b
  BY <1>1, <1>2, <1>3
<1>4. CASE b > a
  BY <1>1, <1>2, <1>4
<1> QED
  BY <1>3, <1>4

\* What it is.
LEMMA Quotient ==
  ASSUME NEW p \in Nat \ {0}, NEW v \in Int
  PROVE  /\ v \div p \in Int /\ v % p \in 0 .. p - 1
         /\ v = p * (v \div p) + (v % p)
  OBVIOUS

\* How to tell it.
LEMMA QuotientIs ==
  ASSUME NEW p \in Nat \ {0}, NEW a \in Int, NEW r \in 0 .. p - 1
  PROVE  (p * a + r) \div p = a
<1> DEFINE v == p * a + r
<1>1. v \in Int
  OBVIOUS
<1>2. v \div p \in Int /\ v % p \in 0 .. p - 1 /\ v = p * (v \div p) + (v % p)
  BY <1>1, Quotient
<1>3. p * (v \div p) + (v % p) = p * a + r
  BY <1>2
<1> HIDE DEF v
<1>4. v \div p = a
  BY <1>2, <1>3, Unique
<1> QED
  BY <1>4 DEF v

\* Adding a multiple of p.
LEMMA Shifted ==
  ASSUME NEW p \in Nat \ {0}, NEW v \in Int, NEW e \in Int
  PROVE  (v + e * p) \div p = (v \div p) + e
<1>1. PICK a \in Int, r \in 0 .. p - 1 : v = p * a + r
  BY Quotient
<1>2. v + e * p = p * (a + e) + r
  BY <1>1
<1>3. a + e \in Int
  OBVIOUS
<1> QED
  BY <1>1, <1>2, <1>3, QuotientIs

\* Bit q = 2kp of a number whose bit p is set to b.
LEMMA HigherBit ==
  ASSUME NEW p \in Nat \ {0}, NEW k \in Nat \ {0}, NEW v \in Int, NEW b \in {0, 1}
  PROVE  (v + (b - ((v \div p) % 2)) * p) \div (p * (2 * k)) = v \div (p * (2 * k))
<1> DEFINE q == p * (2 * k)
           a == v \div p
           r == v % p
           h == a \div 2
           c == a % 2
           g == h \div k
           u == h % k
<1>1. a \in Int /\ r \in 0 .. p - 1 /\ v = p * a + r
  BY Quotient
<1> HIDE DEF a, r
<1>2. h \in Int /\ c \in {0, 1} /\ a = 2 * h + c
  BY <1>1
<1> HIDE DEF h, c
<1>3. g \in Int /\ u \in 0 .. k - 1 /\ h = k * g + u
  BY <1>2, Quotient
<1> HIDE DEF g, u
<1>4. q \in Nat \ {0}
  OBVIOUS
<1>5. ASSUME NEW x \in {0, 1} PROVE p * (2 * u + x) + r \in 0 .. q - 1
  <2>1. 2 * u + x \in 0 .. 2 * k - 1 /\ 2 * k \in Nat
    BY <1>3
  <2>2. ASSUME NEW n \in Nat, NEW y \in 0 .. n - 1 PROVE p * y + r >= 0 /\ p * y + r <= p * n - 1
    <3>1. p * y \in Nat /\ p * n \in Nat /\ p * (n - y) = p * n - p * y
      OBVIOUS
    <3>2. n - y >= 1 /\ n - y \in Nat
      OBVIOUS
    <3>3. p * (n - y) >= p
      BY <3>2
    <3> QED
      BY <1>1, <3>1, <3>3
  <2>3. p * (2 * u + x) + r >= 0 /\ p * (2 * u + x) + r <= p * (2 * k) - 1
    BY <2>1, <2>2
  <2>4. p * (2 * u + x) + r \in Int
    BY <1>1, <2>1
  <2> QED
    BY <1>4, <2>3, <2>4
<1>6. ASSUME NEW x \in {0, 1} PROVE (p * (2 * h + x) + r) \div q = g
  <2>1. p * (2 * h + x) + r = q * g + (p * (2 * u + x) + r)
    BY <1>1, <1>3
  <2> HIDE DEF q
  <2> DEFINE z == p * (2 * u + x) + r
  <2>2. z \in 0 .. q - 1
    BY <1>5
  <2> HIDE DEF z
  <2>3. (q * g + z) \div q = g
    BY <1>3, <1>4, <2>2, QuotientIs
  <2> QED
    BY <2>1, <2>3 DEF z
<1>7. v \div q = g
  BY <1>1, <1>2, <1>6
<1>8. v + (b - c) * p = p * (2 * h + b) + r
  BY <1>1, <1>2
<1>9. (v + (b - c) * p) \div q = g
  BY <1>6, <1>8
<1> QED
  BY <1>7, <1>9 DEF a, c

\* Every weight but the least is an even multiple of each smaller one.
LEMMA WeightsAre ==
    /\ \A m \in 0 .. 15 : Weights[m + 1] \in Nat \ {0}
    /\ \A m, n \in 0 .. 15 : m < n =>
          \E k \in Nat \ {0} : Weights[n + 1] = Weights[m + 1] * (2 * k)
<1>1. \A m \in 0 .. 15 : Weights[m + 1] \in Nat \ {0}
  BY DEF Weights
<1>2. ASSUME NEW m \in 0 .. 15, NEW n \in 0 .. 15, m < n
      PROVE  \E k \in Nat \ {0} : Weights[n + 1] = Weights[m + 1] * (2 * k)
  <2>1. m \in {0,1,2,3,4,5,6,7,8,9,10,11,12,13,14,15}
    OBVIOUS
  <2>2. n \in {0,1,2,3,4,5,6,7,8,9,10,11,12,13,14,15}
    OBVIOUS
  <2>3. Weights[n + 1] = Weights[m + 1] * (2 * Weights[n - m])
    BY <1>2, <2>1, <2>2 DEF Weights
  <2>4. n - m - 1 \in 0 .. 15 /\ n - m - 1 + 1 = n - m
    BY <1>2
  <2>5. Weights[n - m] \in Nat \ {0}
    BY <1>1, <2>4
  <2> QED
    BY <2>3, <2>5
<1> QED
  BY <1>1, <1>2

\* A bit, by its weight.
LEMMA BitIs ==
    ASSUME NEW v \in Int, NEW m \in 0 .. 15
    PROVE  Bit(v, m) = (v \div Weights[m + 1]) % 2 /\ Bit(v, m) \in {0, 1}
<1>1. Weights[m + 1] \in Nat \ {0} /\ 2^m = Weights[m + 1]
  BY Weight, WeightsAre
<1>2. v \div Weights[m + 1] \in Int
  BY <1>1
<1>3. Bit(v, m) = (v \div Weights[m + 1]) % 2
  BY <1>1, Zenon DEF Bit
<1> QED
  BY <1>2, <1>3

\* Setting a bit sets it, and leaves every other bit alone.
LEMMA SetBitSets ==
    ASSUME NEW v \in Int, NEW m \in 0 .. 15, NEW b \in {0, 1}
    PROVE  /\ SetBit(v, m, b) \in Int
           /\ Bit(SetBit(v, m, b), m) = b
           /\ \A n \in 0 .. 15 : n # m => Bit(SetBit(v, m, b), n) = Bit(v, n)
<1> DEFINE p == Weights[m + 1]
           x == v + (b - Bit(v, m)) * p
<1>1. p \in Nat \ {0} /\ Bit(v, m) = (v \div p) % 2 /\ Bit(v, m) \in {0, 1}
  BY BitIs, WeightsAre
<1>2. SetBit(v, m, b) = x
  BY Weight, Zenon DEF SetBit
<1> HIDE DEF p
<1>3. x \in Int
  BY <1>1
<1>4. Bit(x, m) = b
  <2> DEFINE e == b - Bit(v, m)
  <2>1. e \in Int
    BY <1>1
  <2>2. Bit(x, m) = (x \div p) % 2
    BY <1>3, BitIs DEF p
  <2> HIDE DEF e
  <2>3. (v + e * p) \div p = (v \div p) + e
    BY <1>1, <2>1, Shifted
  <2>4. x \div p = (v \div p) + (b - ((v \div p) % 2))
    BY <1>1, <2>3 DEF e
  <2>5. v \div p \in Int
    BY <1>1
  <2> QED
    BY <2>2, <2>4, <2>5
<1>5. ASSUME NEW n \in 0 .. 15, n # m PROVE Bit(x, n) = Bit(v, n)
  <2> DEFINE q == Weights[n + 1]
  <2>1. q \in Nat \ {0} /\ Bit(x, n) = (x \div q) % 2 /\ Bit(v, n) = (v \div q) % 2
    BY <1>3, BitIs, WeightsAre
  <2>2. CASE n < m
    <3>1. PICK k \in Nat \ {0} : p = q * (2 * k)
      BY <2>2, WeightsAre DEF p
    <3> HIDE DEF q
    <3> DEFINE e == (b - Bit(v, m)) * k
    <3>2. e \in Int /\ 2 * e \in Int
      BY <1>1
    <3>3. x = v + (2 * e) * q
      BY <1>1, <2>1, <3>1
    <3> HIDE DEF e
    <3>4. (v + (2 * e) * q) \div q = (v \div q) + 2 * e
      BY <2>1, <3>2, Shifted
    <3>5. v \div q \in Int
      BY <2>1
    <3>6. ((v \div q) + 2 * e) % 2 = (v \div q) % 2
      BY <3>2, <3>5
    <3> HIDE DEF x
    <3> QED
      BY <2>1, <3>3, <3>4, <3>6
  <2>3. CASE m < n
    <3>1. PICK k \in Nat \ {0} : q = p * (2 * k)
      BY <2>3, WeightsAre DEF p
    <3> HIDE DEF q
    <3>2. (v + (b - ((v \div p) % 2)) * p) \div (p * (2 * k)) = v \div (p * (2 * k))
      BY <1>1, HigherBit
    <3>3. x \div q = v \div q
      BY <1>1, <3>1, <3>2, Zenon
    <3> HIDE DEF x
    <3> QED
      BY <2>1, <3>3
  <2> QED
    BY <1>5, <2>2, <2>3
<1> QED
  BY <1>2, <1>3, <1>4, <1>5

-----------------------------------------------------------------------------
\* The wires.

\* A single fault is one line or two, of one bus.
LEMMA FaultShape ==
    ASSUME NEW f \in SingleFaults
    PROVE  /\ f.bus \in {"addr", "data"} /\ f.level \in {0, 1}
           /\ \/ /\ f.kind = "stuck"
                 /\ \E m \in 0 .. 15 : f.lines = {m} /\ (f.bus = "data" => m \in 0 .. 7)
              \/ /\ f.kind = "short"
                 /\ \E m, n \in 0 .. 15 :
                       /\ m # n /\ f.lines = {m, n}
                       /\ f.bus = "data" => m \in 0 .. 7 /\ n \in 0 .. 7
<1>1. CASE f.kind = "stuck"
  BY <1>1 DEF SingleFaults
<1>2. CASE f.kind = "short" /\ f.bus = "addr"
  <2>1. f.lines \in {{m, n} : m \in 0 .. 15, n \in 0 .. 15} \ {{m} : m \in 0 .. 15}
        /\ f.level \in {0, 1}
    BY <1>2 DEF SingleFaults
  <2>2. PICK m \in 0 .. 15, n \in 0 .. 15 : f.lines = {m, n}
    BY <2>1
  <2>3. m # n
    BY <2>1, <2>2
  <2> QED
    BY <1>2, <2>1, <2>2, <2>3
<1>3. CASE f.kind = "short" /\ f.bus = "data"
  <2>1. f.lines \in {{m, n} : m \in 0 .. 7, n \in 0 .. 7} \ {{m} : m \in 0 .. 7}
        /\ f.level \in {0, 1}
    BY <1>3 DEF SingleFaults
  <2>2. PICK m \in 0 .. 7, n \in 0 .. 7 : f.lines = {m, n}
    BY <2>1
  <2>3. m # n /\ m \in 0 .. 15 /\ n \in 0 .. 15
    BY <2>1, <2>2
  <2> QED
    BY <1>3, <2>1, <2>2, <2>3
<1>4. f.kind \in {"stuck", "short"} /\ f.bus \in {"addr", "data"}
  BY DEF SingleFaults
<1> QED
  BY <1>1, <1>2, <1>3, <1>4

\* What arrives over a stuck line has its level, and what arrives over two
\* shorted lines has the same level on both.
LEMMA ArrivesFits ==
    ASSUME NEW f \in SingleFaults, NEW v \in Int
    PROVE  Arrives(f.bus, v, f) \in Int /\ Fits(f, Arrives(f.bus, v, f))
<1>1. f.bus \in {"addr", "data"} /\ f.level \in {0, 1}
  BY FaultShape
<1> DEFINE a == CHOOSE m \in f.lines : TRUE
           w == SetBit(v, a, f.level)
           c == CHOOSE n \in f.lines : n # a
           x == SetBit(w, c, f.level)
<1>2. CASE f.kind = "stuck"
  <2>1. PICK m \in 0 .. 15 : f.lines = {m}
    BY <1>2, FaultShape
  <2>2. a = m
    BY <2>1
  <2>3. Arrives(f.bus, v, f) = w
    BY <1>2 DEF Arrives
  <2> HIDE DEF a
  <2>4. w \in Int /\ Bit(w, m) = f.level
    BY <1>1, <2>1, <2>2, SetBitSets
  <2> HIDE DEF w
  <2> QED
    BY <1>2, <2>1, <2>3, <2>4 DEF Fits
<1>3. CASE f.kind = "short" /\ \A m, n \in f.lines : Bit(v, m) = Bit(v, n)
  <2>1. Arrives(f.bus, v, f) = v
    BY <1>3, Zenon DEF Arrives
  <2> QED
    BY <1>3, <2>1 DEF Fits
<1>4. CASE f.kind = "short" /\ ~\A m, n \in f.lines : Bit(v, m) = Bit(v, n)
  <2>1. PICK m \in 0 .. 15, l \in 0 .. 15 : m # l /\ f.lines = {m, l}
    BY <1>4, FaultShape
  <2>2. a \in f.lines
    <3>1. \E k \in f.lines : TRUE
      BY <2>1
    <3> QED
      BY <3>1, Zenon
  <2>3. Arrives(f.bus, v, f) = x
    BY <1>4, Zenon DEF Arrives
  <2> HIDE DEF a
  <2>4. c \in f.lines /\ c # a
    <3>1. \E k \in f.lines : k # a
      BY <2>1, <2>2
    <3> QED
      BY <3>1, Zenon
  <2> HIDE DEF c
  <2>5. a \in 0 .. 15 /\ c \in 0 .. 15 /\ f.lines = {a, c}
    BY <2>1, <2>2, <2>4
  <2>6. w \in Int /\ Bit(w, a) = f.level
    BY <1>1, <2>5, SetBitSets
  <2> HIDE DEF w
  <2>7. /\ x \in Int /\ Bit(x, c) = f.level
        /\ \A n \in 0 .. 15 : n # c => Bit(x, n) = Bit(w, n)
    <3>1. w \in Int /\ c \in 0 .. 15 /\ f.level \in {0, 1}
      BY <1>1, <2>5, <2>6
    <3> QED
      BY <3>1, SetBitSets, Zenon
  <2> HIDE DEF x
  <2>8. Bit(x, a) = f.level
    BY <2>4, <2>5, <2>6, <2>7, Zenon
  <2> QED
    BY <1>4, <2>3, <2>5, <2>7, <2>8 DEF Fits
<1>5. f.kind \in {"stuck", "short"}
  BY FaultShape
<1> QED
  BY <1>2, <1>3, <1>4, <1>5

\* Every write arrives as such wires carry it.
LEMMA WriteArrives ==
    ASSUME NEW f \in Faults, NEW w, w.addr \in Int, w.value \in Int
    PROVE  WriteCycle(w, f) \in Cycles /\ Carries(f, WriteCycle(w, f))
<1> DEFINE c == WriteCycle(w, f)
<1>1. /\ c.rw = "write" /\ c.addr = Arrives("addr", w.addr, f)
      /\ c.value = Arrives("data", w.value, f)
      /\ c = [rw |-> "write", addr |-> c.addr, value |-> c.value]
  BY DEF WriteCycle
<1> HIDE DEF c
<1>2. ASSUME NEW bus, bus # f.bus, NEW v PROVE Arrives(bus, v, f) = v
  BY <1>2, Zenon DEF Arrives
<1>3. CASE f = NoFault
  <2>1. f.bus = "none"
    BY <1>3 DEF NoFault
  <2>2. c.addr = w.addr /\ c.value = w.value
    BY <1>1, <1>2, <2>1
  <2> QED
    BY <1>1, <2>1, <2>2 DEF Cycles, Carries, c
<1>4. CASE f \in SingleFaults
  <2>1. CASE f.bus = "addr"
    <3>1. c.addr \in Int /\ Fits(f, c.addr)
      BY <1>1, <1>4, <2>1, ArrivesFits
    <3>2. c.value = w.value
      BY <1>1, <1>2, <2>1
    <3> QED
      BY <1>1, <2>1, <3>1, <3>2 DEF Cycles, Carries, c
  <2>2. CASE f.bus = "data"
    <3>1. c.value \in Int /\ Fits(f, c.value)
      BY <1>1, <1>4, <2>2, ArrivesFits
    <3>2. c.addr = w.addr
      BY <1>1, <1>2, <2>2
    <3> QED
      BY <1>1, <2>2, <3>1, <3>2 DEF Cycles, Carries, c
  <2> QED
    BY <1>4, <2>1, <2>2, FaultShape
<1>5. f = NoFault \/ f \in SingleFaults
  <2>1. Faults \subseteq {NoFault} \cup SingleFaults
    BY DiagnosticsAssumption
  <2>2. f \in {NoFault} \cup SingleFaults
    BY <2>1, Zenon
  <2> QED
    BY <2>2, Zenon
<1> QED
  BY <1>3, <1>4, <1>5 DEF c

-----------------------------------------------------------------------------
\* The test program.

\* The elements of two sequences joined.
LEMMA JoinedAt ==
    ASSUME NEW S, NEW a \in Seq(S), NEW b \in Seq(S)
    PROVE  /\ a \o b \in Seq(S) /\ Len(a \o b) = Len(a) + Len(b)
           /\ \A k \in 1 .. Len(a) : (a \o b)[k] = a[k]
           /\ \A k \in 1 .. Len(b) : (a \o b)[Len(a) + k] = b[k]
<1>1. a \o b \in Seq(S)
  BY ConcatProperties
<1> QED
  BY <1>1

\* And of four.
LEMMA FourJoined ==
    ASSUME NEW S, NEW a \in Seq(S), NEW b \in Seq(S), NEW c \in Seq(S), NEW d \in Seq(S),
           NEW s, s = ((a \o b) \o c) \o d
    PROVE  /\ s \in Seq(S) /\ Len(s) = Len(a) + Len(b) + Len(c) + Len(d)
           /\ \A k \in 1 .. Len(a) : s[k] = a[k]
           /\ \A k \in 1 .. Len(b) : s[Len(a) + k] = b[k]
           /\ \A k \in 1 .. Len(c) : s[Len(a) + Len(b) + k] = c[k]
           /\ \A k \in 1 .. Len(d) : s[Len(a) + Len(b) + Len(c) + k] = d[k]
<1> DEFINE x == a \o b
           y == x \o c
<1>0. \A p, q \in Seq(S) :
         /\ p \o q \in Seq(S) /\ Len(p \o q) = Len(p) + Len(q)
         /\ \A k \in 1 .. Len(p) : (p \o q)[k] = p[k]
         /\ \A k \in 1 .. Len(q) : (p \o q)[Len(p) + k] = q[k]
  BY JoinedAt
<1>1. /\ x \in Seq(S) /\ Len(x) = Len(a) + Len(b)
      /\ \A k \in 1 .. Len(a) : x[k] = a[k]
      /\ \A k \in 1 .. Len(b) : x[Len(a) + k] = b[k]
  BY JoinedAt
<1> HIDE DEF x
<1>2. /\ y \in Seq(S) /\ Len(y) = Len(x) + Len(c)
      /\ \A k \in 1 .. Len(x) : y[k] = x[k]
      /\ \A k \in 1 .. Len(c) : y[Len(x) + k] = c[k]
  <2>1. x \in Seq(S) /\ c \in Seq(S)
    BY <1>1
  <2> QED
    BY <1>0, <2>1, Zenon
<1> HIDE DEF y
<1>3. s = y \o d
  BY DEF x, y
<1>4. /\ s \in Seq(S) /\ Len(s) = Len(y) + Len(d)
      /\ \A k \in 1 .. Len(y) : s[k] = y[k]
      /\ \A k \in 1 .. Len(d) : s[Len(y) + k] = d[k]
  <2>1. y \in Seq(S) /\ d \in Seq(S)
    BY <1>2
  <2>2. /\ y \o d \in Seq(S) /\ Len(y \o d) = Len(y) + Len(d)
        /\ \A k \in 1 .. Len(y) : (y \o d)[k] = y[k]
        /\ \A k \in 1 .. Len(d) : (y \o d)[Len(y) + k] = d[k]
    BY <1>0, <2>1, Zenon
  <2> QED
    BY <1>3, <2>2, Zenon
<1>5. Len(a) \in Nat /\ Len(b) \in Nat /\ Len(c) \in Nat /\ Len(d) \in Nat
  OBVIOUS
<1>6. ASSUME NEW k \in 1 .. Len(a) PROVE s[k] = a[k]
  <2>1. k \in 1 .. Len(x) /\ k \in 1 .. Len(y)
    BY <1>1, <1>2, <1>5
  <2> QED
    BY <1>1, <1>2, <1>4, <2>1
<1>7. ASSUME NEW k \in 1 .. Len(b) PROVE s[Len(a) + k] = b[k]
  <2>1. Len(a) + k \in 1 .. Len(x) /\ Len(a) + k \in 1 .. Len(y)
    BY <1>1, <1>2, <1>5
  <2> QED
    BY <1>1, <1>2, <1>4, <2>1
<1>8. ASSUME NEW k \in 1 .. Len(c) PROVE s[Len(a) + Len(b) + k] = c[k]
  <2>1. Len(x) + k \in 1 .. Len(y)
    BY <1>1, <1>2, <1>5
  <2> QED
    BY <1>1, <1>2, <1>4, <2>1
<1> QED
  BY <1>1, <1>2, <1>4, <1>6, <1>7, <1>8

Writes == [addr : Int, value : Int]

\* Its writes, one by one.  (The number of addresses stays a name below: the
\* provers do not like large numerals.)
LEMMA Rom ==
    /\ ADDRESS_COUNT \in Nat /\ ADDRESS_COUNT > 0
    /\ ROM_CODE \in Seq(Writes) /\ Len(ROM_CODE) = ADDRESS_COUNT + 21
    /\ \A j \in Nat : j < 16 => ROM_CODE[j + 1] = DataWrite(j)
    /\ \A j \in Nat : j < ADDRESS_COUNT => ROM_CODE[16 + j + 1] = AddressWrite(j)
    /\ \A j \in Nat : j < 4 => ROM_CODE[16 + ADDRESS_COUNT + j + 1] = HighWrite(j)
    /\ ROM_CODE[16 + ADDRESS_COUNT + 4 + 1] = ReportWrite
<1> DEFINE A == [k \in 1 .. Len(DATA_PATTERNS) |-> DataWrite(k - 1)]
           B == [k \in 1 .. ADDRESS_COUNT |-> AddressWrite(k - 1)]
           C == [k \in 1 .. Len(HIGH_ADDRS) |-> HighWrite(k - 1)]
           D == <<ReportWrite>>
<1>0. ADDRESS_COUNT \in Nat /\ ADDRESS_COUNT > 0
  BY DEF ADDRESS_COUNT
<1>1. /\ A \in Seq(Writes) /\ Len(A) = 16
      /\ \A k \in 1 .. 16 : A[k] = DataWrite(k - 1)
  <2>1. Len(DATA_PATTERNS) = 16 /\ \A k \in 1 .. 16 : DATA_PATTERNS[k] \in Int
    BY DEF DATA_PATTERNS
  <2>2. \A k \in 1 .. 16 : DataWrite(k - 1) \in Writes
    BY <2>1 DEF DataWrite, Writes, DATA_ADDR
  <2> QED
    BY <2>1, <2>2
<1>2. /\ B \in Seq(Writes) /\ Len(B) = ADDRESS_COUNT
      /\ \A k \in 1 .. ADDRESS_COUNT : B[k] = AddressWrite(k - 1)
  <2>1. \A k \in Nat : k - 1 \in Int /\ (k - 1) % 256 \in Int
    OBVIOUS
  <2>2. \A k \in Nat : AddressWrite(k - 1) \in Writes
    BY <2>1 DEF AddressWrite, Writes, ADDRESS_TEST_BASE
  <2> QED
    BY <1>0, <2>2
<1>3. /\ C \in Seq(Writes) /\ Len(C) = 4
      /\ \A k \in 1 .. 4 : C[k] = HighWrite(k - 1)
  <2>1. Len(HIGH_ADDRS) = 4 /\ \A k \in 1 .. 4 : HIGH_ADDRS[k] \in Int
    BY DEF HIGH_ADDRS
  <2>2. \A k \in 1 .. 4 : HighWrite(k - 1) \in Writes
    BY <2>1 DEF HighWrite, Writes, HIGH_ADDR_VALUE
  <2> QED
    BY <2>1, <2>2
<1>4. D \in Seq(Writes) /\ Len(D) = 1 /\ D[1] = ReportWrite
  BY DEF ReportWrite, Writes, REPORT_ADDR, REPORT_VALUE
<1>5. ROM_CODE = ((A \o B) \o C) \o D
  BY DEF ROM_CODE
<1> HIDE DEF A, B, C, D
<1>6. /\ ROM_CODE \in Seq(Writes) /\ Len(ROM_CODE) = Len(A) + Len(B) + Len(C) + Len(D)
      /\ \A k \in 1 .. Len(A) : ROM_CODE[k] = A[k]
      /\ \A k \in 1 .. Len(B) : ROM_CODE[Len(A) + k] = B[k]
      /\ \A k \in 1 .. Len(C) : ROM_CODE[Len(A) + Len(B) + k] = C[k]
      /\ \A k \in 1 .. Len(D) : ROM_CODE[Len(A) + Len(B) + Len(C) + k] = D[k]
  <2>1. A \in Seq(Writes) /\ B \in Seq(Writes) /\ C \in Seq(Writes) /\ D \in Seq(Writes)
    BY <1>1, <1>2, <1>3, <1>4
  <2> QED
    BY <1>5, <2>1, FourJoined
<1>7. ASSUME NEW j \in Nat, j < 16 PROVE ROM_CODE[j + 1] = DataWrite(j)
  <2>1. j + 1 \in 1 .. Len(A) /\ j + 1 \in 1 .. 16 /\ (j + 1) - 1 = j
    BY <1>1, <1>7
  <2>2. ROM_CODE[j + 1] = A[j + 1]
    BY <1>6, <2>1, Zenon
  <2> QED
    BY <1>1, <2>1, <2>2
<1>8. ASSUME NEW j \in Nat, j < ADDRESS_COUNT PROVE ROM_CODE[16 + j + 1] = AddressWrite(j)
  <2>1. j + 1 \in 1 .. Len(B) /\ j + 1 \in 1 .. ADDRESS_COUNT /\ (j + 1) - 1 = j
        /\ Len(A) + (j + 1) = 16 + j + 1
    BY <1>0, <1>1, <1>2, <1>8
  <2>2. ROM_CODE[Len(A) + (j + 1)] = B[j + 1]
    BY <1>6, <2>1, Zenon
  <2>3. B[j + 1] = AddressWrite((j + 1) - 1)
    BY <1>2, <2>1, Zenon
  <2> QED
    BY <2>1, <2>2, <2>3, Zenon
<1>9. ASSUME NEW j \in Nat, j < 4 PROVE ROM_CODE[16 + ADDRESS_COUNT + j + 1] = HighWrite(j)
  <2>1. j + 1 \in 1 .. Len(C) /\ j + 1 \in 1 .. 4 /\ (j + 1) - 1 = j
        /\ Len(A) + Len(B) + (j + 1) = 16 + ADDRESS_COUNT + j + 1
    BY <1>0, <1>1, <1>2, <1>3, <1>9
  <2>2. ROM_CODE[Len(A) + Len(B) + (j + 1)] = C[j + 1]
    BY <1>6, <2>1, Zenon
  <2>3. C[j + 1] = HighWrite((j + 1) - 1)
    BY <1>3, <2>1, Zenon
  <2> QED
    BY <2>1, <2>2, <2>3, Zenon
<1>10. ROM_CODE[16 + ADDRESS_COUNT + 4 + 1] = ReportWrite
  <2>1. 1 \in 1 .. Len(D) /\ Len(A) + Len(B) + Len(C) + 1 = 16 + ADDRESS_COUNT + 4 + 1
    BY <1>0, <1>1, <1>2, <1>3, <1>4
  <2>2. ROM_CODE[Len(A) + Len(B) + Len(C) + 1] = D[1]
    BY <1>6, <2>1, Zenon
  <2> QED
    BY <1>4, <2>1, <2>2, Zenon
<1>11. Len(ROM_CODE) = ADDRESS_COUNT + 21
  <2>1. Len(A) + Len(B) + Len(C) + Len(D) = ADDRESS_COUNT + 21
    BY <1>0, <1>1, <1>2, <1>3, <1>4
  <2> QED
    BY <1>6, <2>1, Zenon
<1> QED
  BY <1>0, <1>6, <1>7, <1>8, <1>9, <1>10, <1>11

\* The lines that a number sets.
Sets(v, set) == \A m \in 0 .. 15 : Bit(v, m) = IF m \in set THEN 1 ELSE 0

\* So what a number's lines are is what it sets.
LEMMA LevelOf ==
    ASSUME NEW v, NEW set, Sets(v, set), NEW m \in 0 .. 15
    PROVE  /\ m \in set => Bit(v, m) = 1
           /\ m \notin set => Bit(v, m) = 0
  BY DEF Sets

\* They are told by its divisions by the weights.
LEMMA LinesSet ==
    ASSUME NEW v \in Int, NEW set,
           0 \in set <=> v % 2 = 1,               1 \in set <=> (v \div 2) % 2 = 1,
           2 \in set <=> (v \div 4) % 2 = 1,      3 \in set <=> (v \div 8) % 2 = 1,
           4 \in set <=> (v \div 16) % 2 = 1,     5 \in set <=> (v \div 32) % 2 = 1,
           6 \in set <=> (v \div 64) % 2 = 1,     7 \in set <=> (v \div 128) % 2 = 1,
           8 \in set <=> (v \div 256) % 2 = 1,    9 \in set <=> (v \div 512) % 2 = 1,
           10 \in set <=> (v \div 1024) % 2 = 1,  11 \in set <=> (v \div 2048) % 2 = 1,
           12 \in set <=> (v \div 4096) % 2 = 1,  13 \in set <=> (v \div 8192) % 2 = 1,
           14 \in set <=> (v \div 16384) % 2 = 1, 15 \in set <=> (v \div 32768) % 2 = 1
    PROVE  Sets(v, set)
<1>1. /\ Bit(v, 0) = v % 2               /\ Bit(v, 1) = (v \div 2) % 2
      /\ Bit(v, 2) = (v \div 4) % 2      /\ Bit(v, 3) = (v \div 8) % 2
      /\ Bit(v, 4) = (v \div 16) % 2     /\ Bit(v, 5) = (v \div 32) % 2
      /\ Bit(v, 6) = (v \div 64) % 2     /\ Bit(v, 7) = (v \div 128) % 2
      /\ Bit(v, 8) = (v \div 256) % 2    /\ Bit(v, 9) = (v \div 512) % 2
      /\ Bit(v, 10) = (v \div 1024) % 2  /\ Bit(v, 11) = (v \div 2048) % 2
      /\ Bit(v, 12) = (v \div 4096) % 2  /\ Bit(v, 13) = (v \div 8192) % 2
      /\ Bit(v, 14) = (v \div 16384) % 2 /\ Bit(v, 15) = (v \div 32768) % 2
  BY DEF Bit
<1>2. \A x \in Int : x % 2 \in {0, 1}
  OBVIOUS
<1>3. ASSUME NEW m \in 0 .. 15 PROVE Bit(v, m) = IF m \in set THEN 1 ELSE 0
  <2>1. m \in {0, 1, 2, 3, 4, 5, 6, 7, 8, 9, 10, 11, 12, 13, 14, 15}
    OBVIOUS
  <2> QED
    BY <1>1, <1>2, <2>1
<1> QED
  BY <1>3 DEF Sets

-----------------------------------------------------------------------------
\* A wiring over which the whole program has been seen has no fault but, at
\* most, a short among A8 to A11.

AllSeen(f) == \A k \in 1 .. Len(ROM_CODE) : Carries(f, ROM_CODE[k])

\* A value of the faulty bus that has gone over it and sets just these lines.
SeenWith(f, set) == \E v \in Int : Sets(v, set) /\ Fits(f, v)

\* The patterns: one for each level of each data line, one for each line that
\* sets it and no other line but its counterpart in the other half, and one for
\* the halves.
LEMMA DataSeen ==
    ASSUME NEW f, AllSeen(f), f.bus = "data"
    PROVE  /\ SeenWith(f, {}) /\ SeenWith(f, 0 .. 7) /\ SeenWith(f, 0 .. 3)
           /\ SeenWith(f, {0, 4}) /\ SeenWith(f, {1, 5})
           /\ SeenWith(f, {2, 6}) /\ SeenWith(f, {3, 7})
<1>1. ASSUME NEW j \in Nat, j < 16, NEW set, Sets(DATA_PATTERNS[j + 1], set),
             DATA_PATTERNS[j + 1] \in Int
      PROVE  SeenWith(f, set)
  <2>1. ROM_CODE[j + 1] = DataWrite(j) /\ j + 1 \in 1 .. Len(ROM_CODE)
    BY <1>1, Rom
  <2>2. ROM_CODE[j + 1].value = DATA_PATTERNS[j + 1]
    BY <2>1 DEF DataWrite
  <2>3. Fits(f, ROM_CODE[j + 1].value)
    BY <2>1 DEF AllSeen, Carries
  <2> QED
    BY <1>1, <2>2, <2>3 DEF SeenWith
<1>2. SeenWith(f, {})
  <2>1. DATA_PATTERNS[0 + 1] = 0
    BY DEF DATA_PATTERNS
  <2>2. Sets(0, {})
    BY LinesSet
  <2> QED
    BY <1>1, <2>1, <2>2
<1>3. SeenWith(f, 0 .. 7)
  <2>1. DATA_PATTERNS[1 + 1] = 255
    BY DEF DATA_PATTERNS
  <2>2. Sets(255, 0 .. 7)
    BY LinesSet
  <2> QED
    BY <1>1, <2>1, <2>2
<1>4. SeenWith(f, 0 .. 3)
  <2>1. DATA_PATTERNS[6 + 1] = 15
    BY DEF DATA_PATTERNS
  <2>2. Sets(15, 0 .. 3)
    BY LinesSet
  <2> QED
    BY <1>1, <2>1, <2>2
<1>5. SeenWith(f, {0, 4})
  <2>1. DATA_PATTERNS[8 + 1] = 17
    BY DEF DATA_PATTERNS
  <2>2. Sets(17, {0, 4})
    BY LinesSet
  <2> QED
    BY <1>1, <2>1, <2>2
<1>6. SeenWith(f, {1, 5})
  <2>1. DATA_PATTERNS[9 + 1] = 34
    BY DEF DATA_PATTERNS
  <2>2. Sets(34, {1, 5})
    BY LinesSet
  <2> QED
    BY <1>1, <2>1, <2>2
<1>7. SeenWith(f, {2, 6})
  <2>1. DATA_PATTERNS[10 + 1] = 68
    BY DEF DATA_PATTERNS
  <2>2. Sets(68, {2, 6})
    BY LinesSet
  <2> QED
    BY <1>1, <2>1, <2>2
<1>8. SeenWith(f, {3, 7})
  <2>1. DATA_PATTERNS[11 + 1] = 136
    BY DEF DATA_PATTERNS
  <2>2. Sets(136, {3, 7})
    BY LinesSet
  <2> QED
    BY <1>1, <2>1, <2>2
<1> QED
  BY <1>2, <1>3, <1>4, <1>5, <1>6, <1>7, <1>8

\* Addresses: the base of the address test, with offsets like the patterns, and
\* for the higher lines the data address, the report address and two more.
LEMMA AddressesSeen ==
    ASSUME NEW f, AllSeen(f), f.bus = "addr"
    PROVE  /\ SeenWith(f, {12, 13, 14}) /\ SeenWith(f, 0 .. 7 \cup {12, 13, 14})
           /\ SeenWith(f, 0 .. 3 \cup {12, 13, 14})
           /\ SeenWith(f, {0, 4, 12, 13, 14}) /\ SeenWith(f, {1, 5, 12, 13, 14})
           /\ SeenWith(f, {2, 6, 12, 13, 14}) /\ SeenWith(f, {3, 7, 12, 13, 14})
           /\ SeenWith(f, {13, 14}) /\ SeenWith(f, 4 .. 14)
           /\ SeenWith(f, {15}) /\ SeenWith(f, {13, 15})
<1>1. ASSUME NEW k \in 1 .. Len(ROM_CODE), NEW v \in Int, ROM_CODE[k].addr = v,
             NEW set, Sets(v, set)
      PROVE  SeenWith(f, set)
  BY <1>1 DEF AllSeen, Carries, SeenWith
<1>2. ASSUME NEW j \in Nat, j < ADDRESS_COUNT, NEW set, Sets(ADDRESS_TEST_BASE + j, set)
      PROVE  SeenWith(f, set)
  <2>1. ROM_CODE[16 + j + 1] = AddressWrite(j) /\ 16 + j + 1 \in 1 .. Len(ROM_CODE)
    BY <1>2, Rom
  <2>2. ROM_CODE[16 + j + 1].addr = ADDRESS_TEST_BASE + j
    BY <2>1 DEF AddressWrite
  <2>3. ADDRESS_TEST_BASE + j \in Int
    BY DEF ADDRESS_TEST_BASE
  <2> QED
    BY <1>1, <1>2, <2>1, <2>2, <2>3
<1>3. \A j \in {0, 15, 17, 34, 68, 136, 255} : j \in Nat /\ j < ADDRESS_COUNT
  BY DEF ADDRESS_COUNT
<1>4. SeenWith(f, {12, 13, 14})
  <2>1. Sets(ADDRESS_TEST_BASE + 0, {12, 13, 14})
    BY LinesSet DEF ADDRESS_TEST_BASE
  <2> QED
    BY <1>2, <1>3, <2>1
<1>5. SeenWith(f, 0 .. 7 \cup {12, 13, 14})
  <2>1. Sets(ADDRESS_TEST_BASE + 255, 0 .. 7 \cup {12, 13, 14})
    BY LinesSet DEF ADDRESS_TEST_BASE
  <2> QED
    BY <1>2, <1>3, <2>1
<1>6. SeenWith(f, 0 .. 3 \cup {12, 13, 14})
  <2>1. Sets(ADDRESS_TEST_BASE + 15, 0 .. 3 \cup {12, 13, 14})
    BY LinesSet DEF ADDRESS_TEST_BASE
  <2> QED
    BY <1>2, <1>3, <2>1
<1>7. SeenWith(f, {0, 4, 12, 13, 14})
  <2>1. Sets(ADDRESS_TEST_BASE + 17, {0, 4, 12, 13, 14})
    BY LinesSet DEF ADDRESS_TEST_BASE
  <2> QED
    BY <1>2, <1>3, <2>1
<1>8. SeenWith(f, {1, 5, 12, 13, 14})
  <2>1. Sets(ADDRESS_TEST_BASE + 34, {1, 5, 12, 13, 14})
    BY LinesSet DEF ADDRESS_TEST_BASE
  <2> QED
    BY <1>2, <1>3, <2>1
<1>9. SeenWith(f, {2, 6, 12, 13, 14})
  <2>1. Sets(ADDRESS_TEST_BASE + 68, {2, 6, 12, 13, 14})
    BY LinesSet DEF ADDRESS_TEST_BASE
  <2> QED
    BY <1>2, <1>3, <2>1
<1>10. SeenWith(f, {3, 7, 12, 13, 14})
  <2>1. Sets(ADDRESS_TEST_BASE + 136, {3, 7, 12, 13, 14})
    BY LinesSet DEF ADDRESS_TEST_BASE
  <2> QED
    BY <1>2, <1>3, <2>1
<1>11. SeenWith(f, {13, 14})
  <2>1. Sets(DATA_ADDR, {13, 14}) /\ DATA_ADDR \in Int
    BY LinesSet DEF DATA_ADDR
  <2>2. ROM_CODE[0 + 1] = DataWrite(0) /\ 0 + 1 \in 1 .. Len(ROM_CODE)
    BY Rom
  <2>3. ROM_CODE[0 + 1].addr = DATA_ADDR
    BY <2>2 DEF DataWrite
  <2> QED
    BY <1>1, <2>1, <2>2, <2>3
<1>12. SeenWith(f, 4 .. 14)
  <2>1. Sets(REPORT_ADDR, 4 .. 14) /\ REPORT_ADDR \in Int
    BY LinesSet DEF REPORT_ADDR
  <2>2. ROM_CODE[16 + ADDRESS_COUNT + 4 + 1] = ReportWrite /\ 16 + ADDRESS_COUNT + 4 + 1 \in 1 .. Len(ROM_CODE)
    BY Rom
  <2>3. ROM_CODE[16 + ADDRESS_COUNT + 4 + 1].addr = REPORT_ADDR
    BY <2>2 DEF ReportWrite
  <2> QED
    BY <1>1, <2>1, <2>2, <2>3
<1>13. SeenWith(f, {15})
  <2>1. Sets(HIGH_ADDRS[0 + 1], {15}) /\ HIGH_ADDRS[0 + 1] \in Int
    BY LinesSet DEF HIGH_ADDRS
  <2>2. /\ ROM_CODE[16 + ADDRESS_COUNT + 0 + 1] = HighWrite(0)
        /\ 16 + ADDRESS_COUNT + 0 + 1 \in 1 .. Len(ROM_CODE)
    BY Rom
  <2>3. ROM_CODE[16 + ADDRESS_COUNT + 0 + 1].addr = HIGH_ADDRS[0 + 1]
    BY <2>2 DEF HighWrite
  <2> QED
    BY <1>1, <2>1, <2>2, <2>3
<1>14. SeenWith(f, {13, 15})
  <2>1. Sets(HIGH_ADDRS[1 + 1], {13, 15}) /\ HIGH_ADDRS[1 + 1] \in Int
    BY LinesSet DEF HIGH_ADDRS
  <2>2. /\ ROM_CODE[16 + ADDRESS_COUNT + 1 + 1] = HighWrite(1)
        /\ 16 + ADDRESS_COUNT + 1 + 1 \in 1 .. Len(ROM_CODE)
    BY Rom
  <2>3. ROM_CODE[16 + ADDRESS_COUNT + 1 + 1].addr = HIGH_ADDRS[1 + 1]
    BY <2>2 DEF HighWrite
  <2> QED
    BY <1>1, <2>1, <2>2, <2>3
<1> QED
  BY <1>4, <1>5, <1>6, <1>7, <1>8, <1>9, <1>10, <1>11, <1>12, <1>13, <1>14

\* So the fault is a short among A8 to A11.
LEMMA OnlyMiddleShorts ==
    ASSUME NEW f \in SingleFaults, AllSeen(f)
    PROVE  f.kind = "short" /\ f.bus = "addr" /\ f.lines \subseteq 8 .. 11
<1>1. CASE f.kind = "stuck"
  <2>1. PICK m \in 0 .. 15 : f.lines = {m} /\ (f.bus = "data" => m \in 0 .. 7)
    BY <1>1, FaultShape
  <2>2. ASSUME NEW set, SeenWith(f, set) PROVE m \in set <=> f.level = 1
    <3>1. PICK v \in Int : Sets(v, set) /\ Fits(f, v)
      BY <2>2 DEF SeenWith
    <3>2. Bit(v, m) = f.level
      BY <1>1, <2>1, <3>1 DEF Fits
    <3>3. (m \in set => Bit(v, m) = 1) /\ (m \notin set => Bit(v, m) = 0)
      BY <2>1, <3>1, LevelOf
    <3> QED
      BY <3>2, <3>3
  <2>3. CASE f.bus = "data"
    <3>1. m \in {} <=> m \in 0 .. 7
      BY <2>2, <2>3, DataSeen
    <3> QED
      BY <2>1, <2>3, <3>1
  <2>4. CASE f.bus = "addr"
    <3>1. m \in {12, 13, 14} <=> m \in 0 .. 7 \cup {12, 13, 14}
      BY <2>2, <2>4, AddressesSeen
    <3>2. m \in {12, 13, 14} <=> m \in 4 .. 14
      BY <2>2, <2>4, AddressesSeen
    <3>3. m \in {12, 13, 14} <=> m \in {13, 14}
      BY <2>2, <2>4, AddressesSeen
    <3>4. m \in {12, 13, 14} <=> m \in {15}
      BY <2>2, <2>4, AddressesSeen
    <3> QED
      BY <2>1, <3>1, <3>2, <3>3, <3>4
  <2> QED
    BY <2>3, <2>4, FaultShape
<1>2. CASE f.kind = "short"
  <2>1. PICK m \in 0 .. 15, n \in 0 .. 15 :
              m # n /\ f.lines = {m, n} /\ (f.bus = "data" => m \in 0 .. 7 /\ n \in 0 .. 7)
    BY <1>2, FaultShape
  <2>2. ASSUME NEW set, SeenWith(f, set) PROVE m \in set <=> n \in set
    <3>1. PICK v \in Int : Sets(v, set) /\ Fits(f, v)
      BY <2>2 DEF SeenWith
    <3>2. Bit(v, m) = Bit(v, n)
      BY <1>2, <2>1, <3>1 DEF Fits
    <3>3. (m \in set => Bit(v, m) = 1) /\ (m \notin set => Bit(v, m) = 0)
      BY <2>1, <3>1, LevelOf
    <3>4. (n \in set => Bit(v, n) = 1) /\ (n \notin set => Bit(v, n) = 0)
      BY <2>1, <3>1, LevelOf
    <3> QED
      BY <3>2, <3>3, <3>4
  <2>3. CASE f.bus = "data"
    <3>1. m \in 0 .. 3 <=> n \in 0 .. 3
      BY <2>2, <2>3, DataSeen
    <3>2. m \in {0, 4} <=> n \in {0, 4}
      BY <2>2, <2>3, DataSeen
    <3>3. m \in {1, 5} <=> n \in {1, 5}
      BY <2>2, <2>3, DataSeen
    <3>4. m \in {2, 6} <=> n \in {2, 6}
      BY <2>2, <2>3, DataSeen
    <3>5. m \in {3, 7} <=> n \in {3, 7}
      BY <2>2, <2>3, DataSeen
    <3> QED
      BY <2>1, <2>3, <3>1, <3>2, <3>3, <3>4, <3>5
  <2>4. CASE f.bus = "addr"
    <3>1. m \in {12, 13, 14} <=> n \in {12, 13, 14}
      BY <2>2, <2>4, AddressesSeen
    <3>2. m \in 0 .. 7 \cup {12, 13, 14} <=> n \in 0 .. 7 \cup {12, 13, 14}
      BY <2>2, <2>4, AddressesSeen
    <3>3. m \in 0 .. 3 \cup {12, 13, 14} <=> n \in 0 .. 3 \cup {12, 13, 14}
      BY <2>2, <2>4, AddressesSeen
    <3>4. m \in {0, 4, 12, 13, 14} <=> n \in {0, 4, 12, 13, 14}
      BY <2>2, <2>4, AddressesSeen
    <3>5. m \in {1, 5, 12, 13, 14} <=> n \in {1, 5, 12, 13, 14}
      BY <2>2, <2>4, AddressesSeen
    <3>6. m \in {2, 6, 12, 13, 14} <=> n \in {2, 6, 12, 13, 14}
      BY <2>2, <2>4, AddressesSeen
    <3>7. m \in {3, 7, 12, 13, 14} <=> n \in {3, 7, 12, 13, 14}
      BY <2>2, <2>4, AddressesSeen
    <3>8. (m \in {13, 14} <=> n \in {13, 14}) /\ (m \in {15} <=> n \in {15})
      BY <2>2, <2>4, AddressesSeen
    <3>9. m \in {13, 15} <=> n \in {13, 15}
      BY <2>2, <2>4, AddressesSeen
    <3>10. m \in 8 .. 11 /\ n \in 8 .. 11
      BY <2>1, <3>1, <3>2, <3>3, <3>4, <3>5, <3>6, <3>7, <3>8, <3>9
    <3> QED
      BY <1>2, <2>1, <2>4, <3>10
  <2> QED
    BY <2>3, <2>4, FaultShape
<1> QED
  BY <1>1, <1>2, FaultShape

-----------------------------------------------------------------------------
\* The invariant, action by action.

\* How long the tables of diagnostics.cpp are.
LEMMA Lengths ==
    /\ Len(DATA_PATTERNS) = 16 /\ Len(HIGH_ADDRS) = 4
    /\ Len(ROM_CODE) = ADDRESS_COUNT + 21 /\ ADDRESS_COUNT \in Nat \ {0}
<1>1. Len(DATA_PATTERNS) = 16
  BY DEF DATA_PATTERNS
<1>2. Len(HIGH_ADDRS) = 4
  BY DEF HIGH_ADDRS
<1>3. ADDRESS_COUNT \in Nat \ {0}
  BY DEF ADDRESS_COUNT
<1> QED
  BY <1>1, <1>2, <1>3, Rom

\* At power-on nothing has been seen and nothing is expected but the first write.
LEMMA InitEstablishes == Init => IInv
<1> SUFFICES ASSUME Init PROVE IInv
  OBVIOUS
<1>1. GTypeOK
  <2>1. /\ pattern_index \in 0 .. Len(DATA_PATTERNS) /\ pattern_index < Len(DATA_PATTERNS)
        /\ address_index \in 0 .. ADDRESS_COUNT /\ high_index \in 0 .. Len(HIGH_ADDRS)
        /\ high_index < Len(HIGH_ADDRS)
        /\ pc \in 1 .. Len(ROM_CODE) + 1 /\ matched \in -1 .. Len(ROM_CODE)
    BY Lengths DEF Init
  <2>2. i \in 0 .. CYCLES_PER_LOOP
    BY DiagnosticsAssumption DEF Init
  <2> QED
    BY <2>1, <2>2, Zenon DEF Init, GTypeOK
<1>2. Follows
  BY DEF Init, Follows, Position
<1>3. cycle \in Cycles /\ cycle.rw # "write"
  BY DEF Init, ReadCycle, Cycles
<1>4. fault \in Faults /\ matched = 0
  BY DEF Init
<1>5. \A k \in 1 .. Len(ROM_CODE) : ~(k <= matched)
  BY <1>4
<1> QED
  BY <1>1, <1>2, <1>3, <1>4, <1>5, Zenon DEF IInv, OverTheWires

\* Everything but a bus cycle: no write arrives.
LEMMA QuietKeeps ==
    ASSUME IInv,
           PullReset \/ ReleaseReset \/ Port \/ Halted \/ StartCycles \/ maybe_report
              \/ UNCHANGED vars
    PROVE  IInv'
<1> USE DEF IInv
<1>1. UNCHANGED <<monitor, verdict, fault, pc, cycle, matched>>
  BY DEF PullReset, ReleaseReset, Port, Halted, StartCycles, maybe_report, vars
<1>2. /\ phase' = phase /\ pattern_index' = pattern_index /\ address_index' = address_index
      /\ high_index' = high_index /\ error' = error /\ done' = done /\ halted' = halted
      /\ pc' = pc /\ cycle' = cycle /\ matched' = matched /\ fault' = fault
  BY <1>1 DEF monitor, verdict
<1>3. OverTheWires'
  BY <1>2 DEF OverTheWires, Carries, Fits
<1>4. CASE PullReset
  <2>1. ~halted
    BY <1>4 DEF PullReset, Follows
  <2> QED
    BY <1>2, <1>3, <1>4, <2>1 DEF PullReset, GTypeOK, Follows, Position
<1>5. CASE ReleaseReset
  <2> QED
    BY <1>2, <1>3, <1>5 DEF ReleaseReset, GTypeOK, Follows, Position
<1>6. CASE Port
  BY <1>2, <1>3, <1>6 DEF Port, GTypeOK, Follows, Position
<1>7. CASE Halted
  BY <1>2, <1>3, <1>7 DEF Halted, GTypeOK, Follows, Position
<1>8. CASE StartCycles
  BY <1>2, <1>3, <1>8, DiagnosticsAssumption DEF StartCycles, GTypeOK, Follows, Position
<1>9. CASE maybe_report
  <2>1. printed' \in BOOLEAN
    BY <1>9 DEF maybe_report, GTypeOK
  <2> QED
    BY <1>2, <1>3, <1>9, <2>1 DEF maybe_report, GTypeOK, Follows, Position
<1>10. CASE UNCHANGED vars
  BY <1>2, <1>3, <1>10 DEF vars, GTypeOK, Follows, Position
<1> QED
  BY <1>4, <1>5, <1>6, <1>7, <1>8, <1>9, <1>10

\* The first half of a bus cycle: whatever the CPU writes goes over the wires.
LEMMA LowKeeps ==
    ASSUME IInv, run_cycle_low
    PROVE  IInv'
<1> USE DEF IInv
<1>1. /\ at = "low" /\ at' = "high" /\ phi2' = FALSE
      /\ phase' = phase /\ pattern_index' = pattern_index /\ address_index' = address_index
      /\ high_index' = high_index /\ error' = error /\ done' = done /\ halted' = halted
      /\ matched' = matched /\ fault' = fault /\ dtr' = dtr /\ i' = i /\ res' = res
      /\ printed' = printed /\ dir' \in {"in", "out"}
  BY DEF run_cycle_low, monitor, verdict
<1>2. fault \in Faults
  BY DEF OverTheWires
<1>3. /\ cycle' \in Cycles /\ (cycle'.rw = "write" => Carries(fault, cycle'))
      /\ pc' \in 1 .. Len(ROM_CODE) + 1
  <2>0. pc \in 1 .. Len(ROM_CODE) + 1 /\ Len(ROM_CODE) \in Nat
    BY Lengths DEF GTypeOK
  <2>1. CASE cycle' = ReadCycle /\ UNCHANGED pc
    BY <2>0, <2>1 DEF ReadCycle, Cycles
  <2>2. CASE pc <= Len(ROM_CODE) /\ cycle' = WriteCycle(ROM_CODE[pc], fault) /\ pc' = pc + 1
    <3>1. pc \in 1 .. Len(ROM_CODE) /\ pc' \in 1 .. Len(ROM_CODE) + 1
      BY <2>0, <2>2
    <3>2. ROM_CODE[pc] \in Writes
      BY <3>1, Rom, ElementOfSeq
    <3>3. ROM_CODE[pc].addr \in Int /\ ROM_CODE[pc].value \in Int
      BY <3>2 DEF Writes
    <3> QED
      BY <1>2, <2>2, <3>1, <3>3, WriteArrives, Zenon
  <2>3. CASE /\ \E w \in Strays : cycle' = WriteCycle(w, fault)
             /\ pc' \in {pc, pc + 1} \ {Len(ROM_CODE) + 2}
    <3>1. PICK w \in Strays : cycle' = WriteCycle(w, fault)
      BY <2>3
    <3>2. w.addr \in Int /\ w.value \in Int
      BY DiagnosticsAssumption
    <3>3. pc' \in 1 .. Len(ROM_CODE) + 1
      BY <2>0, <2>3
    <3> QED
      BY <1>2, <3>1, <3>2, <3>3, WriteArrives, Zenon
  <2> QED
    BY <2>1, <2>2, <2>3 DEF run_cycle_low
<1>4. OverTheWires'
  BY <1>1, <1>3 DEF OverTheWires, Carries, Fits
<1> QED
  BY <1>1, <1>3, <1>4 DEF GTypeOK, Follows, Position

\* The second half of a bus cycle.  A write that is the next one of the
\* program has gone over the wires, and is one more of those seen.
LEMMA OneMoreSeen ==
    ASSUME OverTheWires, cycle.rw = "write", fault' = fault, cycle' = cycle,
           matched \in 0 .. Len(ROM_CODE) - 1, matched' = matched + 1,
           [addr |-> cycle.addr, value |-> cycle.value] = ROM_CODE[matched + 1]
    PROVE  OverTheWires'
<1>1. ROM_CODE[matched + 1].addr = cycle.addr /\ ROM_CODE[matched + 1].value = cycle.value
  <2> DEFINE w == [addr |-> cycle.addr, value |-> cycle.value]
  <2>1. w.addr = cycle.addr /\ w.value = cycle.value
    OBVIOUS
  <2> HIDE DEF w
  <2>2. w = ROM_CODE[matched + 1]
    BY DEF w
  <2> QED
    BY <2>1, <2>2, Zenon
<1>2. Carries(fault, cycle)
  BY DEF OverTheWires
<1>3. Carries(fault, ROM_CODE[matched + 1])
  BY <1>1, <1>2, Zenon DEF Carries
<1>4. ASSUME NEW k \in 1 .. Len(ROM_CODE), k <= matched + 1
      PROVE  Carries(fault, ROM_CODE[k])
  <2>1. k <= matched \/ k = matched + 1
    BY <1>4, Lengths
  <2> QED
    BY <1>3, <2>1, Zenon DEF OverTheWires
<1>5. \A k \in 1 .. Len(ROM_CODE) : k <= matched' => Carries(fault', ROM_CODE[k])
  BY <1>4, Zenon
<1>6. fault' \in Faults /\ cycle' \in Cycles /\ Carries(fault', cycle')
  BY <1>2, Zenon DEF OverTheWires
<1> QED
  BY <1>5, <1>6, Zenon DEF OverTheWires, Carries, Fits

\* After any other write nothing counts as seen.
LEMMA NothingSeen ==
    ASSUME OverTheWires, fault' = fault, cycle' = cycle, matched' = -1
    PROVE  OverTheWires'
<1>1. \A k \in 1 .. Len(ROM_CODE) : ~(k <= matched')
  BY Lengths
<1> QED
  BY <1>1, Zenon DEF OverTheWires, Carries, Fits

\* What the monitor expects is the write of the program at its position.
LEMMA ExpectsTheNext ==
    ASSUME IInv, ~halted
    PROVE  /\ matched \in 0 .. Len(ROM_CODE) - 1
           /\ phase = "DataBus" => ROM_CODE[matched + 1] = DataWrite(pattern_index)
           /\ phase = "AddressBus" => ROM_CODE[matched + 1] = AddressWrite(address_index)
           /\ phase = "HighAddress" => ROM_CODE[matched + 1] = HighWrite(high_index)
           /\ phase = "Completion" =>
                 ROM_CODE[matched + 1] = ReportWrite /\ matched + 1 = Len(ROM_CODE)
<1>0. matched = Position
  BY DEF IInv, Follows
<1>1. CASE phase = "DataBus"
  <2>1. matched = pattern_index /\ pattern_index \in Nat /\ pattern_index < 16
    BY <1>0, <1>1, Lengths DEF IInv, GTypeOK, Position
  <2> QED
    BY <1>1, <2>1, Rom
<1>2. CASE phase = "AddressBus"
  <2>1. matched = 16 + address_index /\ address_index \in Nat /\ address_index < ADDRESS_COUNT
    BY <1>0, <1>2, Lengths DEF IInv, GTypeOK, Follows, Position
  <2> QED
    BY <1>2, <2>1, Rom
<1>3. CASE phase = "HighAddress"
  <2>1. matched = 16 + ADDRESS_COUNT + high_index /\ high_index \in Nat /\ high_index < 4
    BY <1>0, <1>3, Lengths DEF IInv, GTypeOK, Position
  <2> QED
    BY <1>3, <2>1, Rom
<1>4. CASE phase = "Completion"
  <2>1. matched = 16 + ADDRESS_COUNT + 4
    BY <1>0, <1>4 DEF Position
  <2> QED
    BY <1>4, <2>1, Rom
<1> QED
  BY <1>1, <1>2, <1>3, <1>4 DEF IInv, GTypeOK

\* The firmware's reaction to a write: the next of the program moves the monitor
\* on by one, and the last one passes; any other is an error.
LEMMA MonitorFollows ==
    ASSUME IInv, ~halted, NEW w, monitor_write(w)
    PROVE  /\ w = ROM_CODE[matched + 1] =>
                 /\ error' = error
                 /\ phase # "Completion" => Position' = matched + 1 /\ UNCHANGED verdict
                 /\ phase = "Completion" =>
                       UNCHANGED monitor /\ done' = TRUE /\ halted' = TRUE /\ matched + 1 = Len(ROM_CODE)
           /\ w # ROM_CODE[matched + 1] =>
                 UNCHANGED <<monitor, done>> /\ error' = TRUE /\ halted' = TRUE
           /\ phase' = "DataBus" => address_index' = 0
           /\ phase' \in {"DataBus", "AddressBus"} => high_index' = 0
           /\ phase' = "AddressBus" => address_index' < ADDRESS_COUNT
           /\ phase' \in {"DataBus", "AddressBus", "HighAddress", "Completion"}
           /\ pattern_index' \in 0 .. Len(DATA_PATTERNS)
           /\ phase' = "DataBus" => pattern_index' < Len(DATA_PATTERNS)
           /\ address_index' \in 0 .. ADDRESS_COUNT
           /\ high_index' \in 0 .. Len(HIGH_ADDRS)
           /\ phase' = "HighAddress" => high_index' < Len(HIGH_ADDRS)
<1> DEFINE next == ROM_CODE[matched + 1]
<1>0. /\ matched = Position
      /\ phase = "DataBus" => next = DataWrite(pattern_index)
      /\ phase = "AddressBus" => next = AddressWrite(address_index)
      /\ phase = "HighAddress" => next = HighWrite(high_index)
      /\ phase = "Completion" => next = ReportWrite /\ matched + 1 = Len(ROM_CODE)
  BY ExpectsTheNext DEF IInv, Follows
<1>t. /\ pattern_index \in 0 .. 16 /\ address_index \in 0 .. ADDRESS_COUNT /\ high_index \in 0 .. 4
      /\ phase = "DataBus" => pattern_index < 16 /\ address_index = 0
      /\ phase \in {"DataBus", "AddressBus"} => high_index = 0
      /\ phase = "AddressBus" => address_index < ADDRESS_COUNT
      /\ phase = "HighAddress" => high_index < 4
      /\ phase \in {"DataBus", "AddressBus", "HighAddress", "Completion"}
  BY Lengths DEF IInv, GTypeOK, Follows
<1> HIDE DEF next
<1>1. CASE MonitorData(w)
  <2>1. CASE w = next
    <3>1. /\ phase = "DataBus" /\ pattern_index' = pattern_index + 1
          /\ phase' = IF pattern_index' >= 16 THEN "AddressBus" ELSE phase
          /\ UNCHANGED <<address_index, high_index, verdict>>
      BY <1>0, <1>1, <2>1, Lengths DEF MonitorData, Matches, PatternsDone
    <3>2. Position = pattern_index
      BY <3>1 DEF Position
    <3>3. Position' = pattern_index + 1
      BY <1>t, <3>1 DEF Position
    <3> QED
      BY <1>0, <1>t, <2>1, <3>1, <3>2, <3>3, Lengths DEF verdict, next
  <2>2. CASE w # next
    <3>1. /\ UNCHANGED <<monitor, done>> /\ error' = TRUE /\ halted' = TRUE
      BY <1>0, <1>1, <2>2 DEF MonitorData, Matches, set_error
    <3> QED
      BY <1>t, <2>2, <3>1, Lengths DEF monitor, next
  <2> QED
    BY <2>1, <2>2
<1>2. CASE MonitorAddress(w)
  <2>1. CASE w = next
    <3>1. /\ phase = "AddressBus" /\ address_index' = address_index + 1
          /\ phase' = IF address_index' >= ADDRESS_COUNT THEN "HighAddress" ELSE phase
          /\ UNCHANGED <<pattern_index, high_index, verdict>>
      BY <1>0, <1>2, <2>1 DEF MonitorAddress, Matches
    <3>2. Position = 16 + address_index
      BY <3>1 DEF Position
    <3>3. Position' = 16 + address_index + 1
      BY <1>t, <3>1, Lengths DEF Position
    <3> QED
      BY <1>0, <1>t, <2>1, <3>1, <3>2, <3>3, Lengths DEF verdict, next
  <2>2. CASE w # next
    <3>1. /\ UNCHANGED <<monitor, done>> /\ error' = TRUE /\ halted' = TRUE
      BY <1>0, <1>2, <2>2 DEF MonitorAddress, Matches, set_error
    <3> QED
      BY <1>t, <2>2, <3>1, Lengths DEF monitor, next
  <2> QED
    BY <2>1, <2>2
<1>3. CASE MonitorHigh(w)
  <2>1. CASE w = next
    <3>1. /\ phase = "HighAddress" /\ high_index' = high_index + 1
          /\ phase' = IF high_index' >= 4 THEN "Completion" ELSE phase
          /\ UNCHANGED <<pattern_index, address_index, verdict>>
      BY <1>0, <1>3, <2>1, Lengths DEF MonitorHigh, Matches
    <3>2. Position = 16 + ADDRESS_COUNT + high_index
      BY <3>1 DEF Position
    <3>3. Position' = 16 + ADDRESS_COUNT + high_index + 1
      BY <1>t, <3>1, Lengths DEF Position
    <3> QED
      BY <1>0, <1>t, <2>1, <3>1, <3>2, <3>3, Lengths DEF verdict, next
  <2>2. CASE w # next
    <3>1. /\ UNCHANGED <<monitor, done>> /\ error' = TRUE /\ halted' = TRUE
      BY <1>0, <1>3, <2>2 DEF MonitorHigh, Matches, set_error
    <3> QED
      BY <1>t, <2>2, <3>1, Lengths DEF monitor, next
  <2> QED
    BY <2>1, <2>2
<1>4. CASE Completion(w)
  <2>1. CASE w = next
    <3>1. phase = "Completion" /\ done' = TRUE /\ halted' = TRUE /\ UNCHANGED <<error, monitor>>
      BY <1>0, <1>4, <2>1 DEF Completion, Matches
    <3> QED
      BY <1>0, <1>t, <2>1, <3>1, Lengths DEF monitor, next
  <2>2. CASE w # next
    <3>1. /\ UNCHANGED <<monitor, done>> /\ error' = TRUE /\ halted' = TRUE
      BY <1>0, <1>4, <2>2 DEF Completion, Matches, set_error
    <3> QED
      BY <1>t, <2>2, <3>1, Lengths DEF monitor, next
  <2> QED
    BY <2>1, <2>2
<1> QED
  BY <1>1, <1>2, <1>3, <1>4 DEF monitor_write

\* run_cycle's second half: a read changes nothing of the monitor, a write moves it on
\* or ends the test.
LEMMA HighKeeps ==
    ASSUME IInv, run_cycle_high
    PROVE  IInv'
<1> USE DEF IInv
<1>1. /\ at = "high" /\ i' = i + 1 /\ phi2' = ~halted'
      /\ at' = IF halted' \/ i' = CYCLES_PER_LOOP THEN "report" ELSE "low"
      /\ dtr' = dtr /\ res' = res /\ dir' = dir /\ printed' = printed
      /\ fault' = fault /\ pc' = pc /\ cycle' = cycle
  BY DEF run_cycle_high
<1>2. ~halted /\ ~error /\ ~done /\ halted = FALSE /\ error = FALSE /\ done = FALSE
  BY <1>1 DEF Follows, GTypeOK
<1>3. /\ i' \in 0 .. CYCLES_PER_LOOP
      /\ at' \in {"loop", "low", "high", "report"}
      /\ halted' => at' \in {"loop", "report"}
      /\ at' \in {"low", "high"} => i' < CYCLES_PER_LOOP
  <2>1. i \in Nat /\ i < CYCLES_PER_LOOP /\ CYCLES_PER_LOOP \in Nat
    BY <1>1, DiagnosticsAssumption DEF GTypeOK, Follows
  <2> QED
    BY <1>1, <2>1
<1>4. CASE cycle.rw = "read"
  <2>1. UNCHANGED <<monitor, verdict, matched>>
    BY <1>4 DEF run_cycle_high
  <2>2. /\ phase' = phase /\ pattern_index' = pattern_index /\ address_index' = address_index
        /\ high_index' = high_index /\ error' = error /\ done' = done /\ halted' = halted
        /\ matched' = matched
    BY <2>1 DEF monitor, verdict
  <2>3. OverTheWires'
    BY <1>1, <2>2 DEF OverTheWires, Carries, Fits
  <2> QED
    BY <1>1, <1>2, <1>3, <2>2, <2>3 DEF GTypeOK, Follows, Position
<1>5. CASE cycle.rw # "read"
  <2> DEFINE w == [addr |-> cycle.addr, value |-> cycle.value]
  <2>1. /\ monitor_write(w)
        /\ matched' = IF matched \in 0 .. Len(ROM_CODE) - 1 /\ w = ROM_CODE[matched + 1]
                      THEN matched + 1 ELSE -1
    BY <1>5 DEF run_cycle_high
  <2>w. cycle.rw = "write"
    BY <1>5 DEF OverTheWires, Cycles
  <2>2. matched \in 0 .. Len(ROM_CODE) - 1
    BY <1>2, ExpectsTheNext
  <2>3. CASE w = ROM_CODE[matched + 1]
    <3>1. matched' = matched + 1
      BY <2>1, <2>2, <2>3
    <3>2. OverTheWires'
      BY <1>1, <2>2, <2>3, <2>w, <3>1, OneMoreSeen
    <3>3. matched' \in -1 .. Len(ROM_CODE)
      BY <2>2, <3>1, Lengths
    <3> HIDE DEF w
    <3> USE DEF GTypeOK
    <3>4. CASE phase # "Completion"
      <4>1. Position' = matched + 1 /\ UNCHANGED <<error, verdict>>
        BY <1>2, <2>1, <2>3, <3>4, MonitorFollows
      <4>2. error' = FALSE /\ done' = FALSE /\ halted' = FALSE
        BY <1>2, <4>1 DEF verdict
      <4>3. GTypeOK'
        BY <1>1, <1>2, <1>3, <2>1, <3>3, <4>2, MonitorFollows
      <4>4. Follows'
        BY <1>2, <1>3, <2>1, <3>1, <4>1, <4>2, MonitorFollows DEF Follows
      <4> QED
        BY <3>2, <4>3, <4>4
    <3>5. CASE phase = "Completion"
      <4>1. error' = FALSE /\ done' = TRUE /\ halted' = TRUE /\ matched + 1 = Len(ROM_CODE)
        BY <1>2, <2>1, <2>3, <3>5, MonitorFollows
      <4>3. GTypeOK'
        BY <1>1, <1>2, <1>3, <2>1, <3>3, <4>1, MonitorFollows
      <4>4. Follows'
        BY <1>2, <1>3, <2>1, <3>1, <4>1, MonitorFollows DEF Follows
      <4> QED
        BY <3>2, <4>3, <4>4
    <3> QED
      BY <3>4, <3>5
  <2>4. CASE w # ROM_CODE[matched + 1]
    <3>1. matched' = -1
      BY <2>1, <2>4
    <3>2. OverTheWires'
      BY <1>1, <3>1, NothingSeen
    <3>3. matched' \in -1 .. Len(ROM_CODE)
      BY <3>1, Lengths
    <3> HIDE DEF w
    <3>4. error' = TRUE /\ done' = FALSE /\ halted' = TRUE
      BY <1>2, <2>1, <2>4, MonitorFollows
    <3>5. GTypeOK'
      BY <1>1, <1>2, <1>3, <2>1, <3>3, <3>4, MonitorFollows DEF GTypeOK
    <3>6. Follows'
      BY <1>2, <1>3, <2>1, <3>1, <3>4, MonitorFollows DEF Follows
    <3> QED
      BY <3>2, <3>5, <3>6
  <2> QED
    BY <2>3, <2>4
<1> QED
  BY <1>4, <1>5

-----------------------------------------------------------------------------
\* The theorems.

\* The monitor's indices, the writes seen and the wiring go together, in every
\* state of every run of the diagnostics.
THEOREM Inductive == Spec => []IInv
<1>1. ASSUME IInv, [Next]_vars PROVE IInv'
  <2>1. CASE run_cycle_low
    BY <1>1, <2>1, LowKeeps
  <2>2. CASE run_cycle_high
    BY <1>1, <2>2, HighKeeps
  <2>3. CASE PullReset \/ ReleaseReset \/ Port \/ Halted \/ StartCycles \/ maybe_report
                \/ UNCHANGED vars
    BY <1>1, <2>3, QuietKeeps
  <2> QED
    BY <1>1, <2>1, <2>2, <2>3 DEF Next, loop_diagnostics
<1> QED
  BY <1>1, InitEstablishes, PTL DEF Spec

\* Phases, indices and counters stay within the tables of diagnostics.cpp, and
\* the mode is halted when it has a verdict and not before.
THEOREM TypesHold == Spec => []GTypeOK
<1>1. IInv => GTypeOK
  BY DEF IInv
<1> QED
  BY <1>1, Inductive, PTL

\* "Diagnostics PASSED" is said only after the whole test program has arrived,
\* write by write, and nothing else, whatever the wiring and whatever the CPU.
THEOREM PassedIsEarned == Spec => []PassedMeansAllSeen
<1>1. IInv => PassedMeansAllSeen
  BY DEF IInv, Follows, PassedMeansAllSeen
<1> QED
  BY <1>1, Inductive, PTL

\* And so not over a stuck line, nor over two shorted ones other than among A8
\* to A11: each of the other pairs is driven apart by a write of the program.
THEOREM FaultsAreFound == Spec => []StuckLinesAreCaught
<1>1. ASSUME IInv, done, fault # NoFault
      PROVE  fault.kind = "short" /\ fault.bus = "addr" /\ fault.lines \subseteq 8 .. 11
  <2>1. fault \in SingleFaults
    <3>1. fault \in Faults /\ Faults \subseteq {NoFault} \cup SingleFaults
      BY <1>1, DiagnosticsAssumption DEF IInv, OverTheWires
    <3> QED
      BY <1>1, <3>1, Zenon
  <2>2. AllSeen(fault)
    <3>1. matched = Len(ROM_CODE) /\ Len(ROM_CODE) \in Nat
      BY <1>1, Lengths DEF IInv, Follows
    <3>2. \A k \in 1 .. Len(ROM_CODE) : k <= matched
      BY <3>1
    <3> QED
      BY <1>1, <3>2, Zenon DEF IInv, OverTheWires, AllSeen
  <2> QED
    BY <2>1, <2>2, OnlyMiddleShorts
<1>2. IInv => StuckLinesAreCaught
  BY <1>1, Zenon DEF StuckLinesAreCaught
<1> QED
  BY <1>2, Inductive, PTL

------------------------------------------------------------------------------
\* With a verdict the CPU's clock stands still, between two calls of
\* loop_diagnostics or before the report; and there is one verdict.
Still ==
    /\ halted => at \in {"loop", "report"} /\ ~phi2
    /\ ~(error /\ done)

\* What is left to do is to print it.
OnlyThePrint ==
    halted => /\ UNCHANGED <<verdict, monitor, phi2, pc, cycle, matched>>
              /\ dtr /\ dtr' => printed' \/ (at = "loop" /\ at' = "report")

\* A write that is monitored reaches at most one verdict.
LEMMA OneVerdict ==
    ASSUME NEW w, monitor_write(w), ~error, ~done, halted \in BOOLEAN
    PROVE  ~(error' /\ done')
  BY DEF monitor_write, MonitorData, MonitorAddress, MonitorHigh, Completion, set_error, verdict

\* Still, step by step.
LEMMA StillStep == GTypeOK /\ Still /\ [Next]_vars => Still' /\ [OnlyThePrint]_vars
<1> SUFFICES ASSUME GTypeOK, Still, [Next]_vars PROVE Still' /\ [OnlyThePrint]_vars
  OBVIOUS
<1>0. /\ error \in BOOLEAN /\ done \in BOOLEAN /\ halted \in BOOLEAN
      /\ halted = (error \/ done) /\ dtr \in BOOLEAN /\ printed \in BOOLEAN
  BY DEF GTypeOK
<1>1. CASE PullReset
  <2>1. ~halted
    BY <1>1 DEF PullReset, Still
  <2> QED
    BY <1>1, <2>1 DEF PullReset, Still, OnlyThePrint, verdict
<1>2. CASE ReleaseReset
  <2>1. ~halted
    BY <1>2 DEF ReleaseReset, Still
  <2> QED
    BY <1>2, <2>1 DEF ReleaseReset, Still, OnlyThePrint, verdict
<1>3. CASE Port
  <2>1. UNCHANGED <<at, phi2, monitor, verdict, pc, cycle, matched>> /\ (dtr' <=> ~dtr)
    BY <1>3 DEF Port
  <2> QED
    BY <2>1 DEF Still, OnlyThePrint, verdict
<1>4. CASE Halted
  <2>1. /\ UNCHANGED <<monitor, verdict, pc, cycle, matched>> /\ halted
        /\ at = "loop" /\ at' = "report" /\ phi2' = FALSE
    BY <1>4 DEF Halted
  <2>2. phi2 \in BOOLEAN
    BY DEF GTypeOK
  <2> QED
    BY <2>1, <2>2 DEF Still, OnlyThePrint, verdict
<1>5. CASE StartCycles
  BY <1>5 DEF StartCycles, Still, OnlyThePrint, verdict
<1>6. CASE run_cycle_low
  <2>1. ~halted /\ UNCHANGED verdict
    BY <1>6 DEF run_cycle_low, Still
  <2> QED
    BY <2>1 DEF Still, OnlyThePrint, verdict
<1>7. CASE run_cycle_high
  <2>1. ~halted /\ ~error /\ ~done
    BY <1>0, <1>7 DEF run_cycle_high, Still
  <2>2. ~(error' /\ done')
    <3>1. CASE cycle.rw = "read"
      BY <1>7, <2>1, <3>1 DEF run_cycle_high, verdict
    <3>2. CASE cycle.rw # "read"
      BY <1>0, <1>7, <2>1, <3>2, OneVerdict DEF run_cycle_high
    <3> QED
      BY <3>1, <3>2
  <2>3. halted' => at' = "report" /\ ~phi2'
    BY <1>7 DEF run_cycle_high
  <2> QED
    BY <2>1, <2>2, <2>3 DEF Still, OnlyThePrint
<1>8. CASE maybe_report
  <2>1. UNCHANGED <<dtr, phi2, monitor, verdict, pc, cycle, matched>> /\ at' = "loop"
        /\ printed' = (printed \/ (dtr /\ (error \/ done)))
    BY <1>8 DEF maybe_report
  <2>2. halted /\ dtr => printed'
    BY <1>0, <2>1
  <2> QED
    BY <2>1, <2>2 DEF Still, OnlyThePrint, verdict
<1>9. CASE UNCHANGED vars
  BY <1>9 DEF vars, Still, verdict
<1> QED
  BY <1>1, <1>2, <1>3, <1>4, <1>5, <1>6, <1>7, <1>8, <1>9 DEF Next, loop_diagnostics

\* A verdict is the last word: nothing the CPU does changes it, its clock is
\* stopped, and the firmware prints it at its next report if a host listens by
\* then, however often the port is opened and closed.  The safety half of
\* VerdictIsPrinted.
THEOREM VerdictIsFinal == Spec => [][OnlyThePrint]_vars
<1>1. Init => Still
  BY DEF Init, Still
<1>2. Spec => []Still
  BY <1>1, StillStep, TypesHold, PTL DEF Spec
<1> QED
  BY <1>2, StillStep, TypesHold, PTL DEF Spec

==============================================================================

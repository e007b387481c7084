--------------------------- MODULE DisplayProofs ----------------------------
(***************************************************************************)
(* The ring buffer holds the newest samples, and the waveform shows them   *)
(* in order, for every size of ring, refresh and screen.  The inductive    *)
(* invariant adds to the two properties where the waveform ends: with the  *)
(* last sample that left the ring.                                         *)
(***************************************************************************)
EXTENDS Display, SequenceTheorems, TLAPS

WaveEnds == wave # << >> => wave[Len(wave)].n = seen

IInv == DTypeOK /\ RingHoldsNewest /\ WaveIsTheSignal /\ WaveEnds

Column == [n : Nat, session : Nat, joined : BOOLEAN]

-----------------------------------------------------------------------------
\* The indices of the ring: modular arithmetic, one turn either way.

\* What % RING does to a number that is at most one turn off.
LEMMA OneTurn ==
    ASSUME NEW a \in Int, -RING <= a, a < 2 * RING
    PROVE  a % RING = IF a < 0 THEN a + RING ELSE IF a < RING THEN a ELSE a - RING
<1>1. RING \in Nat /\ RING > 0
  BY DisplayAssumption
<1> DEFINE q == a \div RING
<1>2. q \in Int /\ a = RING * q + (a % RING) /\ a % RING \in 0 .. RING - 1
  BY <1>1
<1> HIDE DEF q
<1>3. q \in {-1, 0, 1}
  <2>1. CASE q >= 2
    BY <1>1, <1>2, <2>1
  <2>2. CASE q <= -2
    BY <1>1, <1>2, <2>2
  <2> QED
    BY <1>2, <2>1, <2>2
<1> QED
  BY <1>1, <1>2, <1>3

\* How many samples wait, without the modulus.
LEMMA Distance ==
    ASSUME NEW h \in 0 .. RING - 1, NEW t \in 0 .. RING - 1
    PROVE  /\ (h - t) % RING = IF h >= t THEN h - t ELSE h - t + RING
           /\ (h - t) % RING \in 0 .. RING - 1
           /\ (h - t) % RING = 0 <=> h = t
<1> DEFINE d == h - t
<1>1. RING \in Nat /\ RING > 2
  BY DisplayAssumption
<1>2. d \in Int /\ -RING <= d /\ d < RING
  BY <1>1
<1> HIDE DEF d
<1>3. d % RING = IF d < 0 THEN d + RING ELSE d
  BY <1>1, <1>2, OneTurn
<1> QED
  BY <1>1, <1>2, <1>3 DEF d

\* Stepping to the next slot.
LEMMA StepSlot ==
    ASSUME NEW i \in 0 .. RING - 1
    PROVE  /\ NextSlot(i) = IF i = RING - 1 THEN 0 ELSE i + 1
           /\ NextSlot(i) \in 0 .. RING - 1
<1> DEFINE d == i + 1
<1>1. RING \in Nat /\ RING > 2
  BY DisplayAssumption
<1>2. d \in Int /\ 0 <= d /\ d <= RING
  BY <1>1
<1> HIDE DEF d
<1>3. d % RING = IF d < RING THEN d ELSE d - RING
  BY <1>1, <1>2, OneTurn
<1>4. NextSlot(i) = d % RING
  BY DEF d, NextSlot
<1> QED
  BY <1>1, <1>2, <1>3, <1>4 DEF d

\* The slot k places before the newest one, without the modulus.
LEMMA SlotBehind ==
    ASSUME NEW h \in 0 .. RING - 1, NEW k \in 0 .. RING - 1
    PROVE  (h - 1 - k) % RING = IF k < h THEN h - 1 - k ELSE h - 1 - k + RING
<1> DEFINE d == h - 1 - k
<1>1. RING \in Nat /\ RING > 2
  BY DisplayAssumption
<1>2. d \in Int /\ -RING <= d /\ d < RING
  BY <1>1
<1> HIDE DEF d
<1>3. d % RING = IF d < 0 THEN d + RING ELSE d
  BY <1>1, <1>2, OneTurn
<1> QED
  BY <1>1, <1>2, <1>3 DEF d

\* When a sample goes into slot h, what was k - 1 places behind the newest is
\* k places behind it, in another slot than h.
LEMMA SlotsApart ==
    ASSUME NEW h \in 0 .. RING - 1, NEW k \in 0 .. RING - 2
    PROVE  /\ k = 0 => (NextSlot(h) - 1 - k) % RING = h
           /\ k # 0 => /\ (NextSlot(h) - 1 - k) % RING = (h - 1 - (k - 1)) % RING
                       /\ (NextSlot(h) - 1 - k) % RING \in (0 .. RING - 1) \ {h}
<1> DEFINE n == NextSlot(h)
           new == (n - 1 - k) % RING
           old == (h - 1 - (k - 1)) % RING
<1>1. RING \in Nat /\ RING > 2
  BY DisplayAssumption
<1>2. n \in 0 .. RING - 1 /\ n = IF h = RING - 1 THEN 0 ELSE h + 1
  BY StepSlot
<1>3. k \in 0 .. RING - 1 /\ (k # 0 => k - 1 \in 0 .. RING - 1)
  BY <1>1
<1>4. new = IF k < n THEN n - 1 - k ELSE n - 1 - k + RING
  <2> HIDE DEF n
  <2> QED BY <1>2, <1>3, SlotBehind, Zenon
<1>5. k # 0 => old = IF k - 1 < h THEN h - 1 - (k - 1) ELSE h - 1 - (k - 1) + RING
  BY <1>3, SlotBehind, Zenon
<1> HIDE DEF n, new, old
<1>6. /\ k = 0 => new = h
      /\ k # 0 => new = old /\ new \in (0 .. RING - 1) \ {h}
  BY <1>1, <1>2, <1>4, <1>5
<1> QED
  BY <1>6 DEF n, new, old

-----------------------------------------------------------------------------
\* The waveform as a sequence of columns.

Forward(s) ==
    \A k \in 2 .. Len(s) :
        /\ s[k - 1].n < s[k].n
        /\ s[k].joined => s[k].n = s[k - 1].n + 1

\* Putting columns behind others keeps both in order, if the seam is.
LEMMA ForwardConcat ==
    ASSUME NEW s \in Seq(Column), NEW t \in Seq(Column), Forward(s), Forward(t),
           s # << >> /\ t # << >> =>
               /\ s[Len(s)].n < t[1].n
               /\ t[1].joined => t[1].n = s[Len(s)].n + 1
    PROVE  /\ s \o t \in Seq(Column) /\ Forward(s \o t)
           /\ t # << >> => s \o t # << >> /\ (s \o t)[Len(s \o t)] = t[Len(t)]
<1>1. /\ s \o t \in Seq(Column) /\ Len(s \o t) = Len(s) + Len(t)
      /\ \A k \in 1 .. Len(s) + Len(t) :
            (s \o t)[k] = IF k <= Len(s) THEN s[k] ELSE t[k - Len(s)]
  BY ConcatProperties
<1> DEFINE c == s \o t
<1>2. ASSUME NEW k \in 2 .. Len(c)
      PROVE  /\ c[k - 1].n < c[k].n
             /\ c[k].joined => c[k].n = c[k - 1].n + 1
  <2>1. CASE k <= Len(s)
    <3>1. c[k] = s[k] /\ c[k - 1] = s[k - 1]
      BY <1>1, <2>1
    <3> QED BY <2>1, <3>1 DEF Forward
  <2>2. CASE k = Len(s) + 1
    <3>1. s # << >> /\ t # << >> /\ c[k] = t[1] /\ c[k - 1] = s[Len(s)]
      BY <1>1, <2>2
    <3> QED BY <2>2, <3>1
  <2>3. CASE k > Len(s) + 1
    <3>1. k - Len(s) \in 2 .. Len(t) /\ c[k] = t[k - Len(s)] /\ c[k - 1] = t[k - Len(s) - 1]
      BY <1>1, <2>3
    <3> QED BY <2>3, <3>1 DEF Forward
  <2> QED
    BY <1>1, <2>1, <2>2, <2>3
<1>3. ASSUME t # << >> PROVE c # << >> /\ c[Len(c)] = t[Len(t)]
  BY <1>1, <1>3
<1> QED
  BY <1>1, <1>2, <1>3 DEF Forward

\* Of a waveform that is too long the screen keeps the end.
LEMMA ForwardLast ==
    ASSUME NEW s \in Seq(Column), Forward(s), NEW m \in Nat \ {0}
    PROVE  /\ LastOf(s, m) \in Seq(Column) /\ Forward(LastOf(s, m))
           /\ Len(LastOf(s, m)) <= m
           /\ s = << >> => LastOf(s, m) = << >>
           /\ s # << >> => /\ LastOf(s, m) # << >>
                           /\ LastOf(s, m)[Len(LastOf(s, m))] = s[Len(s)]
<1>1. CASE Len(s) <= m
  BY <1>1 DEF LastOf
<1>2. CASE Len(s) > m
  <2> DEFINE l == SubSeq(s, Len(s) - m + 1, Len(s))
             d == Len(s) - m
  <2>1. /\ l \in Seq(Column) /\ Len(l) = m /\ d \in Nat /\ Len(s) = d + m
        /\ \A k \in 1 .. m : l[k] = s[k + d]
    BY <1>2
  <2>2. LastOf(s, m) = l
    BY <1>2 DEF LastOf
  <2> HIDE DEF l, d
  <2>3. ASSUME NEW k \in 2 .. m
        PROVE  /\ l[k - 1].n < l[k].n
               /\ l[k].joined => l[k].n = l[k - 1].n + 1
    <3> DEFINE j == k + d
    <3>1. l[k] = s[j] /\ l[k - 1] = s[j - 1] /\ j \in 2 .. Len(s)
      BY <2>1
    <3> HIDE DEF j
    <3> QED
      BY <3>1 DEF Forward
  <2>4. l # << >> /\ l[Len(l)] = s[Len(s)]
    BY <2>1
  <2> QED
    BY <1>2, <2>1, <2>2, <2>3, <2>4 DEF Forward
<1> QED
  BY <1>1, <1>2

-----------------------------------------------------------------------------
\* What is the same for every action.

\* What draw_chrome leaves are readouts.
LEMMA Sentinels ==
    /\ NoSample \in Sample /\ NoFetch \in Int \X Int
    /\ UndrawnHeader \in HeaderFields /\ Undrawn(NoFetch) \in FieldOf(Int \X Int)
    /\ Undrawn(1) \in FieldOf(Nat)
<1>1. NoSample \in Sample
  BY DEF NoSample, Sample
<1>2. IsRead(NoSample) \in BOOLEAN
  BY DEF IsRead
<1>3. NoFetch \in Int \X Int /\ 1 \in Nat
  BY DEF NoFetch
<1>4. ASSUME NEW S, NEW v \in S PROVE Undrawn(v) \in FieldOf(S)
  BY DEF Undrawn, FieldOf, Blank
<1>5. /\ NoSample.addr \in Nat /\ NoSample.data \in Nat /\ NoSample.flags \in SUBSET Flags
  BY <1>1, Zenon DEF Sample
<1> HIDE DEF NoSample
<1>6. UndrawnHeader \in HeaderFields
  BY <1>2, <1>4, <1>5, Zenon DEF UndrawnHeader, HeaderFields
<1> QED
  BY <1>1, <1>3, <1>4, <1>6

\* At power-on ring and screen are empty.
LEMMA InitIInv == Init => IInv
<1> SUFFICES ASSUME Init PROVE IInv
  OBVIOUS
<1>1. RING \in Nat /\ RING > 2
  BY DisplayAssumption
<1>2. ring \in [0 .. RING - 1 -> Entry]
  <2>1. [addr |-> 0, data |-> 0, flags |-> {}] \in Sample
    BY DEF Sample
  <2> QED
    BY <2>1 DEF Init, Entry
<1>3. /\ header \in HeaderFields /\ fetchField \in FieldOf(Int \X Int)
      /\ cyclesField \in FieldOf(Nat) /\ clkField \in FieldOf(Nat)
  BY Sentinels, Zenon DEF Init
<1>4. DTypeOK
  <2>1. wave \in Seq(Column) /\ Len(wave) <= WAVE_COLS
    BY DisplayAssumption DEF Init
  <2>2. ring_head \in 0 .. RING - 1 /\ ring_tail \in 0 .. RING - 1
    BY <1>1 DEF Init
  <2>3. sinceRefresh \in 0 .. REFRESH /\ sinceRate \in 0 .. SECOND /\ sinceHeader \in 0 .. SECOND
    BY DisplayAssumption DEF Init
  <2>4. session \in 0 .. MaxSessions /\ taken \in 0 .. MaxCaptures /\ seen \in 0 .. taken
    BY DisplayAssumption DEF Init
  <2>5. /\ dtr \in BOOLEAN /\ at \in {"idle", "poll", "refresh"}
        /\ chrome_drawn \in BOOLEAN /\ splash_drawn \in BOOLEAN /\ have_prev \in BOOLEAN
        /\ cycle_count \in Nat /\ last_phi2 \in BOOLEAN
        /\ captures \in Nat /\ rate \in Nat
        /\ fetch \in Nat \X Nat /\ have_fetch \in BOOLEAN
    <3>1. /\ dtr = FALSE /\ at = "poll" /\ chrome_drawn = FALSE /\ splash_drawn = FALSE
          /\ have_prev = FALSE /\ cycle_count = 0 /\ last_phi2 = FALSE
          /\ captures = 0 /\ rate = 0 /\ fetch = <<0, 0>> /\ have_fetch = FALSE
      BY Zenon DEF Init
    <3>2. at \in {"idle", "poll", "refresh"}
      BY <3>1
    <3>3. cycle_count \in Nat /\ captures \in Nat /\ rate \in Nat /\ fetch \in Nat \X Nat
      BY <3>1
    <3> QED BY <3>1, <3>2, <3>3, Zenon
  <2> QED
    BY <1>2, <1>3, <2>1, <2>2, <2>3, <2>4, <2>5, Zenon DEF DTypeOK, Column
<1>5. backlog = 0
  <2>1. 0 \in 0 .. RING - 1
    BY <1>1
  <2>2. (0 - 0) % RING = 0
    BY <2>1, Distance
  <2> QED
    BY <2>2, Zenon DEF Init, backlog
<1>6. RingHoldsNewest
  BY <1>1, <1>5 DEF Init, RingHoldsNewest
<1> QED
  BY <1>4, <1>6 DEF Init, IInv, WaveIsTheSignal, WaveEnds

\* Steps that leave the ring, the waveform and their history alone.
LEMMA Elsewhere ==
    ASSUME IInv, DTypeOK', UNCHANGED <<fifo, history, wave>>
    PROVE  IInv'
  BY DEF IInv, RingHoldsNewest, WaveIsTheSignal, WaveEnds, backlog, fifo, history

\* A readout stays one.
LEMMA DrawType ==
    ASSUME NEW S, NEW f \in FieldOf(S), NEW v \in S
    PROVE  Draw(f, v) \in FieldOf(S)
  BY DEF Draw, FieldOf

\* So does the header.
LEMMA HeaderType ==
    ASSUME NEW h \in HeaderFields, NEW s \in Sample
    PROVE  draw_header(h, s) \in HeaderFields
<1>1. /\ h.addr \in FieldOf(Nat) /\ h.data \in FieldOf(Nat)
      /\ h.rw \in FieldOf(BOOLEAN) /\ h.lights \in FieldOf(SUBSET Flags)
  BY Zenon DEF HeaderFields
<1>2. s.addr \in Nat /\ s.data \in Nat /\ s.flags \in SUBSET Flags
  BY Zenon DEF Sample
<1>3. IsRead(s) \in BOOLEAN
  BY DEF IsRead
<1>4. /\ Draw(h.addr, s.addr) \in FieldOf(Nat) /\ Draw(h.data, s.data) \in FieldOf(Nat)
      /\ Draw(h.rw, IsRead(s)) \in FieldOf(BOOLEAN)
      /\ Draw(h.lights, s.flags) \in FieldOf(SUBSET Flags)
  BY <1>1, <1>2, <1>3, DrawType, Zenon
<1> QED
  BY <1>4, Zenon DEF draw_header, HeaderFields

\* The rate and the footer, whatever a refresh does besides.
LEMMA RateType ==
    ASSUME DTypeOK, MeasureRate
    PROVE  captures' \in Nat /\ rate' \in Nat /\ sinceRate' \in 0 .. SECOND
  BY DisplayAssumption DEF DTypeOK, MeasureRate

\* What the footer shows are readouts, whatever was left out of it.
LEMMA FooterType ==
    ASSUME DTypeOK, MeasureRate, NEW full, NEW fetched,
           NEW f \in FieldOf(Int \X Int), NEW g \in FieldOf(Nat), NEW c \in FieldOf(Nat),
           DrawFooter(full, fetched, f, g, c)
    PROVE  /\ fetchField' \in FieldOf(Int \X Int)
           /\ cyclesField' \in FieldOf(Nat) /\ clkField' \in FieldOf(Nat)
<1>1. fetch \in Int \X Int /\ cycle_count \in Nat /\ rate' \in Nat
  BY RateType DEF DTypeOK
<1>2. /\ Draw(f, fetch) \in FieldOf(Int \X Int)
      /\ Draw(g, cycle_count) \in FieldOf(Nat) /\ Draw(c, rate') \in FieldOf(Nat)
  BY <1>1, DrawType, Zenon
<1> QED
  BY <1>2, Zenon DEF DrawFooter

-----------------------------------------------------------------------------
\* The host, time, and the polls that draw no column.

\* Steps that touch neither the ring nor the waveform.
LEMMA QuietSteps ==
    ASSUME IInv, Connect \/ Disconnect \/ Tick \/ NoMessage \/ TooSoon
    PROVE  IInv'
<1> USE DisplayAssumption DEF IInv
<1>1. CASE Connect
  <2>1. DTypeOK'
    BY <1>1 DEF Connect, DTypeOK, fifo, counters, ages, screen, history
  <2> QED
    BY <1>1, <2>1, Elsewhere DEF Connect, screen
<1>2. CASE Disconnect
  <2>1. DTypeOK'
    BY <1>2 DEF Disconnect, DTypeOK, fifo, counters, ages, screen, history
  <2> QED
    BY <1>2, <2>1, Elsewhere DEF Disconnect, screen
<1>3. CASE Tick
  <2>1. DTypeOK'
    BY <1>3 DEF Tick, Older, DTypeOK, fifo, counters, screen, history, host
  <2> QED
    BY <1>3, <2>1, Elsewhere DEF Tick, screen
<1>4. CASE NoMessage
  <2>1. DTypeOK'
    BY <1>4 DEF NoMessage, DTypeOK, fifo, counters, ages, screen, history, host
  <2> QED
    BY <1>4, <2>1, Elsewhere DEF NoMessage, screen
<1>5. CASE TooSoon
  <2>1. DTypeOK'
    BY <1>5 DEF TooSoon, DTypeOK, fifo, counters, ages, screen, history, host
  <2> QED
    BY <1>5, <2>1, Elsewhere DEF TooSoon, screen
<1> QED
  BY <1>1, <1>2, <1>3, <1>4, <1>5

\* A refresh that finds no new sample draws at most the footer.
LEMMA NothingNewStep ==
    ASSUME IInv, RefreshNothingNew
    PROVE  IInv'
<1>1. /\ fetchField' \in FieldOf(Int \X Int)
      /\ cyclesField' \in FieldOf(Nat) /\ clkField' \in FieldOf(Nat)
  BY FooterType, Zenon DEF IInv, DTypeOK, RefreshNothingNew
<1>2. captures' \in Nat /\ rate' \in Nat /\ sinceRate' \in 0 .. SECOND
  BY RateType DEF IInv, RefreshNothingNew
<1>3. DTypeOK'
  BY <1>1, <1>2, DisplayAssumption
     DEF IInv, RefreshNothingNew, DTypeOK, fifo, counters, history, host
<1> QED
  BY <1>3, Elsewhere DEF RefreshNothingNew

\* An empty ring: everything was drawn or dropped.
LEMMA EmptyRing ==
    ASSUME DTypeOK', ring_tail' = ring_head', seen' = taken'
    PROVE  RingHoldsNewest'
<1>1. RING \in Nat /\ RING > 2
  BY DisplayAssumption
<1>2. \A a \in Int : a - a = 0
  OBVIOUS
<1>3. ring_head' \in Int /\ taken' \in Int
  BY <1>1, DisplayAssumption DEF DTypeOK
<1>4. ring_head' - ring_tail' = 0 /\ taken' - seen' = 0
  BY <1>2, <1>3, Zenon
<1>5. 0 % RING = 0 /\ 0 < RING /\ 0 .. 0 - 1 = {}
  <2>1. 0 \in Int /\ -RING <= 0 /\ 0 < 2 * RING /\ 0 < RING
    BY <1>1
  <2> QED BY <2>1, OneTurn
<1>6. backlog' = 0
  BY <1>4, <1>5, Zenon DEF backlog
<1> QED
  BY <1>4, <1>5, <1>6, Zenon DEF RingHoldsNewest

\* What waits in the ring is dropped together with the waveform.
LEMMA IdleStep ==
    ASSUME IInv, display_idle
    PROVE  IInv'
<1>1. DTypeOK'
  <2>1. seen' \in 0 .. taken'
    BY DisplayAssumption DEF IInv, display_idle, DTypeOK
  <2>2. wave' \in Seq(Column) /\ Len(wave') <= WAVE_COLS
    <3>1. << >> \in Seq(Column) /\ Len(<< >>) <= WAVE_COLS
      BY DisplayAssumption
    <3>2. wave' = wave \/ wave' = << >>
      BY Zenon DEF display_idle
    <3> QED
      BY <3>1, <3>2, Zenon DEF IInv, DTypeOK, Column
  <2>3. ring' = ring /\ ring_head' \in 0 .. RING - 1 /\ ring_tail' \in 0 .. RING - 1
    BY DEF IInv, display_idle, DTypeOK
  <2>4. /\ at' \in {"idle", "poll", "refresh"}
        /\ chrome_drawn' \in BOOLEAN /\ splash_drawn' \in BOOLEAN
    BY DEF IInv, display_idle, DTypeOK
  <2> QED
    BY <2>1, <2>2, <2>3, <2>4, Zenon
       DEF IInv, display_idle, DTypeOK, Column, counters, ages, host
<1>2. CASE splash_drawn
  BY <1>1, <1>2, Elsewhere DEF display_idle, fifo, history
<1>3. CASE ~splash_drawn
  <2>1. ring_tail' = ring_head' /\ seen' = taken' /\ wave' = << >>
    BY <1>3 DEF display_idle
  <2> QED
    BY <1>1, <2>1, EmptyRing DEF IInv, WaveIsTheSignal, WaveEnds
<1> QED
  BY <1>2, <1>3

-----------------------------------------------------------------------------
\* display_capture: one more sample in the ring, in the place of the oldest
\* when there is no room.

\* display_capture: types.
LEMMA CaptureType ==
    ASSUME IInv, NEW s \in Samples, display_capture(s)
    PROVE  DTypeOK'
<1>1. /\ s \in Sample /\ s.addr \in Nat /\ s.data \in Nat
      /\ RING \in Nat /\ RING > 2 /\ MaxCaptures \in Nat
  BY DisplayAssumption DEF Sample
<1>2. taken' \in 0 .. MaxCaptures /\ taken' \in Nat /\ seen' \in 0 .. taken'
  BY <1>1 DEF IInv, DTypeOK, display_capture
<1>3. session \in Nat
  BY DisplayAssumption DEF IInv, DTypeOK
<1>4. ring' \in [0 .. RING - 1 -> Entry]
  <2> DEFINE e == [sample |-> s, n |-> taken', session |-> session]
  <2>1. e \in Entry
    BY <1>1, <1>2, <1>3 DEF Entry
  <2> HIDE DEF e
  <2>2. ring' = [ring EXCEPT ![ring_head] = e]
    BY DEF display_capture, e
  <2> QED
    BY <2>1, <2>2 DEF IInv, DTypeOK
<1>5. ring_head' \in 0 .. RING - 1 /\ ring_tail' \in 0 .. RING - 1
  BY StepSlot DEF IInv, DTypeOK, display_capture
<1>6. cycle_count' \in Nat /\ captures' \in Nat
  BY <1>1 DEF IInv, DTypeOK, display_capture
<1>7. last_phi2' \in BOOLEAN /\ have_fetch' \in BOOLEAN
  BY <1>1 DEF IInv, DTypeOK, display_capture
<1>8. fetch' \in Nat \X Nat /\ at' \in {"idle", "poll", "refresh"}
  BY <1>1 DEF IInv, DTypeOK, display_capture
<1> QED
  BY <1>2, <1>4, <1>5, <1>6, <1>7, <1>8, Zenon
     DEF IInv, DTypeOK, display_capture, host, ages, screen

\* display_capture puts one sample in, and a full ring drops its oldest.
LEMMA CaptureStep ==
    ASSUME IInv, NEW s \in Samples, display_capture(s)
    PROVE  IInv'
<1>1. RING \in Nat /\ RING > 2
  BY DisplayAssumption
<1>2. DTypeOK'
  BY CaptureType
<1>3. /\ ring_head \in 0 .. RING - 1 /\ ring_tail \in 0 .. RING - 1
      /\ ring_head' \in 0 .. RING - 1 /\ ring_tail' \in 0 .. RING - 1
      /\ taken \in Nat /\ seen \in 0 .. taken
      /\ ring \in [0 .. RING - 1 -> Entry]
  BY <1>1, <1>2, DisplayAssumption DEF IInv, DTypeOK
<1>4. taken' = taken + 1 /\ seen' = seen
  BY DEF display_capture
<1>5. backlog' = IF backlog = RING - 1 THEN RING - 1 ELSE backlog + 1
  <2>1. backlog = IF ring_head >= ring_tail THEN ring_head - ring_tail
                  ELSE ring_head - ring_tail + RING
    BY <1>3, Distance, Zenon DEF backlog
  <2>2. backlog' = IF ring_head' >= ring_tail' THEN ring_head' - ring_tail'
                   ELSE ring_head' - ring_tail' + RING
    BY <1>3, Distance, Zenon DEF backlog
  <2>3. ring_head' = IF ring_head = RING - 1 THEN 0 ELSE ring_head + 1
    BY <1>3, StepSlot DEF display_capture
  <2>4. ring_tail' = IF ring_head' = ring_tail
                     THEN IF ring_tail = RING - 1 THEN 0 ELSE ring_tail + 1
                     ELSE ring_tail
    BY <1>3, StepSlot DEF display_capture, Overwrites
  <2> QED
    BY <1>1, <1>3, <2>1, <2>2, <2>3, <2>4
<1>6. backlog \in 0 .. RING - 1 /\ backlog' \in 0 .. RING - 1
  BY <1>3, Distance, Zenon DEF backlog
<1>7. backlog' = IF taken' - seen' < RING THEN taken' - seen' ELSE RING - 1
  BY <1>1, <1>3, <1>4, <1>5 DEF IInv, RingHoldsNewest
<1>8. ASSUME NEW k \in 0 .. backlog' - 1
      PROVE  ring'[(ring_head' - 1 - k) % RING].n = taken' - k
  <2> DEFINE slot == (ring_head' - 1 - k) % RING
             e == [sample |-> s, n |-> taken', session |-> session]
  <2>1. ring' = [ring EXCEPT ![ring_head] = e] /\ ring_head' = NextSlot(ring_head)
    BY DEF display_capture
  <2>2. e.n = taken'
    OBVIOUS
  <2> HIDE DEF slot, e
  <2>3. k \in 0 .. RING - 2 /\ k \in Int
    <3>1. \A b \in 0 .. RING - 1 : \A j \in 0 .. b - 1 : j \in 0 .. RING - 2 /\ j \in Int
      BY <1>1
    <3> QED
      BY <1>6, <3>1, Zenon
  <2>4. CASE k = 0
    <3>1. slot = ring_head
      BY <1>3, <2>1, <2>3, <2>4, SlotsApart, Zenon DEF slot
    <3>2. ring'[slot] = e
      BY <1>3, <2>1, <3>1
    <3>3. taken' - 0 = taken'
      BY <1>3, <1>4
    <3> QED
      BY <2>2, <2>4, <3>2, <3>3, Zenon DEF slot
  <2>5. CASE k # 0
    <3>1. slot = (ring_head - 1 - (k - 1)) % RING /\ slot \in (0 .. RING - 1) \ {ring_head}
      BY <1>3, <2>1, <2>3, <2>5, SlotsApart, Zenon DEF slot
    <3>2. ring'[slot] = ring[slot]
      BY <1>3, <2>1, <3>1
    <3>3. k - 1 \in 0 .. backlog - 1
      BY <1>1, <1>5, <1>6, <2>5
    <3>4. ring[slot].n = taken - (k - 1)
      BY <3>1, <3>3, Zenon DEF IInv, RingHoldsNewest
    <3>5. taken - (k - 1) = taken' - k
      BY <1>3, <1>4, <2>3
    <3> QED
      BY <3>2, <3>4, <3>5, Zenon DEF slot
  <2> QED
    BY <2>4, <2>5
<1>9. RingHoldsNewest'
  BY <1>7, <1>8, Zenon DEF RingHoldsNewest
<1>10. wave' = wave
  BY DEF display_capture, screen
<1> QED
  BY <1>2, <1>4, <1>9, <1>10 DEF IInv, WaveIsTheSignal, WaveEnds

-----------------------------------------------------------------------------
\* A refresh that draws columns: all that waits, or in fast mode the newest.

\* The columns of one refresh are consecutive samples that were not drawn
\* before, up to the newest; the first follows the last one drawn before when
\* it is joined to it.
LEMMA ColumnsAre ==
    ASSUME IInv
    PROVE  /\ Drawn \in 0 .. RING - 1 /\ (Drawn = 0 <=> ring_head = ring_tail)
           /\ Columns \in Seq(Column) /\ Len(Columns) = Drawn /\ Forward(Columns)
           /\ Drawn > 0 =>
                /\ Columns[Drawn].n = taken
                /\ seen < Columns[1].n
                /\ Columns[1].joined => chrome_drawn /\ Columns[1].n = seen + 1
<1>1. RING \in Nat /\ RING > 2 /\ MAX_COLS \in Nat \ {0} /\ MAX_COLS < RING - 1
  BY DisplayAssumption
<1>2. /\ ring_head \in 0 .. RING - 1 /\ ring_tail \in 0 .. RING - 1
      /\ taken \in Nat /\ seen \in Nat /\ seen <= taken
  BY <1>1, DisplayAssumption DEF IInv, DTypeOK
<1>3. backlog \in 0 .. RING - 1 /\ (backlog = 0 <=> ring_head = ring_tail)
  BY <1>2, Distance, Zenon DEF backlog
<1>4. /\ Drawn \in 0 .. RING - 1 /\ Drawn <= backlog /\ (Drawn = 0 <=> backlog = 0)
      /\ ~fast_mode <=> Drawn = backlog
  BY <1>1, <1>3 DEF Drawn, fast_mode
<1>5. backlog = IF taken - seen < RING THEN taken - seen ELSE RING - 1
  BY DEF IInv, RingHoldsNewest
<1>6. /\ Drawn <= taken - seen
      /\ ~fast_mode => Drawn = taken - seen
  BY <1>1, <1>2, <1>3, <1>4, <1>5 DEF fast_mode
<1>7. ASSUME NEW k \in 1 .. Drawn
      PROVE  /\ SlotOf(k) \in 0 .. RING - 1
             /\ ring[SlotOf(k)] \in Entry
             /\ ring[SlotOf(k)].n = taken - (Drawn - k)
  <2> DEFINE j == Drawn - k
  <2>1. j \in 0 .. backlog - 1 /\ j \in 0 .. RING - 1
    BY <1>1, <1>3, <1>4
  <2>2. ring_head - Drawn + k - 1 = ring_head - 1 - j
    BY <1>2, <1>4
  <2>3. SlotOf(k) = (ring_head - 1 - j) % RING
    BY <2>2 DEF SlotOf
  <2> HIDE DEF j
  <2>4. SlotOf(k) = IF j < ring_head THEN ring_head - 1 - j ELSE ring_head - 1 - j + RING
    BY <1>2, <2>1, <2>3, SlotBehind, Zenon
  <2>5. SlotOf(k) \in 0 .. RING - 1
    BY <1>1, <1>2, <2>1, <2>4
  <2>6. ring[SlotOf(k)].n = taken - j
    BY <2>1, <2>3, Zenon DEF IInv, RingHoldsNewest
  <2> QED
    BY <2>5, <2>6 DEF j, IInv, DTypeOK
<1>8. JoinsPrevious \in BOOLEAN /\ (JoinsPrevious => chrome_drawn /\ ~fast_mode)
  BY DEF JoinsPrevious, fast_mode, IInv, DTypeOK
<1>9. ASSUME NEW k \in 1 .. Drawn
      PROVE  /\ Columns[k] \in Column
             /\ Columns[k].n = taken - (Drawn - k)
             /\ Columns[k].joined = (k > 1 \/ JoinsPrevious)
  <2> DEFINE e == ring[SlotOf(k)]
             j == (k > 1 \/ JoinsPrevious)
  <2>1. Columns[k] = [n |-> e.n, session |-> e.session, joined |-> j]
    BY DEF Columns
  <2>2. e \in Entry /\ e.n = taken - (Drawn - k)
    BY <1>7
  <2>3. j \in BOOLEAN
    BY <1>8
  <2> HIDE DEF e, j
  <2>4. Columns[k] \in Column /\ Columns[k].n = e.n /\ Columns[k].joined = j
    BY <2>1, <2>2, <2>3 DEF Column, Entry
  <2> QED
    BY <2>2, <2>4 DEF j
<1>10. Columns \in Seq(Column) /\ Len(Columns) = Drawn
  <2>1. Columns = [k \in 1 .. Drawn |-> Columns[k]]
    BY DEF Columns
  <2>2. Columns \in [1 .. Drawn -> Column] /\ Drawn \in Nat
    BY <1>4, <1>9, <2>1
  <2> QED
    BY <2>2, LenProperties, SeqDef
<1>11. Forward(Columns)
  <2> SUFFICES ASSUME NEW k \in 2 .. Drawn
               PROVE  /\ Columns[k - 1].n < Columns[k].n
                      /\ Columns[k].joined => Columns[k].n = Columns[k - 1].n + 1
    BY <1>10 DEF Forward
  <2>1. k \in 1 .. Drawn /\ k - 1 \in 1 .. Drawn
    BY <1>4
  <2>2. Columns[k].n = taken - (Drawn - k) /\ Columns[k - 1].n = taken - (Drawn - (k - 1))
    BY <1>9, <2>1
  <2> QED
    BY <1>2, <1>4, <2>1, <2>2
<1>12. ASSUME Drawn > 0
       PROVE  /\ Columns[Drawn].n = taken
              /\ seen < Columns[1].n
              /\ Columns[1].joined => chrome_drawn /\ Columns[1].n = seen + 1
  <2>1. 1 \in 1 .. Drawn /\ Drawn \in 1 .. Drawn
    BY <1>4, <1>12
  <2>2. /\ Columns[Drawn].n = taken - (Drawn - Drawn)
        /\ Columns[1].n = taken - (Drawn - 1)
        /\ Columns[1].joined = (1 > 1 \/ JoinsPrevious)
    BY <1>9, <2>1
  <2>3. Columns[1].joined => chrome_drawn /\ ~fast_mode
    BY <1>8, <2>2
  <2> QED
    BY <1>2, <1>4, <1>6, <2>2, <2>3
<1> QED
  BY <1>3, <1>4, <1>10, <1>11, <1>12

\* The columns are put behind what the screen still shows.
LEMMA WaveAfterDraw ==
    ASSUME IInv, RefreshDraw
    PROVE  /\ wave' \in Seq(Column) /\ Len(wave') <= WAVE_COLS /\ Forward(wave')
           /\ wave' # << >> => wave'[Len(wave')].n = taken
           /\ ring_head # ring_tail => wave' # << >>
<1> DEFINE old == IF chrome_drawn THEN wave ELSE << >>
           cols == Columns
           all == old \o cols
<1>1. wave \in Seq(Column) /\ Forward(wave) /\ (wave # << >> => wave[Len(wave)].n = seen)
  BY DEF IInv, DTypeOK, Column, WaveIsTheSignal, WaveEnds, Forward
<1>2. /\ Drawn \in 0 .. RING - 1 /\ (Drawn = 0 <=> ring_head = ring_tail)
      /\ cols \in Seq(Column) /\ Len(cols) = Drawn /\ Forward(cols)
      /\ Drawn > 0 => /\ cols[Drawn].n = taken
                      /\ seen < cols[1].n
                      /\ cols[1].joined => chrome_drawn /\ cols[1].n = seen + 1
  BY ColumnsAre
<1>3. << >> \in Seq(Column) /\ Forward(<< >>)
  BY DEF Forward
<1>4. old \in Seq(Column) /\ Forward(old) /\ (old # << >> => old[Len(old)].n = seen)
  <2>1. CASE chrome_drawn
    BY <1>1, <2>1
  <2>2. CASE ~chrome_drawn
    BY <1>3, <2>2
  <2> QED
    BY <2>1, <2>2
<1>5. old # << >> => cols # << >>
  <2> SUFFICES ASSUME old # << >> PROVE cols # << >>
    OBVIOUS
  <2>1. chrome_drawn
    OBVIOUS
  <2>2. ring_head # ring_tail
    BY <2>1 DEF RefreshDraw
  <2> HIDE DEF cols
  <2> QED
    BY <1>2, <2>2
<1> HIDE DEF old, cols
<1>6. cols # << >> => Drawn > 0 /\ Len(cols) = Drawn
  BY <1>2
<1>7. old # << >> /\ cols # << >> =>
        /\ old[Len(old)].n < cols[1].n
        /\ cols[1].joined => cols[1].n = old[Len(old)].n + 1
  BY <1>2, <1>4, <1>6
<1>8. /\ all \in Seq(Column) /\ Forward(all)
      /\ cols # << >> => all # << >> /\ all[Len(all)] = cols[Len(cols)]
  BY <1>2, <1>4, <1>7, ForwardConcat
<1>9. all # << >> => cols # << >>
  <2>1. cols = << >> => old = << >>
    BY <1>5
  <2>2. cols = << >> => all = << >>
    BY <1>3, <2>1
  <2> QED
    BY <2>2
<1>10. all # << >> => all[Len(all)].n = taken
  BY <1>2, <1>6, <1>8, <1>9
<1>11. wave' = LastOf(all, WAVE_COLS)
  BY DEF RefreshDraw, old, cols
<1> HIDE DEF all
<1>12. WAVE_COLS \in Nat \ {0}
  BY DisplayAssumption
<1>13. /\ LastOf(all, WAVE_COLS) \in Seq(Column) /\ Forward(LastOf(all, WAVE_COLS))
       /\ Len(LastOf(all, WAVE_COLS)) <= WAVE_COLS
       /\ all = << >> => LastOf(all, WAVE_COLS) = << >>
       /\ all # << >> => /\ LastOf(all, WAVE_COLS) # << >>
                         /\ LastOf(all, WAVE_COLS)[Len(LastOf(all, WAVE_COLS))] = all[Len(all)]
  BY <1>8, <1>12, ForwardLast
<1>14. ring_head # ring_tail => all # << >>
  <2>1. ring_head # ring_tail => cols # << >>
    BY <1>2
  <2> QED
    BY <1>8, <2>1
<1> QED
  BY <1>10, <1>11, <1>13, <1>14, Zenon

\* The newest sample is in a slot of the ring.
LEMMA LatestIn ==
    ASSUME DTypeOK
    PROVE  Latest \in Entry /\ (ring_head - 1) % RING \in 0 .. RING - 1
<1>1. RING \in Nat /\ RING > 2 /\ ring_head \in 0 .. RING - 1
  BY DisplayAssumption DEF DTypeOK
<1>2. ring_head - 1 = ring_head - 1 - 0 /\ 0 \in 0 .. RING - 1
  BY <1>1
<1>3. (ring_head - 1 - 0) % RING
      = IF 0 < ring_head THEN ring_head - 1 - 0 ELSE ring_head - 1 - 0 + RING
  BY <1>1, <1>2, SlotBehind, Zenon
<1>4. (ring_head - 1 - 0) % RING \in 0 .. RING - 1
  BY <1>1, <1>3
<1>5. (ring_head - 1) % RING \in 0 .. RING - 1
  BY <1>2, <1>4
<1> QED
  BY <1>5 DEF Latest, DTypeOK

\* display_refresh: types.
LEMMA RefreshDrawType ==
    ASSUME IInv, RefreshDraw
    PROVE  DTypeOK'
<1>1. wave' \in Seq(Column) /\ Len(wave') <= WAVE_COLS
  BY WaveAfterDraw
<1>2. captures' \in Nat /\ rate' \in Nat /\ sinceRate' \in 0 .. SECOND
  BY RateType DEF IInv, RefreshDraw
<1> DEFINE full == Drawn > 0 /\ (~fast_mode \/ sinceHeader >= SECOND)
           was(field, undrawn) == IF chrome_drawn THEN field ELSE undrawn
<1>3. ASSUME NEW S, NEW f \in S, NEW u \in S
      PROVE  was(f, u) \in S
  OBVIOUS
<1>4. /\ header \in HeaderFields /\ fetchField \in FieldOf(Int \X Int)
      /\ cyclesField \in FieldOf(Nat) /\ clkField \in FieldOf(Nat)
  BY DEF IInv, DTypeOK
<1>5. /\ was(header, UndrawnHeader) \in HeaderFields
      /\ was(fetchField, Undrawn(NoFetch)) \in FieldOf(Int \X Int)
      /\ was(cyclesField, Undrawn(1)) \in FieldOf(Nat)
      /\ was(clkField, Undrawn(1)) \in FieldOf(Nat)
  <2> HIDE DEF was
  <2> QED
    BY <1>3, <1>4, Sentinels, Zenon
<1>6. /\ header' = IF full THEN draw_header(was(header, UndrawnHeader), Latest.sample)
                   ELSE was(header, UndrawnHeader)
      /\ sinceHeader' = IF full THEN 0 ELSE sinceHeader
      /\ DrawFooter(full, have_fetch', was(fetchField, Undrawn(NoFetch)),
                    was(cyclesField, Undrawn(1)), was(clkField, Undrawn(1)))
  BY Zenon DEF RefreshDraw
<1> HIDE DEF full, was
<1>7. Latest.sample \in Sample
  BY LatestIn DEF IInv, Entry
<1>8. header' \in HeaderFields
  BY <1>5, <1>6, <1>7, HeaderType, Zenon
<1>9. /\ fetchField' \in FieldOf(Int \X Int)
      /\ cyclesField' \in FieldOf(Nat) /\ clkField' \in FieldOf(Nat)
  BY <1>5, <1>6, FooterType, Zenon DEF IInv, RefreshDraw
<1>10. sinceHeader' \in 0 .. SECOND /\ sinceRefresh' \in 0 .. REFRESH
  BY <1>6, DisplayAssumption DEF IInv, DTypeOK, RefreshDraw
<1>11. seen' \in 0 .. taken'
  BY DisplayAssumption DEF IInv, DTypeOK, RefreshDraw
<1>12. /\ chrome_drawn' \in BOOLEAN /\ splash_drawn' \in BOOLEAN /\ have_prev' \in BOOLEAN
       /\ have_fetch' \in BOOLEAN
  BY DEF IInv, DTypeOK, RefreshDraw
<1>13. at' \in {"idle", "poll", "refresh"}
  BY DEF RefreshDraw
<1> QED
  BY <1>1, <1>2, <1>8, <1>9, <1>10, <1>11, <1>12, <1>13, Zenon
     DEF IInv, DTypeOK, Column, RefreshDraw, host, counters

\* display_refresh empties the ring; what it draws continues the waveform.
LEMMA DrawStep ==
    ASSUME IInv, RefreshDraw
    PROVE  IInv'
<1>1. DTypeOK'
  BY RefreshDrawType
<1>2. ring_tail' = ring_head' /\ seen' = taken' /\ taken' = taken
  BY DEF RefreshDraw
<1>3. RingHoldsNewest'
  BY <1>1, <1>2, EmptyRing
<1>4. Forward(wave') /\ (wave' # << >> => wave'[Len(wave')].n = taken)
  BY WaveAfterDraw
<1> QED
  BY <1>1, <1>2, <1>3, <1>4, Zenon DEF IInv, WaveIsTheSignal, WaveEnds, Forward

-----------------------------------------------------------------------------
\* The invariant is inductive: display_capture, display_idle and each branch of
\* display_refresh keep it.
THEOREM Inductive == Spec => []IInv
<1>1. Init => IInv
  BY InitIInv
<1>2. IInv /\ [Next]_vars => IInv'
  <2> SUFFICES ASSUME IInv, [Next]_vars PROVE IInv'
    OBVIOUS
  <2>1. CASE Connect \/ Disconnect \/ Tick \/ NoMessage
    BY <2>1, QuietSteps
  <2>2. CASE display_idle
    BY <2>2, IdleStep
  <2>3. CASE display_refresh
    BY <2>3, QuietSteps, NothingNewStep, DrawStep DEF display_refresh
  <2>4. CASE \E s \in Samples : display_capture(s)
    BY <2>4, CaptureStep
  <2>5. CASE UNCHANGED vars
    <3>1. DTypeOK'
      BY <2>5 DEF IInv, DTypeOK, vars, host, fifo, counters, ages, screen, history
    <3> QED
      BY <2>5, <3>1, Elsewhere DEF vars, screen
  <2> QED
    BY <2>1, <2>2, <2>3, <2>4, <2>5 DEF Next
<1> QED
  BY <1>1, <1>2, PTL DEF Spec

\* Types: no index leaves the ring, no age its limit.
THEOREM TypeCorrect == Spec => []DTypeOK
<1>1. IInv => DTypeOK
  BY DEF IInv
<1> QED
  BY <1>1, Inductive, PTL

\* However a host's messages and the refreshes alternate, what waits in the
\* ring is the newest samples that were neither drawn nor dropped: all of
\* them, or as many as the ring has room for.
THEOREM RingIsRight == Spec => []RingHoldsNewest
<1>1. IInv => RingHoldsNewest
  BY DEF IInv
<1> QED
  BY <1>1, Inductive, PTL

\* The waveform goes forward in time and joins only consecutive samples,
\* through overflows of the ring, fast mode and sessions that end.
THEOREM WaveIsRight == Spec => []WaveIsTheSignal
<1>1. IInv => WaveIsTheSignal
  BY DEF IInv
<1> QED
  BY <1>1, Inductive, PTL

-----------------------------------------------------------------------------
(* Catching up: what the panel shows when it has nothing left to draw.     *)

\* With the panel drawn and no sample waiting, the waveform ends with the
\* newest sample of the session.
WaveIsCurrent ==
    chrome_drawn /\ ring_head = ring_tail /\ Fresh =>
        wave # << >> /\ wave[Len(wave)].n = taken

\* What was dropped undrawn is of an earlier session by the time the panel is
\* drawn again.
NothingHidden ==
    /\ \A k \in 0 .. RING - 1 : ring[k].session <= session
    /\ ring_head = ring_tail /\ Fresh =>
          IF chrome_drawn THEN wave # << >> ELSE at = "idle" /\ ~dtr

\* A sample that was taken waits to be drawn.
LEMMA CaptureWaits ==
    ASSUME DTypeOK, NEW s \in Samples, display_capture(s)
    PROVE  ring_head' # ring_tail'
<1>1. RING \in Nat /\ RING > 2 /\ ring_head \in 0 .. RING - 1 /\ ring_tail \in 0 .. RING - 1
  BY DisplayAssumption DEF DTypeOK
<1>2. ring_head' = NextSlot(ring_head)
      /\ ring_tail' = IF ring_head' = ring_tail THEN NextSlot(ring_tail) ELSE ring_tail
  BY DEF display_capture, Overwrites
<1>3. NextSlot(ring_tail) # ring_tail
  BY <1>1, StepSlot
<1> QED
  BY <1>2, <1>3

\* Steps that leave the ring, the waveform and the chrome alone.
LEMMA HiddenElsewhere ==
    ASSUME NothingHidden, UNCHANGED <<fifo, wave, chrome_drawn, taken, session>>,
           chrome_drawn \/ at # "idle" \/ dtr \/ (at' = "idle" /\ ~dtr')
    PROVE  NothingHidden'
<1>1. Fresh' = Fresh
  BY DEF Fresh, Latest, fifo
<1> QED
  BY <1>1 DEF NothingHidden, fifo

\* NothingHidden step by step.
LEMMA HiddenInductive == IInv /\ NothingHidden /\ [Next]_vars => NothingHidden'
<1> SUFFICES ASSUME IInv, NothingHidden, [Next]_vars PROVE NothingHidden'
  OBVIOUS
<1>0. DTypeOK /\ dtr \in BOOLEAN /\ session \in Nat /\ taken \in Nat
  BY DisplayAssumption DEF IInv, DTypeOK
<1>1. CASE Connect
  <2>1. session' = session + 1 /\ UNCHANGED <<ring, ring_head, ring_tail>>
    BY <1>1 DEF Connect, fifo
  <2>2. ring[(ring_head - 1) % RING].session <= session
    BY <1>0, LatestIn DEF NothingHidden
  <2>3. Latest' = Latest /\ Latest.session \in Nat /\ Latest.session <= session
    BY <1>0, <2>1, <2>2, LatestIn DEF Latest, Entry
  <2>4. ~Fresh'
    BY <1>0, <2>1, <2>3 DEF Fresh
  <2>5. \A k \in 0 .. RING - 1 : ring[k].session \in Nat
    BY <1>0 DEF DTypeOK, Entry
  <2> QED
    BY <1>0, <2>1, <2>4, <2>5 DEF NothingHidden
<1>2. CASE Disconnect
  BY <1>0, <1>2, HiddenElsewhere DEF Disconnect, screen, history
<1>3. CASE Tick
  <2>1. UNCHANGED <<fifo, wave, chrome_drawn, taken, session, at, dtr>>
    BY <1>3 DEF Tick, screen, history, host
  <2>2. Fresh' = Fresh
    BY <2>1 DEF Fresh, Latest, fifo
  <2> QED
    BY <2>1, <2>2 DEF NothingHidden, fifo
<1>4. CASE NoMessage
  BY <1>4, HiddenElsewhere DEF NoMessage, screen, history, host
<1>5. CASE TooSoon
  BY <1>5, HiddenElsewhere DEF TooSoon, screen, history, host
<1>6. CASE RefreshNothingNew
  BY <1>6, HiddenElsewhere DEF RefreshNothingNew, history, host
<1>7. CASE display_idle
  <2>1. /\ at' = "idle" /\ ~dtr' /\ ring' = ring /\ ring_head' = ring_head
        /\ session' = session /\ taken' = taken
    BY <1>7 DEF display_idle, host
  <2>2. CASE splash_drawn
    <3>1. chrome_drawn' = chrome_drawn /\ ring_tail' = ring_tail /\ wave' = wave
      BY <1>7, <2>2 DEF display_idle
    <3> QED
      BY <2>1, <3>1, HiddenElsewhere DEF fifo
  <2>3. CASE ~splash_drawn
    <3>1. ~chrome_drawn'
      BY <1>7, <2>3 DEF display_idle
    <3> QED
      BY <2>1, <3>1 DEF NothingHidden
  <2> QED
    BY <2>2, <2>3
<1>8. CASE RefreshDraw
  <2>1. /\ at = "refresh" /\ chrome_drawn' /\ UNCHANGED <<ring, ring_head, session, taken>>
        /\ chrome_drawn => ring_head # ring_tail
    BY <1>8 DEF RefreshDraw, host
  <2>2. Fresh' = Fresh
    BY <2>1 DEF Fresh, Latest
  <2>3. ring_head # ring_tail => wave' # << >>
    BY <1>8, WaveAfterDraw
  <2>4. Fresh => ring_head # ring_tail
    BY <2>1 DEF NothingHidden
  <2> QED
    BY <2>1, <2>2, <2>3, <2>4 DEF NothingHidden
<1>9. ASSUME NEW s \in Samples, display_capture(s) PROVE NothingHidden'
  <2>1. ring_head' # ring_tail'
    BY <1>0, <1>9, CaptureWaits
  <2>2. /\ session' = session
        /\ ring' = [ring EXCEPT ![ring_head] =
                       [sample |-> s, n |-> taken', session |-> session]]
    BY <1>9 DEF display_capture, host
  <2>3. DOMAIN ring = 0 .. RING - 1
    BY <1>0 DEF DTypeOK
  <2>4. \A k \in 0 .. RING - 1 : ring'[k].session <= session
    BY <1>0, <2>2, <2>3 DEF NothingHidden
  <2> QED
    BY <2>1, <2>2, <2>4 DEF NothingHidden
<1>10. CASE UNCHANGED vars
  <2>1. UNCHANGED <<fifo, wave, chrome_drawn, taken, session, at, dtr>>
    BY <1>10 DEF vars, screen, history, host
  <2>2. Fresh' = Fresh
    BY <2>1 DEF Fresh, Latest, fifo
  <2> QED
    BY <2>1, <2>2 DEF NothingHidden, fifo
<1> QED
  BY <1>1, <1>2, <1>3, <1>4, <1>5, <1>6, <1>7, <1>8, <1>9, <1>10 DEF Next, display_refresh

\* An empty ring: the last sample that left it is the newest one.
LEMMA NothingWaits == IInv /\ ring_head = ring_tail => seen = taken
<1> SUFFICES ASSUME IInv, ring_head = ring_tail PROVE seen = taken
  OBVIOUS
<1>1. RING \in Nat /\ RING > 2 /\ ring_head \in 0 .. RING - 1 /\ ring_tail \in 0 .. RING - 1
  BY DisplayAssumption DEF IInv, DTypeOK
<1>2. backlog = 0
  BY <1>1, Distance DEF backlog
<1>3. seen \in Int /\ taken \in Int
  BY DisplayAssumption DEF IInv, DTypeOK
<1> QED
  BY <1>1, <1>2, <1>3 DEF IInv, RingHoldsNewest

\* The safety half of WaveCatchesUp: a panel that is drawn and has no sample
\* left to draw shows the newest one, through overflows, fast mode and
\* sessions that end with samples undrawn.  A refresh empties the ring.
THEOREM WaveStaysCurrent == Spec => []WaveIsCurrent
<1>1. Init => NothingHidden
  <2> SUFFICES ASSUME Init PROVE NothingHidden
    OBVIOUS
  <2>1. ~Fresh
    BY DEF Init, Fresh
  <2>2. \A k \in 0 .. RING - 1 : ring[k].session = 0
    BY DEF Init
  <2>3. session = 0
    BY DEF Init
  <2> QED
    BY <2>1, <2>2, <2>3 DEF NothingHidden
<1>2. Spec => []NothingHidden
  BY <1>1, HiddenInductive, Inductive, PTL DEF Spec
<1>3. IInv /\ NothingHidden => WaveIsCurrent
  BY NothingWaits DEF IInv, NothingHidden, WaveEnds, WaveIsCurrent
<1> QED
  BY <1>2, <1>3, Inductive, PTL

-----------------------------------------------------------------------------
\* A readout shows its shown_* variable, or has not been drawn since
\* draw_chrome left the sentinel in it.
Honest(f, sentinel) == Shows(f, f.shown, sentinel)

HeaderHonest(h) ==
    /\ Honest(h.addr, NoSample.addr) /\ Honest(h.data, NoSample.data)
    /\ Honest(h.rw, IsRead(NoSample)) /\ Honest(h.lights, NoSample.flags)

AllHonest ==
    /\ HeaderHonest(header) /\ Honest(fetchField, NoFetch)
    /\ Honest(cyclesField, 1) /\ Honest(clkField, 1)

\* Drawing a value.
LEMMA DrawIsHonest ==
    ASSUME NEW f, NEW v, NEW sentinel, Honest(f, sentinel)
    PROVE  Honest(Draw(f, v), sentinel) /\ Shows(Draw(f, v), v, sentinel)
<1>1. CASE v = f.shown
  BY <1>1, Zenon DEF Honest, Draw, Shows
<1>2. CASE v # f.shown
  <2>1. Draw(f, v) = [shown |-> v, text |-> {v}]
    BY <1>2, Zenon DEF Draw
  <2>2. Draw(f, v).shown = v /\ Draw(f, v).text = {v}
    BY <2>1
  <2> QED
    BY <2>2, Zenon DEF Honest, Shows
<1> QED
  BY <1>1, <1>2, Zenon

\* What draw_chrome leaves.
LEMMA UndrawnIsHonest ==
    ASSUME NEW sentinel
    PROVE  Honest(Undrawn(sentinel), sentinel)
<1>1. Undrawn(sentinel).shown = sentinel /\ Undrawn(sentinel).text = Blank
  BY Zenon DEF Undrawn
<1> QED
  BY <1>1, Zenon DEF Honest, Shows

\* The header as draw_chrome leaves it.
LEMMA UndrawnHeaderIsHonest == HeaderHonest(UndrawnHeader)
<1>1. /\ UndrawnHeader.addr = Undrawn(NoSample.addr)
      /\ UndrawnHeader.data = Undrawn(NoSample.data)
      /\ UndrawnHeader.rw = Undrawn(IsRead(NoSample))
      /\ UndrawnHeader.lights = Undrawn(NoSample.flags)
  BY Zenon DEF UndrawnHeader
<1> QED
  BY <1>1, UndrawnIsHonest, Zenon DEF HeaderHonest

\* draw_header.
LEMMA HeaderIsHonest ==
    ASSUME NEW h, NEW s, HeaderHonest(h)
    PROVE  /\ HeaderHonest(draw_header(h, s))
           /\ Shows(draw_header(h, s).addr, s.addr, NoSample.addr)
           /\ Shows(draw_header(h, s).data, s.data, NoSample.data)
           /\ Shows(draw_header(h, s).rw, IsRead(s), IsRead(NoSample))
           /\ Shows(draw_header(h, s).lights, s.flags, NoSample.flags)
<1>1. /\ draw_header(h, s).addr = Draw(h.addr, s.addr)
      /\ draw_header(h, s).data = Draw(h.data, s.data)
      /\ draw_header(h, s).rw = Draw(h.rw, IsRead(s))
      /\ draw_header(h, s).lights = Draw(h.lights, s.flags)
  BY Zenon DEF draw_header
<1> QED
  BY <1>1, DrawIsHonest, Zenon DEF HeaderHonest

\* draw_footer.
LEMMA FooterIsHonest ==
    ASSUME NEW full, NEW fetched, NEW f, NEW c, NEW r,
           DrawFooter(full, fetched, f, c, r),
           Honest(f, NoFetch), Honest(c, 1), Honest(r, 1)
    PROVE  /\ Honest(fetchField', NoFetch) /\ Honest(cyclesField', 1) /\ Honest(clkField', 1)
           /\ Shows(clkField', rate', 1)
           /\ full => /\ Shows(cyclesField', cycle_count, 1)
                      /\ fetched => Shows(fetchField', fetch, NoFetch)
<1>1. /\ Honest(Draw(f, fetch), NoFetch) /\ Shows(Draw(f, fetch), fetch, NoFetch)
      /\ Honest(Draw(c, cycle_count), 1) /\ Shows(Draw(c, cycle_count), cycle_count, 1)
      /\ Honest(Draw(r, rate'), 1) /\ Shows(Draw(r, rate'), rate', 1)
  BY DrawIsHonest, Zenon
<1> QED
  BY <1>1, Zenon DEF DrawFooter

\* display_refresh with samples to draw, or the panel itself.
LEMMA DrawIsHonestStep ==
    ASSUME AllHonest, RefreshDraw
    PROVE  /\ AllHonest'
           /\ Drawn > 0 /\ ~fast_mode => FooterIsCurrent' /\ HeaderIsCurrent'
<1> DEFINE full == Drawn > 0 /\ (~fast_mode \/ sinceHeader >= SECOND)
           was(field, undrawn) == IF chrome_drawn THEN field ELSE undrawn
           h == was(header, UndrawnHeader)
           f == was(fetchField, Undrawn(NoFetch))
           c == was(cyclesField, Undrawn(1))
           r == was(clkField, Undrawn(1))
<1>1. /\ HeaderHonest(h) /\ Honest(f, NoFetch) /\ Honest(c, 1) /\ Honest(r, 1)
  BY UndrawnIsHonest, UndrawnHeaderIsHonest, Zenon DEF AllHonest
<1>2. /\ header' = IF full THEN draw_header(h, Latest.sample) ELSE h
      /\ DrawFooter(full, have_fetch', f, c, r)
  BY Zenon DEF RefreshDraw
<1>3. Drawn > 0 /\ ~fast_mode => full
  OBVIOUS
<1> HIDE DEF full, was, h, f, c, r
<1>4. /\ Honest(fetchField', NoFetch) /\ Honest(cyclesField', 1) /\ Honest(clkField', 1)
      /\ Shows(clkField', rate', 1)
      /\ full => /\ Shows(cyclesField', cycle_count, 1)
                 /\ have_fetch' => Shows(fetchField', fetch, NoFetch)
  BY <1>1, <1>2, FooterIsHonest, Zenon
<1> DEFINE s == Latest.sample
<1> HIDE DEF s
<1>5. header' = IF full THEN draw_header(h, s) ELSE h
  BY <1>2, Zenon DEF s
<1>6. /\ HeaderHonest(header')
      /\ full => /\ Shows(header'.addr, s.addr, NoSample.addr)
                 /\ Shows(header'.data, s.data, NoSample.data)
                 /\ Shows(header'.rw, IsRead(s), IsRead(NoSample))
                 /\ Shows(header'.lights, s.flags, NoSample.flags)
  BY <1>1, <1>5, HeaderIsHonest, Zenon
<1>7. cycle_count' = cycle_count /\ fetch' = fetch /\ Latest'.sample = s
  <2>1. ring' = ring /\ ring_head' = ring_head
    BY Zenon DEF RefreshDraw
  <2> QED
    BY <2>1, Zenon DEF RefreshDraw, counters, Latest, s
<1>8. AllHonest'
  BY <1>4, <1>6, Zenon DEF AllHonest
<1>9. full => FooterIsCurrent' /\ HeaderIsCurrent'
  BY <1>4, <1>6, <1>7, Zenon DEF FooterIsCurrent, HeaderIsCurrent
<1> QED
  BY <1>3, <1>8, <1>9, Zenon

\* display_refresh with nothing new.
LEMMA NothingNewIsHonest ==
    ASSUME AllHonest, RefreshNothingNew
    PROVE  AllHonest' /\ FooterIsCurrent'
<1>1. /\ Honest(fetchField, NoFetch) /\ Honest(cyclesField, 1) /\ Honest(clkField, 1)
      /\ DrawFooter(TRUE, have_fetch, fetchField, cyclesField, clkField)
  BY Zenon DEF AllHonest, RefreshNothingNew
<1>2. /\ Honest(fetchField', NoFetch) /\ Honest(cyclesField', 1) /\ Honest(clkField', 1)
      /\ Shows(clkField', rate', 1)
      /\ Shows(cyclesField', cycle_count, 1)
      /\ have_fetch => Shows(fetchField', fetch, NoFetch)
  BY <1>1, FooterIsHonest, Zenon
<1>3. /\ cycle_count' = cycle_count /\ fetch' = fetch /\ have_fetch' = have_fetch
      /\ header' = header
  BY DEF RefreshNothingNew, counters
<1> QED
  BY <1>2, <1>3, Zenon DEF AllHonest, FooterIsCurrent

\* AllHonest step by step.
LEMMA HonestInductive == AllHonest /\ [Next]_vars => AllHonest' /\ [RefreshedAll]_vars
<1> SUFFICES ASSUME AllHonest, [Next]_vars PROVE AllHonest' /\ [RefreshedAll]_vars
  OBVIOUS
<1>1. RefreshDraw => AllHonest'
                     /\ (Drawn > 0 /\ ~fast_mode => FooterIsCurrent' /\ HeaderIsCurrent')
  BY DrawIsHonestStep
<1>2. RefreshNothingNew => AllHonest' /\ FooterIsCurrent'
  BY NothingNewIsHonest
<1>3. RefreshedAll
  BY <1>1, <1>2, Zenon DEF RefreshedAll
<1>4. ASSUME UNCHANGED <<header, fetchField, cyclesField, clkField>> PROVE AllHonest'
  BY <1>4 DEF AllHonest
<1>5. Connect \/ Disconnect \/ Tick \/ NoMessage \/ TooSoon \/ display_idle => AllHonest'
  BY <1>4 DEF Connect, Disconnect, Tick, NoMessage, TooSoon, display_idle, screen
<1>6. (\E s \in Samples : display_capture(s)) => AllHonest'
  BY <1>4 DEF display_capture, screen
<1>7. UNCHANGED vars => AllHonest'
  BY <1>4 DEF vars, screen
<1> QED
  BY <1>1, <1>2, <1>3, <1>5, <1>6, <1>7 DEF Next, display_refresh

\* The safety half of FooterCatchesUp, and the other side of the stale header
\* of the run display_header: readouts fall behind in fast mode only.  A
\* refresh with nothing new leaves the footer, and one that draws every sample
\* that waits each part of footer and header, showing what the firmware knows,
\* or blank when it was not drawn since draw_chrome and has its sentinel's
\* value.
THEOREM SlowRefreshIsCurrent == Spec => SlowRefreshShowsAll
<1>1. Init => AllHonest
  <2> SUFFICES ASSUME Init PROVE AllHonest
    OBVIOUS
  <2>1. /\ header = UndrawnHeader /\ fetchField = Undrawn(NoFetch)
        /\ cyclesField = Undrawn(1) /\ clkField = Undrawn(1)
    BY Zenon DEF Init
  <2> QED
    BY <2>1, UndrawnIsHonest, UndrawnHeaderIsHonest, Zenon DEF AllHonest
<1> QED
  BY <1>1, HonestInductive, PTL DEF Spec, SlowRefreshShowsAll

=============================================================================

------------------------------- MODULE Display ------------------------------
(***************************************************************************)
(* The optional front panel, src/src/display.cpp, called from loop(): a    *)
(* ring buffer of samples between the requests and the screen, which is    *)
(* redrawn every DISPLAY_REFRESH_MS: a waveform with one column per sample,*)
(* and readouts that are redrawn only when their value changes.            *)
(*                                                                         *)
(* Time passes in ticks; what the code compares is how long ago something  *)
(* was, so the model keeps ages, up to the longest that matters.           *)
(***************************************************************************)
EXTENDS Integers, Sequences

CONSTANTS
    RING,              \* slots of the ring buffer (256: uint8_t indices)
    MAX_COLS,          \* MAX_COLS_PER_REFRESH
    WAVE_COLS,         \* columns of the waveform that are remembered
    REFRESH, SECOND,   \* DISPLAY_REFRESH_MS and 1000 ms, in ticks
    Samples,           \* what decode_sample may yield
    MaxCaptures,       \* bound: samples taken
    MaxSessions        \* bound: times a host opens the port

\* A sample is the address, the data and the lines of the DISP_ masks that
\* are high.
Flags  == {"PHI2", "SYNC", "RW", "VP", "ML", "IRQ", "NMI", "RES"}
Sample == [addr : Nat, data : Nat, flags : SUBSET Flags]

ASSUME DisplayAssumption ==
    /\ RING \in Nat /\ MAX_COLS \in Nat \ {0} /\ MAX_COLS < RING - 1
    /\ WAVE_COLS \in Nat \ {0}
    /\ REFRESH \in Nat \ {0} /\ SECOND \in Nat /\ SECOND > REFRESH
    /\ Samples \subseteq Sample
    /\ MaxCaptures \in Nat /\ MaxSessions \in Nat

VARIABLES
    dtr,           \* a host has the port open
    at,            \* loop(): "idle" (DTR was low), "poll" or "refresh"
    ring, ring_head, ring_tail,
    chrome_drawn, splash_drawn, have_prev,
    cycle_count, last_phi2, captures, rate,
    fetch, have_fetch,                           \* the latest opcode fetch
    sinceRefresh, sinceRate, sinceHeader,        \* ages of the last_*_ms
    wave,                                        \* the screen: columns,
    header, fetchField, cyclesField, clkField,   \* and readouts
    session, taken, seen   \* history: opens, captures, those drawn or dropped

host      == <<dtr, session>>
fifo      == <<ring, ring_head, ring_tail>>
counters  == <<cycle_count, last_phi2, fetch>>
ages      == <<sinceRefresh, sinceRate, sinceHeader>>
history   == <<taken, seen>>
screen    == <<wave, header, fetchField, cyclesField, clkField>>
vars == <<host, at, fifo, chrome_drawn, splash_drawn, have_prev, counters,
          have_fetch, captures, rate, ages, screen, history>>

-----------------------------------------------------------------------------
\* A readout: the value drawn last (its part of the shown_* variables) and
\* what is on the screen, which is nothing or one value.  It is drawn only
\* when the value differs.
Blank == {}
FieldOf(S) == [shown : S, text : SUBSET S]

\* draw_chrome clears the screen and leaves every shown_* at its sentinel.
\* No fetch is 0xFFFFFFFF, so that one cannot be the value of a fetch.
NoSample == [addr |-> 65535, data |-> 255, flags |-> Flags]
NoFetch  == <<-1, -1>>
Undrawn(sentinel) == [shown |-> sentinel, text |-> Blank]

Draw_KeepsShown(field, v) ==
    IF v = field.shown THEN field ELSE [field EXCEPT !.text = {v}]
Draw(field, v) == IF v = field.shown THEN field ELSE [shown |-> v, text |-> {v}]

\* The header has four parts, each drawn when its part of the sample differs
\* from that of `shown`: address, data, R or W, and the row of indicators.
IsRead(s) == "RW" \in s.flags

HeaderFields ==
    [addr : FieldOf(Nat), data : FieldOf(Nat),
     rw : FieldOf(BOOLEAN), lights : FieldOf(SUBSET Flags)]

UndrawnHeader ==
    [addr |-> Undrawn(NoSample.addr), data |-> Undrawn(NoSample.data),
     rw |-> Undrawn(IsRead(NoSample)), lights |-> Undrawn(NoSample.flags)]

draw_header(h, s) ==
    [addr |-> Draw(h.addr, s.addr), data |-> Draw(h.data, s.data),
     rw |-> Draw(h.rw, IsRead(s)), lights |-> Draw(h.lights, s.flags)]

backlog == (ring_head - ring_tail) % RING

Entry == [sample : Sample, n : Nat, session : Nat]

Init ==
    /\ dtr = FALSE /\ session = 0 /\ taken = 0 /\ seen = 0 /\ at = "poll"
    /\ ring = [i \in 0 .. RING - 1 |->
                 [sample |-> [addr |-> 0, data |-> 0, flags |-> {}], n |-> 0, session |-> 0]]
    /\ ring_head = 0 /\ ring_tail = 0
    /\ chrome_drawn = FALSE /\ splash_drawn = FALSE /\ have_prev = FALSE
    /\ cycle_count = 0 /\ last_phi2 = FALSE /\ captures = 0 /\ rate = 0
    /\ fetch = <<0, 0>> /\ have_fetch = FALSE
    /\ sinceRefresh = 0 /\ sinceRate = 0 /\ sinceHeader = 0
    /\ wave = << >>
    /\ header = UndrawnHeader /\ fetchField = Undrawn(NoFetch)
    /\ cyclesField = Undrawn(1) /\ clkField = Undrawn(1)

-----------------------------------------------------------------------------
\* The host.  loop() runs far more often than a host can toggle DTR.
Connect ==
    /\ ~dtr /\ at = "idle" /\ session < MaxSessions
    /\ dtr' = TRUE
    /\ session' = session + 1
    /\ UNCHANGED <<at, fifo, chrome_drawn, splash_drawn, have_prev, counters,
                   have_fetch, captures, rate, ages, screen, history>>

Disconnect ==
    /\ dtr
    /\ dtr' = FALSE
    /\ UNCHANGED <<session, at, fifo, chrome_drawn, splash_drawn, have_prev,
                   counters, have_fetch, captures, rate, ages, screen, history>>

Older(age, limit) == IF age < limit THEN age + 1 ELSE age

Tick ==
    /\ sinceRefresh' = Older(sinceRefresh, REFRESH)
    /\ sinceRate' = Older(sinceRate, SECOND)
    /\ sinceHeader' = Older(sinceHeader, SECOND)
    /\ ages' # ages
    /\ UNCHANGED <<host, at, fifo, chrome_drawn, splash_drawn, have_prev,
                   counters, have_fetch, captures, rate, screen, history>>

-----------------------------------------------------------------------------
\* loop() with DTR low.  The splash covers the readouts too; draw_chrome sets
\* them back before any is drawn again, so they are left alone here.
display_idle ==
    /\ ~dtr /\ at \in {"idle", "poll"}
    /\ at' = "idle"
    /\ IF splash_drawn
       THEN UNCHANGED <<splash_drawn, chrome_drawn, ring_tail, wave, seen>>
       ELSE /\ splash_drawn' = TRUE /\ chrome_drawn' = FALSE
            /\ ring_tail' = ring_head  \* drop samples from the previous session
            /\ seen' = taken
            /\ wave' = << >>
    /\ UNCHANGED <<host, ring, ring_head, have_prev, counters, have_fetch, captures,
                   rate, ages, header, fetchField, cyclesField, clkField, taken>>

\* loop() with DTR high: loop_prod finds no message, or serves one.
NoMessage ==
    /\ dtr /\ at \in {"idle", "poll"}
    /\ at' = "refresh"
    /\ UNCHANGED <<host, fifo, chrome_drawn, splash_drawn, have_prev, counters,
                   have_fetch, captures, rate, ages, screen, history>>

NextSlot_NoWrap(i) == i + 1
NextSlot(i) == (i + 1) % RING

Overwrites_Never == FALSE
Overwrites == ring_head' = ring_tail

display_capture(s) ==
    /\ dtr /\ at \in {"idle", "poll"} /\ taken < MaxCaptures
    /\ at' = "refresh"
    /\ taken' = taken + 1
    /\ ring' = [ring EXCEPT ![ring_head] =
                    [sample |-> s, n |-> taken', session |-> session]]
    /\ ring_head' = NextSlot(ring_head)
    /\ ring_tail' = IF Overwrites THEN NextSlot(ring_tail) ELSE ring_tail
    /\ LET phi2 == "PHI2" \in s.flags
           opcode == phi2 /\ "SYNC" \in s.flags
       IN  /\ cycle_count' = IF "RES" \notin s.flags THEN 0
                             ELSE IF phi2 /\ ~last_phi2 THEN cycle_count + 1
                             ELSE cycle_count
           /\ last_phi2' = phi2
           /\ fetch' = IF opcode THEN <<s.addr, s.data>> ELSE fetch
           /\ have_fetch' = (have_fetch \/ opcode)
    /\ captures' = captures + 1
    /\ UNCHANGED <<host, chrome_drawn, splash_drawn, have_prev, rate, ages, screen, seen>>

-----------------------------------------------------------------------------
\* display_refresh, called at the end of every loop() with DTR high.

TooSoon ==
    /\ at = "refresh" /\ sinceRefresh < REFRESH
    /\ at' = "poll"
    /\ UNCHANGED <<host, fifo, chrome_drawn, splash_drawn, have_prev, counters,
                   have_fetch, captures, rate, ages, screen, history>>

MeasureRate_KeepsCount ==
    IF sinceRate >= SECOND
    THEN rate' = captures \div 2 /\ sinceRate' = 0 /\ UNCHANGED captures
    ELSE UNCHANGED <<rate, captures, sinceRate>>

\* Once per second the captures become a rate.
MeasureRate ==
    IF sinceRate >= SECOND
    THEN rate' = captures \div 2 /\ captures' = 0 /\ sinceRate' = 0
    ELSE UNCHANGED <<rate, captures, sinceRate>>

\* draw_footer, given the readouts as draw_chrome left them if it was called.
DrawFooter(full, fetched, fetchF, cyclesF, clkF) ==
    /\ fetchField'  = IF full /\ fetched THEN Draw(fetchF, fetch) ELSE fetchF
    /\ cyclesField' = IF full THEN Draw(cyclesF, cycle_count) ELSE cyclesF
    /\ clkField'    = Draw(clkF, rate')

RefreshNothingNew ==
    /\ at = "refresh" /\ sinceRefresh >= REFRESH
    /\ chrome_drawn /\ ring_head = ring_tail
    /\ at' = "poll"
    /\ sinceRefresh' = 0
    /\ MeasureRate
    /\ DrawFooter(TRUE, have_fetch, fetchField, cyclesField, clkField)
    /\ UNCHANGED <<host, fifo, chrome_drawn, splash_drawn, have_prev, counters,
                   have_fetch, sinceHeader, wave, header, history>>

fast_mode == backlog > MAX_COLS
Drawn     == IF fast_mode THEN MAX_COLS ELSE backlog

\* The columns drawn by one refresh.  A column is joined to the one on its
\* left when a level change between the two is drawn as an edge.
JoinsPrevious_Always == have_prev
JoinsPrevious == have_prev /\ chrome_drawn /\ ~fast_mode

SlotOf_OneBehind(k) == (ring_head - Drawn + k - 2) % RING
SlotOf(k) == (ring_head - Drawn + k - 1) % RING

Columns ==
    [k \in 1 .. Drawn |->
        LET e == ring[SlotOf(k)]
        IN  [n |-> e.n, session |-> e.session, joined |-> k > 1 \/ JoinsPrevious]]

LastOf(seq, m) == IF Len(seq) <= m THEN seq ELSE SubSeq(seq, Len(seq) - m + 1, Len(seq))

Latest == ring[(ring_head - 1) % RING]

RefreshDraw ==
    /\ at = "refresh" /\ sinceRefresh >= REFRESH
    /\ ~chrome_drawn \/ ring_head # ring_tail
    /\ at' = "poll"
    /\ sinceRefresh' = 0
    /\ MeasureRate
    /\ chrome_drawn' = TRUE
    /\ splash_drawn' = IF chrome_drawn THEN splash_drawn ELSE FALSE
    /\ have_fetch' = (chrome_drawn /\ have_fetch)
    /\ have_prev' = (Drawn > 0 \/ (have_prev /\ chrome_drawn))
    /\ wave' = LastOf((IF chrome_drawn THEN wave ELSE << >>) \o Columns, WAVE_COLS)
    /\ ring_tail' = ring_head
    /\ seen' = taken
    /\ LET full == Drawn > 0 /\ (~fast_mode \/ sinceHeader >= SECOND)
           was(field, undrawn) == IF chrome_drawn THEN field ELSE undrawn
           old == was(header, UndrawnHeader)
       IN  /\ header' = IF full THEN draw_header(old, Latest.sample) ELSE old
           /\ sinceHeader' = IF full THEN 0 ELSE sinceHeader
           /\ DrawFooter(full, have_fetch', was(fetchField, Undrawn(NoFetch)),
                         was(cyclesField, Undrawn(1)), was(clkField, Undrawn(1)))
    /\ UNCHANGED <<host, ring, ring_head, counters, taken>>

display_refresh == TooSoon \/ RefreshNothingNew \/ RefreshDraw

-----------------------------------------------------------------------------
Next ==
    \/ Connect \/ Disconnect \/ Tick
    \/ display_idle \/ NoMessage \/ display_refresh
    \/ \E s \in Samples : display_capture(s)

Spec == Init /\ [][Next]_vars

\* Time passes and loop() keeps being called, with or without messages.
FairSpec ==
    Spec /\ WF_vars(Tick) /\ WF_vars(display_idle) /\ WF_vars(NoMessage)
         /\ WF_vars(display_refresh)

-----------------------------------------------------------------------------
(* Properties.                                                             *)

DTypeOK ==
    /\ dtr \in BOOLEAN /\ at \in {"idle", "poll", "refresh"}
    /\ ring \in [0 .. RING - 1 -> Entry]
    /\ ring_head \in 0 .. RING - 1 /\ ring_tail \in 0 .. RING - 1
    /\ chrome_drawn \in BOOLEAN /\ splash_drawn \in BOOLEAN /\ have_prev \in BOOLEAN
    /\ cycle_count \in Nat /\ last_phi2 \in BOOLEAN
    /\ captures \in Nat /\ rate \in Nat
    /\ fetch \in Nat \X Nat /\ have_fetch \in BOOLEAN
    /\ sinceRefresh \in 0 .. REFRESH
    /\ sinceRate \in 0 .. SECOND /\ sinceHeader \in 0 .. SECOND
    /\ wave \in Seq([n : Nat, session : Nat, joined : BOOLEAN]) /\ Len(wave) <= WAVE_COLS
    /\ header \in HeaderFields /\ fetchField \in FieldOf(Int \X Int)
    /\ cyclesField \in FieldOf(Nat) /\ clkField \in FieldOf(Nat)
    /\ session \in 0 .. MaxSessions /\ taken \in 0 .. MaxCaptures /\ seen \in 0 .. taken

\* The ring buffer overwrites its oldest sample when it is full: what waits to
\* be drawn is the samples that were neither drawn nor dropped yet, in order,
\* or as many of the newest of them as there is room for.
RingHoldsNewest ==
    /\ backlog = IF taken - seen < RING THEN taken - seen ELSE RING - 1
    /\ \A k \in 0 .. backlog - 1 : ring[(ring_head - 1 - k) % RING].n = taken - k

\* The waveform goes forward in time, and an edge is drawn only between two
\* samples that were taken one after the other: where samples were skipped or
\* dropped the line is broken.
WaveIsTheSignal ==
    \A k \in 2 .. Len(wave) :
        /\ wave[k - 1].n < wave[k].n
        /\ wave[k].joined => wave[k].n = wave[k - 1].n + 1

\* MaxCaptures bounds the samples, so a host that stays connected falls silent
\* at some time, with any number of samples waiting and whatever was left
\* undrawn while it was busy.
Pauses == <>[]dtr

\* A readout shows a value, or nothing when that value is also the sentinel
\* that stands for never drawn.
Shows(field, v, sentinel) == field.text = {v} \/ (field.text = Blank /\ v = sentinel)

FooterIsCurrent ==
    /\ have_fetch => Shows(fetchField, fetch, NoFetch)
    /\ Shows(cyclesField, cycle_count, 1) /\ Shows(clkField, rate, 1)

HeaderIsCurrent ==
    LET s == Latest.sample
    IN  /\ Shows(header.addr, s.addr, NoSample.addr)
        /\ Shows(header.data, s.data, NoSample.data)
        /\ Shows(header.rw, IsRead(s), IsRead(NoSample))
        /\ Shows(header.lights, s.flags, NoSample.flags)

\* A refresh that finds nothing new brings the footer up to date, one that
\* draws every sample that waits the header too.
RefreshedAll ==
    /\ RefreshNothingNew => FooterIsCurrent'
    /\ RefreshDraw /\ Drawn > 0 /\ ~fast_mode => FooterIsCurrent' /\ HeaderIsCurrent'

\* display.cpp "While stepping (no backlog) every detail updates immediately",
\* less what stays blank on a fresh screen, and whatever was left out before.
SlowRefreshShowsAll == [][RefreshedAll]_vars

\* docs/development-guide-cpp.md "a cycle counter (reset by RES) and the
\* measured effective clock rate (HOLD when the host pauses)": after a pause
\* the footer shows the latest opcode fetch, the number of cycles and a rate
\* of 0, and keeps to it.  A count of 1 may stay blank (Shows): 1 is also the
\* value of shown_cycles that stands for never drawn.
FooterCatchesUp ==
    Pauses => <>[](rate = 0 /\ FooterIsCurrent)

\* The newest sample was taken in this session.
Fresh == taken > 0 /\ Latest.session = session

\* After a pause the waveform ends with the newest sample of the session.
WaveCatchesUp ==
    Pauses => <>[](Fresh => wave # << >> /\ wave[Len(wave)].n = taken)

\* display_idle "drop samples from the previous session": the waveform shows
\* nothing of an earlier session.
OnlyThisSession ==
    dtr => \A k \in 1 .. Len(wave) : wave[k].session = session

\* docs/development-guide-cpp.md "a header with the current address/data":
\* after a pause the header shows the newest sample of the session, less what
\* stays blank on a fresh screen.
HeaderCatchesUp ==
    Pauses => <>[](Fresh => HeaderIsCurrent)

=============================================================================

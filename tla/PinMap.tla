------------------------------- MODULE PinMap -------------------------------
(***************************************************************************)
(* The same 40 pins in the hands of six pieces of code: both firmwares map *)
(* payload bits to pins of the Teensy, both host programs map them to      *)
(* signals, the front panel does too, and between the Teensy and the CPU   *)
(* there are the wires of README.md.  Each has tables of its own.          *)
(*                                                                         *)
(* A number is the set of its one bits: a byte is a subset of 0 .. 7, an   *)
(* address of 0 .. 15, a u64 payload of 0 .. 39.  The levels of the pins   *)
(* of the Teensy are the set of pins that are HIGH.                        *)
(***************************************************************************)
EXTENDS Integers, Sequences

\* buff[BUFFSIZE]
Buffers == [0 .. 4 -> SUBSET (0 .. 7)]

Signals == {"vp", "ready", "phi1o", "irq", "ml", "nmi", "sync",
            "rw", "be", "phi2", "so", "phi2o", "reset"}

\* The pins object of a host program: the signals that are high and the buses.
PinsObjects == [high : SUBSET Signals, addr : SUBSET (0 .. 15), data : SUBSET (0 .. 7)]

-----------------------------------------------------------------------------
\* The W65C02: its pin numbers, and the wires to the Teensy.

ChipPin == [vp |-> 1, ready |-> 2, phi1o |-> 3, irq |-> 4, ml |-> 5, nmi |-> 6,
            sync |-> 7, rw |-> 34, be |-> 36, phi2 |-> 37, so |-> 38,
            phi2o |-> 39, reset |-> 40]
ChipAddr(n) == IF n < 12 THEN 9 + n ELSE 10 + n
ChipData(n) == 33 - n

\* Wire[n]: the Teensy pin that pin n of the CPU is wired to, or 255.
Wire == << 0, 21,  2,  3,  4,  5,  6, 255,  7,  8,  9, 11, 12, 24, 25, 28, 29, 30, 31, 32,
          255, 33, 34, 35, 36, 37, 38, 39, 40, 41, 14, 15, 16, 17, 255, 19, 13, 20, 22, 23>>

WireOf(signals) == {Wire[ChipPin[s]] : s \in signals}
AddrWires(addr) == {Wire[ChipAddr(n)] : n \in addr}
DataWires(data) == {Wire[ChipData(n)] : n \in data}

-----------------------------------------------------------------------------
\* The C++ firmware: payload bit b is the Teensy pin pin_ids[b].

PINS_MAP == << 0, 23,  21, 22,   2, 20,   3, 13,   4, 19,   5, 255,  6, 17, 255, 16,
               7, 15,   8, 14,   9, 41,  11, 40,  12, 39,  24, 38,  25, 37,  28, 36,
              29, 35,  30, 34,  31, 33,  32, 255>>

\* Left and right column of the socket, from the top.
pin_ids ==
    [b \in 0 .. 39 |-> IF b < 20 THEN PINS_MAP[2 * b + 1] ELSE PINS_MAP[2 * (39 - b) + 2]]

\* The pins object of the firmware.
pinsRw   == pin_ids[33]
pinsPhi2 == pin_ids[36]

get_pins_state(high) ==
    [c \in 0 .. 4 |-> {j \in 0 .. 7 : LET id == pin_ids[(4 - c) * 8 + j]
                                      IN  id # 255 /\ id \in high}]

WrittenAlways == {3, 5, 35, 36, 37, 39}  \* irq, nmi, be, phi2, so, reset
WrittenOnRead == 25 .. 32

\* write_pin for a set of bits: the output latches afterwards.
write_pins(latch, bits, buff) ==
    LET ids == {pin_ids[b] : b \in bits} \ {255}
        val(id) == \E b \in bits : pin_ids[b] = id /\ (b % 8) \in buff[(39 - b) \div 8]
    IN  (latch \ ids) \cup {id \in ids : val(id)}

-----------------------------------------------------------------------------
\* The Rust firmware: a table from signals to payload bits (payload.rs) and
\* one from signals to Teensy pins (CpuPins).

bits == [vp |-> 0, ready |-> 1, phi1o |-> 2, irq |-> 3, ml |-> 4, nmi |-> 5,
         sync |-> 6, rw |-> 33, be |-> 35, phi2 |-> 36, so |-> 37,
         phi2o |-> 38, reset |-> 39]
addr_bit_NoGap(n) == 8 + n
addr_bit(n) == IF n < 12 THEN 8 + n ELSE 21 + (n - 12)
data_bit(n) == 25 + (7 - n)

get_bit(payload, bit) == (bit % 8) \in payload[4 - bit \div 8]

\* The payload that set_bit makes for each bit in ones.
set_bits(ones) == [c \in 0 .. 4 |-> {b % 8 : b \in {d \in ones : 4 - d \div 8 = c}}]

Pad == [vp |-> 0, ready |-> 21, phi1o |-> 2, irq |-> 3, ml |-> 4, nmi |-> 5,
        sync |-> 6, rw |-> 17, be |-> 19, phi2 |-> 13, so |-> 20,
        phi2o |-> 22, reset |-> 23]
AddrPad == <<7, 8, 9, 11, 12, 24, 25, 28, 29, 30, 31, 32, 33, 34, 35, 36>>
DataPad == <<16, 15, 14, 41, 40, 39, 38, 37>>

apply_lines(latch, payload) ==
    LET lines == {"irq", "nmi", "be", "phi2", "so", "reset"}
    IN  (latch \ {Pad[s] : s \in lines})
          \cup {Pad[s] : s \in {t \in lines : get_bit(payload, bits[t])}}

apply_data(latch, payload) ==
    (latch \ {DataPad[i] : i \in 1 .. 8})
      \cup {DataPad[i + 1] : i \in {j \in 0 .. 7 : get_bit(payload, data_bit(j))}}

sample(high) ==
    set_bits({bits[s] : s \in {t \in Signals : Pad[t] \in high}}
             \cup {addr_bit(i) : i \in {j \in 0 .. 15 : AddrPad[j + 1] \in high}}
             \cup {data_bit(i) : i \in {j \in 0 .. 7 : DataPad[j + 1] \in high}})

-----------------------------------------------------------------------------
\* The C++ host: pin_utils.cpp, and set_pins and set_buff of W65C02Pins.

get_pin(buff, pin) == (pin % 8) \in buff[(39 - pin) \div 8]

\* The signals' numbers in set_pins and set_buff.
PinNo == [vp |-> 0, ready |-> 1, phi1o |-> 2, irq |-> 3, ml |-> 4, nmi |-> 5,
          sync |-> 6, rw |-> 33, be |-> 35, phi2 |-> 36, so |-> 37,
          phi2o |-> 38, reset |-> 39]
addr_pins_NoGap == <<8, 9, 10, 11, 12, 13, 14, 15, 16, 17, 18, 19, 20, 21, 22, 23>>
addr_pins == <<8, 9, 10, 11, 12, 13, 14, 15, 16, 17, 18, 19, 21, 22, 23, 24>>

decode_addr(buff) == {i \in 0 .. 15 : get_pin(buff, addr_pins[i + 1])}
decode_data(buff) == {i \in 0 .. 7 : get_pin(buff, 32 - i)}

set_pins(buff) ==
    [high |-> {s \in Signals : get_pin(buff, PinNo[s])},
     addr |-> decode_addr(buff),
     data |-> decode_data(buff)]

\* set_pin into a zeroed buffer; the address is not written.
set_buff_DataInOrder(pins) ==
    LET ones == {PinNo[s] : s \in pins.high} \cup {25 + i : i \in pins.data}
    IN  [c \in 0 .. 4 |-> {p % 8 : p \in {q \in ones : (39 - q) \div 8 = c}}]

set_buff(pins) ==
    LET ones == {PinNo[s] : s \in pins.high} \cup {32 - i : i \in pins.data}
    IN  [c \in 0 .. 4 |-> {p % 8 : p \in {q \in ones : (39 - q) \div 8 = c}}]

-----------------------------------------------------------------------------
\* The Rust host: a payload is the low 40 bits of a big-endian u64.

from_be_bytes(buff) == UNION {{8 * (4 - c) + j : j \in buff[c]} : c \in 0 .. 4}
to_be_bytes(v) == [c \in 0 .. 4 |-> {b % 8 : b \in {d \in v : d \div 8 = 4 - c}}]

shr(v, n) == {b - n : b \in {d \in v : d >= n}}
shl(v, n) == {b + n : b \in v}
reverse_bits_Not(byte) == byte
reverse_bits(byte) == {7 - b : b \in byte}

\* The shifts in From<u64> and From<Pins>.
Shift == [vp |-> 0, ready |-> 1, phi1o |-> 2, irq |-> 3, ml |-> 4, nmi |-> 5,
          sync |-> 6, rw |-> 33, be |-> 35, phi2 |-> 36, so |-> 37,
          phi2o |-> 38, reset |-> 39]

PinsFrom(buff) ==
    LET v == from_be_bytes(buff)
    IN  [high |-> {s \in Signals : Shift[s] \in v},
         addr |-> (shr(v, 8) \cap (0 .. 11)) \cup (shr(v, 9) \cap (12 .. 15)),
         data |-> reverse_bits(shr(v, 25) \cap (0 .. 7))]

PinsInto(pins) ==
    to_be_bytes({Shift[s] : s \in pins.high}
                \cup shl(reverse_bits(pins.data), 25)
                \cup shl(pins.addr \cap (0 .. 11), 8)
                \cup shl(pins.addr \cap (12 .. 15), 9))

-----------------------------------------------------------------------------
\* The front panel of the C++ firmware.

payload_bit(payload, bit) == (bit % 8) \in payload[4 - bit \div 8]

DISP == [phi2 |-> 36, sync |-> 6, rw |-> 33, vp |-> 0, ml |-> 4, irq |-> 3,
         nmi |-> 5, reset |-> 39]

decode_sample_DataInOrder(payload) ==
    [flags |-> {s \in DOMAIN DISP : payload_bit(payload, DISP[s])},
     addr |-> {i \in 0 .. 11 : payload_bit(payload, 8 + i)}
              \cup {12 + i : i \in {j \in 0 .. 3 : payload_bit(payload, 21 + j)}},
     data |-> {i \in 0 .. 7 : payload_bit(payload, 25 + i)}]

decode_sample(payload) ==
    [flags |-> {s \in DOMAIN DISP : payload_bit(payload, DISP[s])},
     addr |-> {i \in 0 .. 11 : payload_bit(payload, 8 + i)}
              \cup {12 + i : i \in {j \in 0 .. 3 : payload_bit(payload, 21 + j)}},
     data |-> {7 - i : i \in {j \in 0 .. 7 : payload_bit(payload, 25 + j)}}]

=============================================================================

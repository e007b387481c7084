----------------------------- MODULE MCDisplay ------------------------------
(* Display with a ring of four slots, of which a refresh draws two: the low   *)
(* and the high half of an opcode fetch, the latter with all eight lines high *)
(* like the sentinel of the header, and a half-cycle under reset, with $FFFF  *)
(* and $FF on the buses.                                                      *)
EXTENDS Display

Low   == [addr |-> 32768, data |-> 0,   flags |-> Flags \ {"PHI2"}]
High  == [addr |-> 32768, data |-> 234, flags |-> Flags]
Reset == [addr |-> 65535, data |-> 255, flags |-> Flags \ {"PHI2", "SYNC", "RES"}]

AllSamples == {Low, High, Reset}
Fetches    == {Low, High}

=============================================================================

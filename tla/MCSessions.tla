----------------------------- MODULE MCSessions -----------------------------
(* Sessions with the bytes of the device: the first two requests of         *)
(* Runner::reset, and the high half-cycle of an opcode fetch that reads $80,*)
(* whose payload has a type byte in it and whose checksum wraps.            *)
EXTENDS Sessions

ResetLow  == <<42, 0, 0, 0, 40>>   \* SO, BE, RW and NMI, IRQ high
ResetHigh == <<58, 0, 0, 0, 40>>   \* and PHI2
FetchBRA  == <<186, 2, 0, 0, 127>>

ASSUME ResetRequestEnds == FirstRequestEnds

AllLevels == {ResetLow, ResetHigh, FetchBRA}

=============================================================================

--------------------------- MODULE MCDiagnostics ----------------------------
(* Diagnostics with every stuck line, every short of two data lines, shorts of *)
(* two address lines from both ends of each part of the bus that the test     *)
(* exercises differently, and a CPU that may at any time write the first      *)
(* pattern or the completion, besides or instead of what its program has next.*)
EXTENDS Diagnostics

\* A0-A7 carry the 256 offsets, A8-A11 no test of their own, A12-A15 the high
\* addresses.
ShortedAddressLines == {0, 7, 8, 11, 12, 14, 15}

MCFaults ==
    {NoFault} \cup
    {f \in SingleFaults : f.bus = "addr" /\ f.kind = "short" => f.lines \subseteq ShortedAddressLines}

NoFaults  == {NoFault}
NoStrays  == {}

Jumps == {[addr |-> DATA_ADDR, value |-> 0], ReportWrite}

=============================================================================

---------------------------- MODULE MCRustBridge ----------------------------
(* RustBridge with bytes 0 .. 3 and two-byte payloads, as in MCLink.         *)
EXTENDS RustBridge

MCLevels == {<<0, 1>>, <<2, 3>>}
MCFirst  == <<0, 1>>

=============================================================================

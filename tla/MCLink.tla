------------------------------- MODULE MCLink -------------------------------
(* Link with bytes 0 .. 3, so that every kind of type byte occurs inside a   *)
(* payload, two-byte payloads and a few of them that the host may send.      *)
EXTENDS Link

MCLevels == {<<0, 1>>, <<2, 3>>, <<3, 2>>}

=============================================================================

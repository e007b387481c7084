----------------------------- MODULE HalfCycle ------------------------------
(***************************************************************************)
(* What the bridge promises the host program, with no bytes in sight: a    *)
(* half-cycle is a remote procedure call.  The host calls with the levels  *)
(* it wants on the pins, the bridge applies exactly these and samples the  *)
(* pins, once, and the call returns that sample.                           *)
(***************************************************************************)
CONSTANT Levels  \* the states of the 40 pins

VARIABLES
    stage,   \* "idle", "called" or "executed"
    arg,     \* the argument of the latest call
    pins,    \* the levels the bridge applied last
    sample,  \* what the bridge read back after applying them
    result   \* what the latest call returned

vars == <<stage, arg, pins, sample, result>>

Init ==
    /\ stage = "idle"
    /\ arg \in Levels /\ pins \in Levels /\ sample \in Levels /\ result \in Levels

Call ==
    /\ stage = "idle"
    /\ stage' = "called"
    /\ arg' \in Levels
    /\ UNCHANGED <<pins, sample, result>>

Execute ==
    /\ stage = "called"
    /\ stage' = "executed"
    /\ pins' = arg
    /\ sample' \in Levels
    /\ UNCHANGED <<arg, result>>

Return ==
    /\ stage = "executed"
    /\ stage' = "idle"
    /\ result' = sample
    /\ UNCHANGED <<arg, pins, sample>>

Next == Call \/ Execute \/ Return

Spec == Init /\ [][Next]_vars

\* A call that was made returns.
FairSpec == Spec /\ WF_vars(Execute \/ Return)

=============================================================================

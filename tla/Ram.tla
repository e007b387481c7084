-------------------------------- MODULE Ram ---------------------------------
(***************************************************************************)
(* What the whole set-up promises the 6502: behind its pins there is a     *)
(* memory.  A read cycle returns what the latest write cycle to the same   *)
(* address stored, or the initial contents.                                *)
(***************************************************************************)
CONSTANTS Addr, Data

VARIABLES
    mem,  \* the memory as the CPU has left it
    op    \* the latest bus cycle, as the CPU saw it

vars == <<mem, op>>

Cycles == [kind : {"read", "write"}, addr : Addr, data : Data]

Init == mem \in [Addr -> Data] /\ op \in Cycles

Read ==
    /\ \E a \in Addr : op' = [kind |-> "read", addr |-> a, data |-> mem[a]]
    /\ UNCHANGED mem

Write ==
    \E a \in Addr, d \in Data :
        /\ op' = [kind |-> "write", addr |-> a, data |-> d]
        /\ mem' = [mem EXCEPT ![a] = d]

\* A new host program brings a new memory.
Load ==
    /\ mem' \in [Addr -> Data]
    /\ UNCHANGED op

Next == Read \/ Write \/ Load

Spec == Init /\ [][Next]_vars

=============================================================================

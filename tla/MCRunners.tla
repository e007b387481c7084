----------------------------- MODULE MCRunners ------------------------------
(* Runners with words that tell all lines apart: in the k-th of them a line  *)
(* is high in one address if bit k of its number is set, and in the other if *)
(* it is not, so that no two lines agree in all four.  Step mode, where the  *)
(* words do not matter, has a single address.                                *)
EXTENDS Runners

WithBit(k, lines) == {i \in lines : (i \div 2^k) % 2 = 1}
AddrWords(k) == {WithBit(k, 0 .. 15), (0 .. 15) \ WithBit(k, 0 .. 15)}
DataWord(k) == IF k = 3 THEN 0 .. 7 ELSE WithBit(k, 0 .. 7)

FreeRuns ==
    {[addr |-> AddrWords(k), data |-> {{}, DataWord(k)},
      float |-> IF high THEN DataWord(k) ELSE {},
      step |-> FALSE, halfcycles |-> FALSE, cpp |-> fw[1], rust |-> fw[2]] :
        k \in 0 .. 3, high \in BOOLEAN, fw \in {<<"cpp", "rust">>, <<"rust", "cpp">>}}

StepRuns ==
    {[addr |-> {1 .. 3}, data |-> {{}, {7}}, float |-> {7},
      step |-> TRUE, halfcycles |-> hc, cpp |-> "cpp", rust |-> "rust"] : hc \in BOOLEAN}

MCSetups == FreeRuns \cup StepRuns

=============================================================================

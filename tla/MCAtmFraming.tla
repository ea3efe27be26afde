------------------------------ MODULE MCAtmFraming ------------------------------
(* Messages for model-checking AtmFraming: empty, short, as long as the    *)
(* buffer allows, one byte longer, longer still, and too long for the      *)
(* length field.                                                           *)
EXTENDS AtmFraming

MCTexts == {<< >>, <<2>>, <<1, 2>>, <<2, 1, 1>>, <<1, 1, 2, 2, 1>>,
            [k \in 1 .. 9 |-> 1]}
===============================================================================

------------------------------ MODULE MCChunks ------------------------------
(* A small instance of Chunks for TLC. *)
EXTENDS Chunks

\* A debt, an equal amount with more turnover, and a small one with the most.
figures == {[amount |-> -2, turnover |-> 2], [amount |-> 2, turnover |-> 3],
            [amount |-> 1, turnover |-> 5]}
=============================================================================

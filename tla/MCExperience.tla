----------------------------- MODULE MCExperience -----------------------------
(* Experience on tensors of one cell, whose actions add or take one: two    *)
(* orders of them lead to the same residual, and 2 is won in two moves.     *)
EXTENDS Experience

MCTensor(n) == [c \in {1} |-> n]
MCActions == {MCTensor(1), MCTensor(-1)}
MCTargets == {MCTensor(0), MCTensor(1), MCTensor(2)}
===============================================================================

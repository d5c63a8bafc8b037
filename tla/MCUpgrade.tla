----------------------------- MODULE MCUpgrade -----------------------------
(* Two upgrade works for the model checker. *)
EXTENDS Upgrade

CONSTANTS w1, w2

OldInstalled == [b \in 1..2 |-> 1]
BareInstalled == [b \in 1..2 |-> IF b = 1 THEN 1 ELSE 0]
Forward == [w \in Work |-> IF w = w1 THEN 2 ELSE 3]
AllFull == [w \in Work |-> "full"]
FullThenBare == [w \in Work |-> IF w = w1 THEN "full" ELSE "bare"]
NoTarget == [w \in Work |-> 0]
Mistargeted == [w \in Work |-> IF w = w1 THEN 0 ELSE 2]
OnlyForward == [w \in Work |-> FALSE]
=============================================================================

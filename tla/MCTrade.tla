------------------------------- MODULE MCTrade -------------------------------
EXTENDS Trade, TLC
CONSTANTS p1, p2, x, y

\* The smaller backpack is full, and no count of x is below its limit for long:
\* both checks of trade_space_check fail in some states and hold in others.
MCSlots == (p1 :> 1) @@ (p2 :> 2)
MCInitial == (p1 :> [i \in Items |-> IF i = x THEN 2 ELSE 0])
             @@ (p2 :> [i \in Items |-> 1])
MCTyped == {-1, 1}
=============================================================================

----------------------------- MODULE MCExchange -----------------------------
EXTENDS Exchange
CONSTANTS a, b, customer, editor

\* With one slot, a reward fits only when the last a was paid or b is there.
MCInStacks == {[id |-> a, amt |-> 1]}
MCOutStacks == {[id |-> b, amt |-> 1], [id |-> b, amt |-> 2]}
=============================================================================

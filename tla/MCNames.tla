-------------------------------- MODULE MCNames --------------------------------
EXTENDS Names

CONSTANTS h1, h2, r1, r2, r3

\* 241 is the first name whose group wraps.
OneName == {241}
\* The link the last of all names derives, and one that PUT refuses.
TwoPairs == {Address(3124), Link(99, 7)}
Handlers == [r \in Request |-> IF r = r3 THEN h2 ELSE h1]
================================================================================

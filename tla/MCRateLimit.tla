----------------------------- MODULE MCRateLimit -----------------------------
EXTENDS RateLimit

CONSTANT address

MCLimit == [k \in {address} |-> 2]
=============================================================================

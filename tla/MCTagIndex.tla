----------------------------- MODULE MCTagIndex -----------------------------
\* Instances of TagIndex for TLC.
EXTENDS TagIndex, TLC

CONSTANTS a, b, A, B, p, q

\* A caller on each of two instances.
Apart == p :> A @@ q :> B
Alone == p :> A
OneCopy == {<<A, a>>}

View == <<hash, members, adding, call, l1, hand, bus, seen, due>>
=============================================================================

------------------------------ MODULE MCNimbus ------------------------------
\* Instances of Nimbus for TLC.
EXTENDS Nimbus, TLC

OneKey == {"k"}
OneWriter == {"w"}

NoSkew == [i \in Instances |-> 0]
\* One clock is a tick ahead of the others.
OneAhead == [i \in Instances |-> IF i = CHOOSE j \in Instances : TRUE THEN 1 ELSE 0]

Symmetry == Permutations(Instances)
=============================================================================

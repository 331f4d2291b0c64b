---------------------------- MODULE MCBackground ----------------------------
\* Instance of Background for TLC: more keys than workers and queue slots.
EXTENDS Background, TLC

MCKeys == {"a", "b", "c", "d"}
MCClosers == {"c1", "c2"}
=============================================================================

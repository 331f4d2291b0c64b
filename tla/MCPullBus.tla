----------------------------- MODULE MCPullBus -----------------------------
\* Instance of PullBus for TLC: a ring of two slots and three event IDs, so that
\* the ring wraps, and every duration of eight bits, which in seconds overflow
\* the five bits of the deadline.  The callbacks are interchangeable.
EXTENDS PullBus, TLC

MCIDs == {"", "a", "b"}
MCDurations == -128..127
Symmetry == Permutations(Callbacks)
=============================================================================

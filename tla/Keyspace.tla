------------------------------ MODULE Keyspace ------------------------------
\* The keys of a cache, and a name for none of them.
CONSTANTS Keys, NoKey

ASSUME KeyAssumption == NoKey \notin Keys
=============================================================================

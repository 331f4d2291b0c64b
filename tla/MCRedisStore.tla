---------------------------- MODULE MCRedisStore ----------------------------
\* Instance of RedisStore for TLC: three mints of a key per millisecond at
\* most, entries that live one or two milliseconds, and a clock that runs past
\* the expiry of an entry and of the write that replaced it.
EXTENDS RedisStore

MCKeys == {"k"}
MCClients == {"c"}
MCValues == {"v"}
MCLifetimes == {-1, 2}
=============================================================================

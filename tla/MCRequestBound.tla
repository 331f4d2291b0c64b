--------------------------- MODULE MCRequestBound ---------------------------
\* Instance of RequestBound for TLC: more keys than tokens, and room for the
\* goroutines that have given back their token and are not gone yet.
EXTENDS RequestBound, TLC

MCKeys == {"a", "b", "c"}
MCClosers == {"c1", "c2"}
=============================================================================

--------------------------- MODULE MCRequestIdSet ----------------------------
EXTENDS RequestIdSet

CONSTANTS r1, r2, r3

\* r1 and r2 share (market, id); r3 has its own.
MCKey(o) == IF o = r3 THEN "k2" ELSE "k1"

====

------------------------------ MODULE MCBroadcast -------------------------------
EXTENDS Broadcast, TLC

CONSTANTS c1, c2, r1, w1, w2

Contacts == {c1, c2}
Requests == {r1}
Workers == {w1, w2}
===============================================================================

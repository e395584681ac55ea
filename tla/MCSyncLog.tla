------------------------------ MODULE MCSyncLog ------------------------------
EXTENDS SyncLog

CONSTANTS m1, m2, m3, m4, alice, bob, c1, c2

\* Two messages of alice and bob's chat and something that is no message, all
\* announced to alice; and a message from one of bob's devices to another.
MCUserOf == [c \in Changes |-> IF c = m4 THEN bob ELSE alice]
MCChatOf == [c \in Changes |->
    CASE c \in {m1, m2} -> {alice, bob} [] c = m3 -> {} [] c = m4 -> {bob}]
MCMade == [c \in Changes |-> IF c = m1 THEN 1 ELSE 2]
MCClientUser == [p \in Clients |-> alice]
=============================================================================

---------------------------- MODULE MCDeliveryHub ----------------------------
(* Connections of one device, reconnecting, and of another user's device.   *)
EXTENDS DeliveryHub

CONSTANTS a1, a2, b1, phone, tablet, alice, bob

MCDeviceOf == [c \in Conns |-> IF c = b1 THEN tablet ELSE phone]
MCUserOf == [d \in Devices |-> IF d = phone THEN alice ELSE bob]
=============================================================================

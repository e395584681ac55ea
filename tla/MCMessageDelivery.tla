-------------------------- MODULE MCMessageDelivery --------------------------
(* alice writes from her phone to bob, who has a tablet; the message she    *)
(* sends to their group goes to her phone too.                              *)
EXTENDS MessageDelivery, TLC

CONSTANTS phone, tablet, alice, bob

MCUserOf == [d \in Devices |-> IF d = phone THEN alice ELSE bob]
ToBob == {<<phone, bob>>}

Symmetry == Permutations(Requests)
=============================================================================

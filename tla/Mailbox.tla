-------------------------------- MODULE Mailbox --------------------------------
(****************************************************************************)
(* What the message store promises each device, whatever requests overlap,  *)
(* fail half-way or are retried: a message is put into the mailbox of one   *)
(* device, stays there until that device acknowledges it, and then never    *)
(* comes back.  MessageDelivery implements this.                            *)
(****************************************************************************)
CONSTANTS Devices, Ids

VARIABLES
    box,    \* messages each device still has to acknowledge
    done    \* messages each device has acknowledged

vars == <<box, done>>

Used == UNION {box[d] \cup done[d] : d \in Devices}

Init ==
    /\ box = [d \in Devices |-> {}]
    /\ done = [d \in Devices |-> {}]

\* New messages appear, each in one mailbox, any number of them at once.
Put ==
    /\ box' \in [Devices -> SUBSET Ids]
    /\ \A d \in Devices : box[d] \subseteq box'[d] /\ (box'[d] \ box[d]) \cap Used = {}
    /\ \A d, e \in Devices : d # e => box'[d] \cap box'[e] = {}
    /\ UNCHANGED done

\* A device acknowledges messages of its own mailbox.
Take(d) ==
    \E ms \in SUBSET box[d] :
        /\ box' = [box EXCEPT ![d] = @ \ ms]
        /\ done' = [done EXCEPT ![d] = @ \cup ms]

Next == Put \/ \E d \in Devices : Take(d)

Spec == Init /\ [][Next]_vars
=============================================================================

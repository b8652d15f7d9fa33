---------------------------- MODULE MemoryContract ----------------------------
(***************************************************************************)
(* What the memory loop promises its user, whichever handler she talks to: *)
(* one offer is open at a time; what is kept is the open offer she         *)
(* accepted, as it was worded then; an offer is answered once; and what    *)
(* she has had forgotten does not come back.                               *)
(***************************************************************************)
CONSTANTS Ids, Wordings

VARIABLES
    open,     \* the offer that waits for an answer, as {<<id, wording>>}
    kept,     \* what is remembered
    closed    \* ids of the offers answered or overtaken

vars == <<open, kept, closed>>

OpenIds == {offer[1] : offer \in open}

Offer(id, wording) ==
    /\ id \notin closed \cup OpenIds
    /\ open' = {<<id, wording>>}
    /\ closed' = closed \cup OpenIds
    /\ UNCHANGED kept

Reword(id, wording) ==
    /\ id \in OpenIds
    /\ open' = {<<id, wording>>}
    /\ UNCHANGED <<kept, closed>>

Close(id) == open' = {} /\ closed' = closed \cup {id}

Accept(offer) == open = {offer} /\ kept' = kept \cup {offer} /\ Close(offer[1])

Refuse(offer) == open = {offer} /\ kept' = kept /\ Close(offer[1])

Forget(offer) == offer \in kept /\ kept' = kept \ {offer} /\ UNCHANGED <<open, closed>>

Init == open = {} /\ kept = {} /\ closed = {}

Next ==
    \E id \in Ids, wording \in Wordings :
        \/ Offer(id, wording)
        \/ Reword(id, wording)
        \/ Accept(<<id, wording>>)
        \/ Refuse(<<id, wording>>)
        \/ Forget(<<id, wording>>)

Spec == Init /\ [][Next]_vars
=============================================================================

--------------------------- MODULE ReliableChannel ---------------------------
(***************************************************************************)
(* What TRP promises DDP in one direction of a connection, with no network  *)
(* in sight: segments are numbered from First on; each is handed to the     *)
(* receiver at most once, in any order; and the sender is told that a       *)
(* segment has arrived only after it and all segments before it have.       *)
(***************************************************************************)
EXTENDS Integers

CONSTANT First

VARIABLES
    next,        \* number of the next segment to be sent
    arrived,     \* segments the receiver has accepted
    confirmed    \* segments the sender knows to have arrived

channelVars == <<next, arrived, confirmed>>

Init == next = First /\ arrived = {} /\ confirmed = {}

Send ==
    /\ next' = next + 1
    /\ UNCHANGED <<arrived, confirmed>>

Deliver ==
    /\ \E p \in (First .. next - 1) \ arrived : arrived' = arrived \cup {p}
    /\ UNCHANGED <<next, confirmed>>

Confirm ==
    /\ \E k \in First .. next : confirmed' = First .. k - 1
    /\ confirmed \subseteq confirmed' /\ confirmed' \subseteq arrived
    /\ UNCHANGED <<next, arrived>>

Next == Send \/ Deliver \/ Confirm

Spec == Init /\ [][Next]_channelVars

==============================================================================

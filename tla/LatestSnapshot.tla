--------------------------- MODULE LatestSnapshot ---------------------------
(***************************************************************************)
(* What ControlLoop's snapshot buffer promises, without queues or markers: *)
(* one slot that holds the last snapshot put into it, a consumer that      *)
(* empties the slot when it takes the snapshot, and a close that throws    *)
(* away whatever is in the slot at that moment.                            *)
(***************************************************************************)
EXTENDS Naturals

CONSTANT Version   \* versions a snapshot may have, positive numbers

VARIABLES slot,      \* version of the snapshot in the slot, 0 when empty
          inHand,    \* version the consumer took last, 0 when none
          open       \* no close has been performed yet

vars == <<slot, inHand, open>>

Init == slot = 0 /\ inHand = 0 /\ open = TRUE

Put(v) == /\ slot' = v
          /\ UNCHANGED <<inHand, open>>

Get == /\ slot # 0
       /\ inHand' = slot
       /\ slot' = 0
       /\ UNCHANGED open

Close == /\ open
         /\ open' = FALSE
         /\ slot' = 0
         /\ UNCHANGED inHand

Next == (\E v \in Version : Put(v)) \/ Get \/ Close

Spec == Init /\ [][Next]_vars
=============================================================================

---------------------------- MODULE SnapshotLog ----------------------------
(***************************************************************************)
(* What the snapshot database promises, without transactions, statements,  *)
(* refusals and crashes: a log of snapshots.  One snapshot at a time is    *)
(* handed in.  It is appended under the next number, at once and with all  *)
(* of its rows, those of the devices that changed among them, or it is     *)
(* dropped.  What is in the log stays as it is.                            *)
(***************************************************************************)
EXTENDS Naturals

CONSTANTS Device,
          Always(_),     \* rows a snapshot always has
          Of(_, _)       \* rows of a snapshot for a device that changed

VARIABLES log,    \* rows, each with the number of its snapshot
          busy,   \* a snapshot was handed in
          offer   \* that snapshot

vars == <<busy, offer, log>>

\* Snapshots are numbered from 1; the number after the last one.
Numbers == {r.snap : r \in log}
NextNumber == ({1} \cup {n + 1 : n \in Numbers}) \ Numbers

Init == log = {} /\ ~busy

HandIn == /\ ~busy /\ busy'
          /\ UNCHANGED log

Store(n, changed) ==
  log' = log \cup {[snap |-> n, row |-> r] :
                     r \in Always(offer) \cup UNION {Of(offer, d) : d \in changed}}

Drop == UNCHANGED log

Finish == /\ busy /\ ~busy'
          /\ Drop \/ \E n \in NextNumber, changed \in SUBSET Device : Store(n, changed)

Next == HandIn \/ Finish

Spec == Init /\ [][Next]_vars
=============================================================================

------------------------------- MODULE SendFifo -------------------------------
(***************************************************************************)
(* What the transmit queue of src/src/cyw43455/tx_queue.h promises NDIS,   *)
(* with its two arrays, its lock, its promotions and its completion        *)
(* protocol hidden: one line of accepted NBLs in admission order.  Only    *)
(* the NBL at the head is transmitted, frame by frame; it leaves as `sent' *)
(* when its last frame has gone out; any NBL may leave as `dropped'; each  *)
(* is given back to NDIS once.                                             *)
(***************************************************************************)
EXTENDS Integers, Sequences

CONSTANTS
    Nbls,       \* the NBLs
    MaxFrames   \* the largest number of frames of an NBL

VARIABLES
    line,       \* the accepted NBLs, each with its frames left to transmit
    leaving     \* NBLs out of the line that NDIS does not have back yet

fifoVars == <<line, leaving>>

InLine(n) == \E i \in 1..Len(line) : line[i].nbl = n
InLeaving(n) == \E x \in leaving : x.nbl = n

Without(k) ==
    [i \in 1..(Len(line) - 1) |-> IF i < k THEN line[i] ELSE line[i + 1]]

FifoInit == line = <<>> /\ leaving = {}

Accept(n, frames) ==
    /\ ~InLine(n) /\ ~InLeaving(n)
    /\ line' = Append(line, [nbl |-> n, left |-> frames])
    /\ UNCHANGED leaving

(* One frame of the head goes out and the head stays. *)
Transmit ==
    /\ line # <<>> /\ line[1].left > 1
    /\ line' = [line EXCEPT ![1].left = @ - 1]
    /\ UNCHANGED leaving

(* The last frame of the head goes out and the head leaves as sent. *)
Finish ==
    /\ line # <<>> /\ line[1].left = 1
    /\ line' = Without(1)
    /\ leaving' = leaving \cup {[nbl |-> line[1].nbl, outcome |-> "sent"]}

(* An NBL leaves unsent or half sent.  It may be the head whose transfer    *)
(* was under way: that frame is not part of any promise.                    *)
Drop(k) ==
    /\ line' = Without(k)
    /\ leaving' = leaving \cup {[nbl |-> line[k].nbl, outcome |-> "dropped"]}

Return(x) ==
    /\ leaving' = leaving \ {x}
    /\ UNCHANGED line

FifoNext ==
    \/ \E n \in Nbls, frames \in 1..MaxFrames : Accept(n, frames)
    \/ Transmit
    \/ Finish
    \/ \E k \in 1..Len(line) : Drop(k)
    \/ \E x \in leaving : Return(x)

(* Property: the transmit queue is a FIFO that gives every NBL back once.   *)
FifoSpec == FifoInit /\ [][FifoNext]_fifoVars
=============================================================================

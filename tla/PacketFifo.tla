------------------------------ MODULE PacketFifo ------------------------------
(***************************************************************************)
(* What the shared-memory ring promises its two users: a bounded FIFO that *)
(* refuses a packet only when it holds Capacity packets and that hands out *)
(* packets whole, in order, each exactly once.  A packet whose slot was    *)
(* damaged by somebody else may be skipped; no other packet may.           *)
(***************************************************************************)
EXTENDS Integers, Sequences

CONSTANTS Capacity,      \* slots of the ring
          Packets,       \* what can be sent
          Received(_),   \* the consumer's view of a packet that arrived whole
          Skipped        \* the consumer's view of a damaged slot

VARIABLES sent,          \* every packet accepted, in order
          taken,         \* what the consumer got for each of them, in order
          fullDrops,     \* packets refused because the ring was full
          damaged        \* positions of sent whose slot was damaged

vars == <<sent, taken, fullDrops, damaged>>

Init == sent = <<>> /\ taken = <<>> /\ fullDrops = 0 /\ damaged = {}

Held == Len(sent) - Len(taken)

Send == /\ Held < Capacity
        /\ \E p \in Packets : sent' = Append(sent, p)
        /\ UNCHANGED <<taken, fullDrops, damaged>>

Refuse == /\ Held = Capacity
          /\ fullDrops' = fullDrops + 1
          /\ UNCHANGED <<sent, taken, damaged>>

Take == /\ Held > 0
        /\ taken' = Append(taken, Received(sent[Len(taken) + 1]))
        /\ UNCHANGED <<sent, fullDrops, damaged>>

Skip == /\ Held > 0
        /\ Len(taken) + 1 \in damaged
        /\ taken' = Append(taken, Skipped)
        /\ UNCHANGED <<sent, fullDrops, damaged>>

Damage == /\ \E i \in (Len(taken) + 1) .. Len(sent) : damaged' = damaged \cup {i}
          /\ UNCHANGED <<sent, taken, fullDrops>>

Next == Send \/ Refuse \/ Take \/ Skip \/ Damage

Spec == Init /\ [][Next]_vars
===============================================================================

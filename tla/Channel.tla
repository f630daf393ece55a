------------------------------ MODULE Channel -------------------------------
(***************************************************************************)
(* A datagram channel of the local network between the host and a console. *)
(* It is a sequence; when Ordered, a receiver takes one datagram and those *)
(* before it are lost, otherwise any one may overtake the rest.  What is   *)
(* sent to a full channel (a NIC's receive ring, a socket buffer) is lost. *)
(***************************************************************************)
EXTENDS Integers, Sequences

CONSTANTS
    Ordered,        \* FALSE: the network may reorder
    Cap             \* bound: datagrams in a channel

ASSUME ChannelAssumption == Ordered \in BOOLEAN /\ Cap \in Nat

\* Datagrams sent one after another; those beyond the capacity are lost.
Put(ch, ms) == IF Len(ch) + Len(ms) <= Cap
               THEN ch \o ms ELSE SubSeq(ch \o ms, 1, Cap)

\* What is left of ch when its i-th datagram is received, and what that costs.
After(ch, i) == IF Ordered THEN SubSeq(ch, i + 1, Len(ch))
                ELSE SubSeq(ch, 1, i - 1) \o SubSeq(ch, i + 1, Len(ch))
Overtaken(i) == IF Ordered THEN i - 1 ELSE 0
=============================================================================

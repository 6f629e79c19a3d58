---------------------------- MODULE SdioChannel ----------------------------
(***************************************************************************)
(* What a port of the SDIO driver promises its reader: a channel of bytes. *)
(* Packets arrive whole, bytes leave in the order in which they came, and  *)
(* nothing is invented.  Opening the port may empty it.  An open that runs *)
(* into the arrival of a packet, or into a reader that takes bytes out,    *)
(* may tear the channel: the driver does not hold the port's mutex there,  *)
(* and nothing is promised from then on.                                   *)
(***************************************************************************)
EXTENDS Naturals, Sequences

CONSTANTS Bytes, Capacity    \* the bytes there are, how many fit

VARIABLES queue, torn

ChannelInit == queue = <<>> /\ torn = FALSE

Put == /\ ~torn' /\ Len(queue') > Len(queue) /\ Len(queue') <= Capacity
       /\ SubSeq(queue', 1, Len(queue)) = queue
       /\ \A i \in 1..Len(queue') : queue'[i] \in Bytes

Get == /\ ~torn' /\ Len(queue') < Len(queue)
       /\ queue' = SubSeq(queue, Len(queue) - Len(queue') + 1, Len(queue))

Clear == ~torn' /\ queue' = <<>>

ChannelNext == torn \/ torn' \/ Put \/ Get \/ Clear

ChannelSpec == ChannelInit /\ [][ChannelNext]_<<queue, torn>>
=============================================================================
